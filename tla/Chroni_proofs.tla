----------------------------- MODULE Chroni_proofs ----------------------------
(***************************************************************************)
(* Chroni from both sides.  The display list, for all lists of the         *)
(* instructions there are, every size of the frame and every width of a    *)
(* scanline: each section has the scanlines the list gives it, and its     *)
(* lines and pixels follow its window.  The registers, for every set of    *)
(* stores and as many of them as one likes: the emulator and the FPGA are  *)
(* left with the same memory and the same palette.                         *)
(***************************************************************************)
EXTENDS Chroni, SequenceTheorems, WellFoundedInduction, TLAPS

-----------------------------------------------------------------------------
(* The display list *)

\* Whether an instruction is in effect.
Live == pc = "display" \/ (pc = "back_porch" /\ dl_scanlines > 0)

Types ==
  /\ list \in Lists
  /\ dl_pos \in 1 .. Len(list) /\ dl_scanlines \in 0 .. WORD - 1
  /\ ypos \in Nat /\ drawn \in Nat
  /\ pc \in {"back_porch", "display", "frame_start"}

\* The registers are those of the instruction in effect.
InEffect ==
  Live =>
    /\ section \in 1 .. Len(list)
    /\ dl_mode = Current.mode /\ dl_scroll = Current.scroll
    /\ dl_pos = IF dl_mode \in Content THEN section + 1 ELSE section
    /\ dl_mode = END => dl_scanlines = 0
    /\ dl_mode \in Content =>
         /\ dl_mode_scanlines = lines_per_mode(dl_mode) - 1
         /\ dl_scroll => window = Window(Current)

\* The scanlines so far and those the section still has are what the list gives
\* to the sections before the next.
ScanlinesAreCounted ==
  /\ Live /\ dl_mode \in Content =>
       dl_scanlines + drawn + (IF pc = "display" THEN 1 ELSE 0) <= Asked(Current)
  /\ pc = "back_porch" =>
       \/ ypos + dl_scanlines = Before(list)[dl_pos]
       \/ /\ list[dl_pos].mode = END
          /\ dl_scanlines = 0 /\ ypos >= Before(list)[dl_pos]
       \/ /\ list[dl_pos].mode = BlankSection
          /\ dl_scanlines > 0 => dl_mode = BlankSection
  /\ pc = "display" =>
       /\ dl_mode \in Content =>
            ypos + dl_scanlines + 1 = Before(list)[dl_pos]
       /\ dl_mode = END => ypos >= Before(list)[dl_pos]

Height(i) == IF i.scroll THEN i.height * (8 \div lines_per_mode(i.mode)) ELSE WORD
FirstLine(i) == IF i.scroll THEN 8 * i.top + i.fine_y ELSE 0

\* The row is the one of the line, and dl_row_wrap what is below it.
RowIsOfTheLine ==
  Live /\ dl_mode \in Content =>
    LET n    == lines_per_mode(Current.mode)
        line == drawn + FirstLine(Current)
    IN  /\ row = (line \div n) % Height(Current)
        /\ dl_row_wrap = Height(Current) - 1 - row
        /\ dl_mode_scanline = line % n

IInv == Types /\ InEffect /\ ScanlinesAreCounted /\ RowIsOfTheLine

-----------------------------------------------------------------------------
(* The sums of the scanlines *)

\* A set of natural numbers that is not empty has a least one.
LEMMA LeastOfNats ==
  ASSUME NEW S \in SUBSET Nat, S # {}
  PROVE  \E x \in S : \A y \in S : x <= y
<1>1. PICK x \in S : \A y \in S : ~(<<y, x>> \in OpToRel(<, Nat))
  BY NatLessThanWellFounded, WFMin, Zenon
<1>2. \A y \in S : ~(y < x)
  <2> SUFFICES ASSUME NEW y \in S, y < x PROVE FALSE
    OBVIOUS
  <2>1. <<y, x>> \in OpToRel(<, Nat)
    BY Zenon DEF OpToRel
  <2> QED
    BY <1>1, <2>1, Zenon
<1> QED
  BY <1>2

\* The sums of the numbers of c exist, up to any n.
LEMMA SumsExist ==
  ASSUME NEW c \in [Nat -> Nat], NEW n \in Nat
  PROVE  \E f : f = [k \in 1 .. n |-> IF k = 1 THEN 0 ELSE f[k - 1] + c[k - 1]]
<1> DEFINE Step(f, k) == IF k = 1 THEN 0 ELSE f[k - 1] + c[k - 1]
           Sums(f, m) == f = [k \in 1 .. m |-> Step(f, k)]
           Without == {m \in Nat : ~ \E f : Sums(f, m)}
<1>1. ASSUME Without # {} PROVE FALSE
  <2>1. PICK m \in Without : \A y \in Without : m <= y
    BY <1>1, LeastOfNats
  <2>2. m # 0
    <3>1. Sums([k \in {} |-> 0], 0)
      OBVIOUS
    <3> QED
      BY <3>1, <2>1
  <2>3. m \in Nat /\ m - 1 \in Nat
    BY <2>1, <2>2
  <2>4. PICK f : Sums(f, m - 1)
    <3> HIDE DEF Sums
    <3>1. m - 1 \notin Without
      BY <2>3, <2>1
    <3> QED
      BY <2>3, <3>1
  <2> DEFINE g == [k \in 1 .. m |-> IF k = m THEN Step(f, k) ELSE f[k]]
  <2>5. \A k \in 1 .. m : g[k] = Step(g, k)
    <3> SUFFICES ASSUME NEW k \in 1 .. m PROVE g[k] = Step(g, k)
      OBVIOUS
    <3>1. k # 1 => g[k - 1] = f[k - 1]
      OBVIOUS
    <3>2. Step(g, k) = Step(f, k)
      BY <3>1
    <3>3. k # m => f[k] = Step(f, k)
      <4>1. k # m => k \in 1 .. m - 1
        BY <2>3
      <4> HIDE DEF Step
      <4> QED
        BY <2>4, <4>1
    <3> QED
      BY <3>2, <3>3
  <2>6. Sums(g, m)
    BY <2>5
  <2> QED
    BY <2>6, <2>1
<1> QED
  BY <1>1

\* A remainder is the one number in range that the quotient leaves.
LEMMA Remainder ==
  ASSUME NEW m \in Nat \ {0}, NEW x \in Int, NEW q \in Int, NEW r \in 0 .. m - 1,
         x = m * q + r
  PROVE  x % m = r
OBVIOUS

\* One more than the largest byte, and a bound of the pixels of a window; the
\* provers are slow with large numbers.
ByteEnd == 256
Most    == 4096

\* The numbers that 16 bits hold.
LEMMA WordFacts ==
  /\ WORD \in Nat \ {0} /\ 0 \in 0 .. WORD - 1 /\ 1 \in 1 .. WORD /\ WORD - 1 \in Nat
  /\ \A a \in 1 .. WORD : /\ a \in Nat \ {0} /\ a - 1 \in 0 .. WORD - 1
                          /\ a - 1 \in Nat /\ a - 1 < WORD
  /\ \A a \in 0 .. WORD - 1 : a \in Nat
  /\ \A a \in Nat : a < Most => a < WORD /\ (a # 0 => a \in 1 .. WORD)
  /\ WORD \in 1 .. WORD
<1>1. \A n \in Nat : \A a \in 1 .. n :
        /\ a \in Nat \ {0} /\ a - 1 \in 0 .. n - 1
        /\ a - 1 \in Nat /\ a - 1 < n
  OBVIOUS
<1>2. \A n \in Nat : \A a \in 0 .. n - 1 : a \in Nat
  OBVIOUS
<1>3. WORD \in Nat /\ WORD # 0
  BY DEF WORD
<1>4. /\ WORD \in Nat \ {0} /\ 0 \in 0 .. WORD - 1 /\ 1 \in 1 .. WORD
      /\ WORD \in 1 .. WORD /\ WORD - 1 \in Nat
  BY <1>3
<1>5. ASSUME NEW a \in Nat, a < Most PROVE a < WORD /\ (a # 0 => a \in 1 .. WORD)
  <2>1. \A n \in Nat : a < n => (a # 0 => a \in 1 .. n)
    OBVIOUS
  <2>2. a < WORD
    BY <1>5 DEF Most, WORD
  <2> QED
    BY <1>3, <2>1, <2>2
<1> QED
  BY <1>1, <1>2, <1>4, <1>5, Zenon

\* What a byte may be.
LEMMA ByteFacts == \A b \in Byte : b \in Nat /\ b < ByteEnd
BY DEF Byte, ByteEnd

\* A number below the modulus is its own remainder.
LEMMA SmallIsRemainder ==
  ASSUME NEW m \in Nat \ {0}, NEW x \in Nat, x < m PROVE x % m = x
OBVIOUS

\* The count in an instruction is a byte, and a count of zero gives WORD lines.
LEMMA ScanlinesAsked ==
  ASSUME NEW i \in Instruction
  PROVE  /\ i.count \in Byte /\ Asked(i) \in 1 .. WORD
         /\ UINT16(i.count - 1) = Asked(i) - 1
<1>1. i.count \in Byte
  BY Zenon DEF Instruction, PlainInstruction, ScrollInstruction
<1>2. PICK n \in Nat : n = i.count /\ n < ByteEnd
  BY <1>1, ByteFacts, Zenon
<1>3. Asked(i) = IF n = 0 THEN WORD ELSE n
  BY <1>2, Zenon DEF Asked
<1>4. (n - 1) % WORD = Asked(i) - 1
  <2>1. CASE n = 0
    <3>1. PICK x \in Int, q \in Int : x = 0 - 1 /\ q = 0 - 1
      OBVIOUS
    <3>2. \A m \in Nat \ {0} : x % m = m - 1
      <4>1. \A m \in Nat \ {0} : x = m * q + (m - 1) /\ m - 1 \in 0 .. m - 1
        BY <3>1
      <4> QED
        BY <4>1, Remainder, Zenon
    <3>3. x % WORD = WORD - 1
      BY <3>2, WordFacts, Zenon
    <3>4. n - 1 = x
      BY <2>1, <3>1
    <3> QED
      BY <1>3, <2>1, <3>3, <3>4, Zenon
  <2>2. CASE n # 0
    <3>1. n - 1 \in Nat /\ n - 1 < Most
      BY <1>2, <2>2 DEF Most, ByteEnd
    <3>2. (n - 1) % WORD = n - 1
      BY <3>1, SmallIsRemainder, WordFacts, Zenon
    <3> QED
      BY <1>3, <2>2, <3>2, Zenon
  <2> QED
    BY <2>1, <2>2
<1>5. Asked(i) \in 1 .. WORD
  <2>1. n < Most
    BY <1>2 DEF Most, ByteEnd
  <2> QED
    BY <1>3, <2>1, WordFacts, Zenon
<1>6. UINT16(i.count - 1) = Asked(i) - 1
  <2>1. UINT16(i.count - 1) = (i.count - 1) % WORD
    BY Zenon DEF UINT16
  <2> QED
    BY <1>2, <1>4, <2>1, Zenon
<1> QED
  BY <1>1, <1>5, <1>6, Zenon

\* What an instruction that scrolls says of its window.
LEMMA ScrollPosition ==
  ASSUME NEW i \in Instruction, i.scroll
  PROVE  /\ i.width \in Byte \ {0} /\ i.height \in Byte \ {0}
         /\ i.left \in Byte /\ i.top \in Byte
         /\ i.left < i.width /\ i.top < i.height
         /\ i.fine_x \in 0 .. 7 /\ i.fine_y \in 0 .. 7
<1>1. i \in ScrollInstruction /\ InItsWindow(i)
  BY Zenon DEF Instruction, PlainInstruction
<1>2. /\ i.width \in Byte \ {0} /\ i.height \in Byte \ {0}
      /\ i.left \in Byte /\ i.top \in Byte
      /\ i.fine_x \in 0 .. 7 /\ i.fine_y \in 0 .. 7
  BY <1>1, Zenon DEF ScrollInstruction
<1>3. i.left < i.width /\ i.top < i.height
  BY <1>1, Zenon DEF InItsWindow
<1> QED
  BY <1>2, <1>3, Zenon

\* The first section starts at once, and each at the end of the one before.
LEMMA BeforeSums ==
  ASSUME NEW l \in Seq(Instruction)
  PROVE  /\ Len(l) > 0 => Before(l)[1] = 0
         /\ \A k \in 1 .. Len(l) : Before(l)[k] \in Nat
         /\ \A k \in 1 .. Len(l) - 1 : Before(l)[k + 1] = Before(l)[k] + Asked(l[k])
<1> DEFINE c == [k \in Nat |-> IF k \in 1 .. Len(l) THEN Asked(l[k]) ELSE 0]
           F(f) == [k \in 1 .. Len(l) |->
                      IF k = 1 THEN 0 ELSE f[k - 1] + Asked(l[k - 1])]
<1>1. \A k \in 1 .. Len(l) : Asked(l[k]) \in Nat
  <2>1. \A k \in 1 .. Len(l) : l[k] \in Instruction
    BY ElementOfSeq
  <2>2. \A i \in Instruction : Asked(i) \in 1 .. WORD
    BY ScanlinesAsked, Zenon
  <2> QED
    BY <2>1, <2>2, WordFacts, Zenon
<1>2. c \in [Nat -> Nat]
  BY <1>1
<1>3. Len(l) \in Nat
  BY LenProperties
<1>4. PICK f : f = [k \in 1 .. Len(l) |-> IF k = 1 THEN 0 ELSE f[k - 1] + c[k - 1]]
  BY <1>2, <1>3, SumsExist
<1>5. f = F(f)
  <2>1. \A k \in 1 .. Len(l) : k # 1 => c[k - 1] = Asked(l[k - 1])
    BY <1>3
  <2> QED
    BY <1>4, <2>1
<1>6. Before(l) = CHOOSE g : g = F(g)
  BY DEF Before
<1>7. Before(l) = F(Before(l))
  BY <1>5, <1>6
<1>8. /\ Len(l) > 0 => Before(l)[1] = 0
      /\ \A k \in 1 .. Len(l) - 1 : Before(l)[k + 1] = Before(l)[k] + Asked(l[k])
  BY <1>7, <1>3
<1>9. \A k \in 1 .. Len(l) : Before(l)[k] \in Nat
  <2> DEFINE Others == {k \in 1 .. Len(l) : Before(l)[k] \notin Nat}
  <2>1. ASSUME Others # {} PROVE FALSE
    <3>1. Others \in SUBSET Nat
      OBVIOUS
    <3>2. PICK k \in Others : \A j \in Others : k <= j
      BY <2>1, <3>1, LeastOfNats, Zenon
    <3>3. k \in 1 .. Len(l) /\ Before(l)[k] \notin Nat
      BY <3>2, Zenon
    <3>4. k - 1 \in 1 .. Len(l) - 1 /\ k = (k - 1) + 1 /\ k - 1 \in 1 .. Len(l)
          /\ ~(k <= k - 1)
      BY <1>3, <1>8, <3>3
    <3>5. Before(l)[k - 1] \in Nat
      BY <3>2, <3>4, Zenon
    <3>6. Before(l)[k] = Before(l)[k - 1] + Asked(l[k - 1])
      BY <1>8, <3>4, Zenon
    <3>7. Asked(l[k - 1]) \in Nat
      BY <1>1, <3>4, Zenon
    <3> QED
      BY <3>3, <3>5, <3>6, <3>7
  <2> QED
    BY <2>1, Zenon
<1> QED
  BY <1>8, <1>9
-----------------------------------------------------------------------------
(* The steps *)

\* A list of the program has an instruction, and ends.
LEMMA ListFacts ==
  ASSUME NEW l \in Lists
  PROVE  /\ l \in Seq(Instruction) /\ Len(l) \in Nat /\ Len(l) > 0
         /\ l[Len(l)].mode = END /\ Before(l)[1] = 0
<1>1. l \in Seq(Instruction) /\ Len(l) > 0 /\ l[Len(l)].mode = END
  BY ListAssumption
<1> QED
  BY <1>1, LenProperties, BeforeSums

\* The mode of an instruction is one of three kinds.
LEMMA ModesDiffer ==
  ASSUME NEW i \in Instruction
  PROVE  /\ i.mode \in Content \/ i.mode = BlankSection \/ i.mode = END
         /\ BlankSection \notin Content /\ END \notin Content /\ END # BlankSection
         /\ i.scroll \in BOOLEAN
<1>1. i.mode \in Content \cup {BlankSection, END} /\ i.scroll \in {TRUE, FALSE}
  BY Zenon DEF Instruction, PlainInstruction, ScrollInstruction
<1>2. BlankSection \notin Content /\ END \notin Content /\ END # BlankSection
  BY DEF Content, Text, Tiles, Bitmaps, BlankSection, END
<1> QED
  BY <1>1, <1>2, Zenon

\* The remainder of the next number.
LEMMA NextRemainder ==
  ASSUME NEW m \in Nat \ {0}, NEW x \in Nat
  PROVE  (x + 1) % m = IF x % m = m - 1 THEN 0 ELSE (x % m) + 1
<1>1. PICK q \in Int, r \in 0 .. m - 1 : x = m * q + r /\ x % m = r
  <2>1. x = m * (x \div m) + (x % m) /\ x \div m \in Int
    OBVIOUS
  <2>2. x % m \in 0 .. m - 1
    OBVIOUS
  <2> QED
    BY <2>1, <2>2
<1>2. CASE r = m - 1
  <2>1. x + 1 = m * (q + 1) + 0
    BY <1>1, <1>2
  <2>2. q + 1 \in Int /\ 0 \in 0 .. m - 1 /\ x + 1 \in Int
    OBVIOUS
  <2>3. (x + 1) % m = 0
    BY <2>1, <2>2, Remainder, Zenon
  <2> QED
    BY <1>1, <1>2, <2>3
<1>3. CASE r # m - 1
  <2>1. /\ x + 1 = m * q + (r + 1) /\ r + 1 \in 0 .. m - 1
        /\ x + 1 \in Int
    BY <1>1, <1>3
  <2>2. (x + 1) % m = r + 1
    BY <2>1, Remainder, Zenon
  <2> QED
    BY <1>1, <1>3, <2>2
<1> QED
  BY <1>2, <1>3

\* A line of eight, or of one, is the first, or follows the one before, of its
\* row; and the rows wrap.
LEMMA NextLine ==
  ASSUME NEW m \in Nat \ {0}, NEW n \in {1, 8}, NEW line \in Nat
  PROVE  LET r == (line \div n) % m
         IN  /\ r \in 0 .. m - 1 /\ line % n \in 0 .. n - 1
             /\ line % n # n - 1 =>
                  /\ (line + 1) \div n = line \div n
                  /\ (line + 1) % n = (line % n) + 1
             /\ line % n = n - 1 =>
                  /\ ((line + 1) \div n) % m = IF r = m - 1 THEN 0 ELSE r + 1
                  /\ (line + 1) % n = 0
<1>1. /\ line \div n \in Nat /\ line % n \in 0 .. n - 1
      /\ line % n # n - 1 =>
           /\ (line + 1) \div n = line \div n
           /\ (line + 1) % n = (line % n) + 1
      /\ line % n = n - 1 =>
           /\ (line + 1) \div n = (line \div n) + 1
           /\ (line + 1) % n = 0
  <2>1. CASE n = 1
    BY <2>1
  <2>2. CASE n = 8
    BY <2>2
  <2> QED
    BY <2>1, <2>2
<1>2. PICK x \in Nat : x = line \div n
  BY <1>1
<1>3. x % m \in 0 .. m - 1
  OBVIOUS
<1>4. (x + 1) % m = IF x % m = m - 1 THEN 0 ELSE (x % m) + 1
  BY NextRemainder
<1> QED
  BY <1>1, <1>2, <1>3, <1>4

\* The height of a section and where it starts, in lines and rows.
LEMMA SectionHeight ==
  ASSUME NEW i \in Instruction, i.mode \in Content
  PROVE  /\ lines_per_mode(i.mode) \in {1, 8}
         /\ Height(i) \in 1 .. WORD /\ FirstLine(i) \in Nat
         /\ i.scroll => Window(i).height = Height(i)
         /\ i.scroll =>
              LET n == lines_per_mode(i.mode)
              IN  /\ Window(i).top = FirstLine(i) \div n
                  /\ Window(i).top < Height(i)
                  /\ (IF i.mode \in Bitmaps THEN 0 ELSE i.fine_y) = FirstLine(i) % n
<1>1. CASE ~i.scroll
  BY <1>1, WordFacts DEF lines_per_mode, Height, FirstLine
<1>2. CASE i.scroll
  <2>1. PICK h \in Nat, t \in Nat, y \in 0 .. 7 :
             /\ h = i.height /\ t = i.top /\ y = i.fine_y
             /\ t < h /\ h # 0 /\ h < ByteEnd
    BY <1>2, ScrollPosition, ByteFacts, Zenon
  <2> t < h /\ h # 0 /\ h < ByteEnd
    BY <2>1, Zenon
  <2> 8 * t + y \in Nat
    OBVIOUS
  <2>2. CASE i.mode \in Bitmaps
    <3>1. /\ 8 * t + y < 8 * h /\ ~(8 * t + y > 8 * h) /\ 8 * h \in 1 .. WORD
          /\ (8 * t + y) \div 1 = 8 * t + y /\ (8 * t + y) % 1 = 0
          /\ 8 \div 1 = 8 /\ h * 8 = 8 * h
      <4>1. 8 * h \in Nat /\ 8 * h < Most /\ 8 * h # 0
        BY DEF Most, ByteEnd
      <4>2. 8 * h \in 1 .. WORD
        BY <4>1, WordFacts, Zenon
      <4>3. (8 * t + y) \div 1 = 8 * t + y /\ (8 * t + y) % 1 = 0 /\ 8 \div 1 = 8
        OBVIOUS
      <4>4. 8 * t + y < 8 * h /\ ~(8 * t + y > 8 * h) /\ h * 8 = 8 * h
        OBVIOUS
      <4> QED
        BY <4>2, <4>3, <4>4, Zenon
    <3>2. lines_per_mode(i.mode) = 1
      BY <2>2 DEF lines_per_mode
    <3>3. Height(i) = 8 * h /\ FirstLine(i) = 8 * t + y
      BY <1>2, <2>1, <3>1, <3>2 DEF Height, FirstLine
    <3>4. Window(i).height = 8 * h /\ Window(i).top = 8 * t + y
      BY <2>1, <2>2, <3>1 DEF Window
    <3> QED
      BY <2>2, <3>1, <3>2, <3>3, <3>4
  <2>3. CASE i.mode \notin Bitmaps
    <3>1. /\ h \in 1 .. WORD /\ (8 * t + y) \div 8 = t /\ (8 * t + y) % 8 = y
          /\ 8 \div 8 = 1 /\ h * 1 = h /\ 1 * h = h /\ 1 * t + 0 = t
      <4>1. h < Most /\ h * 1 = h /\ 1 * h = h /\ 1 * t + 0 = t /\ 8 \div 8 = 1
        BY DEF Most, ByteEnd
      <4>2. h \in 1 .. WORD
        BY <4>1, WordFacts, Zenon
      <4>3. (8 * t + y) \div 8 = t /\ (8 * t + y) % 8 = y
        OBVIOUS
      <4> QED
        BY <4>1, <4>2, <4>3, Zenon
    <3>2. lines_per_mode(i.mode) = 8
      BY <2>3 DEF lines_per_mode
    <3>3. Height(i) = h /\ FirstLine(i) = 8 * t + y
      BY <1>2, <2>1, <3>1, <3>2 DEF Height, FirstLine
    <3>4. Window(i).height = h /\ Window(i).top = t
      BY <2>1, <2>3, <3>1 DEF Window
    <3> QED
      BY <2>1, <2>3, <3>1, <3>2, <3>3, <3>4
  <2> QED
    BY <2>2, <2>3
<1> QED
  BY <1>1, <1>2, ModesDiffer

\* The invariant holds before the first frame, and every scanline keeps it.
LEMMA InitIInv == Init => IInv
<1> SUFFICES ASSUME Init PROVE IInv
  OBVIOUS
<1>1. list \in Lists /\ 1 \in 1 .. Len(list) /\ Before(list)[1] = 0
  BY ListFacts DEF Init
<1>2. Types /\ ~Live
  BY <1>1 DEF Init, Types, Live, WORD
<1>3. ScanlinesAreCounted
  BY <1>1, <1>2 DEF ScanlinesAreCounted, Init
<1> QED
  BY <1>2, <1>3 DEF IInv, InEffect, RowIsOfTheLine

\* An instruction is fetched: its section takes the scanlines from where the one
\* before ended, and starts at its first line.
LEMMA FetchKeepsIInv ==
  ASSUME IInv, pc = "back_porch", pc' = "display", dl_scanlines = 0,
         fetch(list[dl_pos]), UNCHANGED <<list, ypos>>
  PROVE  IInv'
<1> DEFINE i == list[dl_pos]
<1>1. /\ list \in Lists /\ Len(list) \in Nat /\ dl_pos \in 1 .. Len(list)
      /\ list[Len(list)].mode = END /\ ypos \in Nat
  BY ListFacts DEF IInv, Types
<1>2. i \in Instruction
  BY <1>1, ListFacts, ElementOfSeq
<1>3. /\ dl_mode' = i.mode /\ dl_scroll' = i.scroll /\ section' = dl_pos /\ drawn' = 0
      /\ list' = list /\ ypos' = ypos /\ Current' = i /\ Live'
      /\ pc' = "display"
  BY Zenon DEF fetch, Current, Live
<1>4. /\ i.mode \in Content => start_section(i)
      /\ i.mode \notin Content => dl_pos' = dl_pos
  BY Zenon DEF fetch
<1>5. dl_pos' = IF i.mode \in Content THEN dl_pos + 1 ELSE dl_pos
  BY <1>4 DEF start_section
<1>6. i.mode \in Content => dl_pos + 1 \in 1 .. Len(list)
  BY <1>1, <1>2, ModesDiffer
<1>7. /\ dl_scanlines' = IF i.mode = END THEN 0 ELSE Asked(i) - 1
      /\ Asked(i) \in 1 .. WORD
  BY <1>2, ScanlinesAsked, Zenon DEF fetch, Scanlines
<1> HIDE DEF i
<1>8. Types'
  <2>1. dl_scanlines' \in 0 .. WORD - 1
    <3>1. PICK a \in 1 .. WORD : a = Asked(i)
      BY <1>7
    <3>2. dl_scanlines' = IF i.mode = END THEN 0 ELSE a - 1
      BY <1>7, <3>1, Zenon
    <3> QED
      BY <3>2, WordFacts, Zenon
  <2>2. dl_pos' \in 1 .. Len(list)
    BY <1>1, <1>5, <1>6
  <2> QED
    BY <1>1, <1>3, <2>1, <2>2 DEF Types
<1>9. InEffect'
  <2>1. i.mode \in Content =>
          /\ dl_mode_scanlines' = lines_per_mode(i.mode) - 1
          /\ i.scroll => window' = Window(i)
    BY <1>4 DEF start_section
  <2>2. i.mode = END => dl_scanlines' = 0
    BY <1>7
  <2> QED
    BY <1>1, <1>3, <1>5, <2>1, <2>2, Zenon DEF InEffect
<1>10. ScanlinesAreCounted'
  <2>1. /\ i.mode \in Content => ypos = Before(list)[dl_pos]
        /\ i.mode = END => ypos >= Before(list)[dl_pos]
    BY <1>1, <1>2, ModesDiffer DEF IInv, ScanlinesAreCounted, i
  <2>2. ASSUME i.mode \in Content
        PROVE  /\ ypos' + dl_scanlines' + 1 = Before(list')[dl_pos']
               /\ dl_scanlines' + drawn' + 1 <= Asked(i)
    <3>1. Before(list)[dl_pos + 1] = Before(list)[dl_pos] + Asked(i)
      BY <1>1, <1>6, <2>2, ListFacts, BeforeSums DEF i
    <3>2. dl_scanlines' = Asked(i) - 1 /\ dl_pos' = dl_pos + 1
      BY <1>2, <1>5, <1>7, <2>2, ModesDiffer
    <3>3. ypos = Before(list)[dl_pos]
      BY <2>1, <2>2
    <3>4. Asked(i) \in Nat
      BY <1>7, WordFacts, Zenon
    <3>5. ypos + (Asked(i) - 1) + 1 = ypos + Asked(i) /\ (Asked(i) - 1) + 0 + 1 <= Asked(i)
      BY <1>1, <3>4
    <3> QED
      BY <1>3, <3>1, <3>2, <3>3, <3>5, Zenon
  <2>3. i.mode = END => ypos' >= Before(list')[dl_pos']
    BY <1>2, <1>3, <1>5, <2>1, ModesDiffer, Zenon
  <2> QED
    BY <1>3, <2>2, <2>3 DEF ScanlinesAreCounted
<1>11. RowIsOfTheLine'
  <2> SUFFICES ASSUME i.mode \in Content
               PROVE  LET n    == lines_per_mode(i.mode)
                          line == 0 + FirstLine(i)
                      IN  /\ row' = (line \div n) % Height(i)
                          /\ dl_row_wrap' = Height(i) - 1 - row'
                          /\ dl_mode_scanline' = line % n
    BY <1>3, Zenon DEF RowIsOfTheLine
  <2>1. /\ lines_per_mode(i.mode) \in {1, 8}
        /\ Height(i) \in 1 .. WORD /\ FirstLine(i) \in Nat
    BY <1>2, SectionHeight
  <2>2. PICK n \in {1, 8}, h \in 1 .. WORD, line \in Nat :
               n = lines_per_mode(i.mode) /\ h = Height(i) /\ line = FirstLine(i)
    BY <2>1
  <2>3. h - 1 < WORD /\ 0 + line = line /\ h \in Nat \ {0} /\ WORD \in Nat \ {0}
    <3>1. 0 + line = line
      OBVIOUS
    <3> QED
      BY <3>1, WordFacts, Zenon
  <2>4. CASE i.scroll
    <3>1. /\ Window(i).height = h /\ Window(i).top = line \div n
          /\ Window(i).top < h
          /\ (IF i.mode \in Bitmaps THEN 0 ELSE i.fine_y) = line % n
      BY <1>2, <2>2, <2>4, SectionHeight, Zenon
    <3>2. /\ row' = Window(i).top
          /\ dl_mode_scanline' = line % n
          /\ dl_row_wrap' = UINT16(h - Window(i).top - 1)
      <4>1. /\ window' = Window(i) /\ row' = (window').top
            /\ dl_mode_scanline' = IF i.mode \in Bitmaps THEN 0 ELSE i.fine_y
            /\ dl_row_wrap' = UINT16((window').height - (window').top - 1)
        BY <1>4, <2>4 DEF start_section
      <4> QED
        BY <3>1, <4>1, Zenon
    <3>3. PICK t \in Nat : t = line \div n
      <4>1. line \div n \in Nat
        <5>1. CASE n = 1
          BY <5>1
        <5>2. CASE n = 8
          BY <5>2
        <5> QED
          BY <5>1, <5>2
      <4> QED
        BY <4>1
    <3>4. t < h
      BY <3>1, <3>3, Zenon
    <3>5. t % h = t
      BY <2>3, <3>4, SmallIsRemainder
    <3>6. h - t - 1 \in Nat /\ h - t - 1 < WORD /\ h - t - 1 = h - 1 - t
      BY <2>3, <3>4
    <3>7. UINT16(h - t - 1) = h - 1 - t
      <4>1. (h - t - 1) % WORD = h - t - 1
        BY <2>3, <3>6, SmallIsRemainder
      <4> QED
        BY <3>6, <4>1, Zenon DEF UINT16
    <3> QED
      BY <2>2, <2>3, <3>1, <3>2, <3>3, <3>5, <3>7, Zenon
  <2>5. CASE ~i.scroll
    <3>1. line = 0 /\ h = WORD
      BY <2>2, <2>5, Zenon DEF Height, FirstLine
    <3>2. row' = 0 /\ dl_mode_scanline' = 0 /\ dl_row_wrap' = WORD - 1
      BY <1>4, <2>5, Zenon DEF start_section
    <3>3. (0 \div n) % WORD = 0 /\ 0 % n = 0 /\ WORD - 1 - 0 = WORD - 1
      <4>1. 0 \div n = 0 /\ 0 % n = 0
        <5>1. CASE n = 1
          BY <5>1
        <5>2. CASE n = 8
          BY <5>2
        <5> QED
          BY <5>1, <5>2
      <4>2. 0 % WORD = 0 /\ WORD - 1 - 0 = WORD - 1
        <5>1. \A k \in Nat \ {0} : 0 % k = 0 /\ k - 1 - 0 = k - 1
          OBVIOUS
        <5> QED
          BY <5>1, WordFacts
      <4> QED
        BY <4>1, <4>2, Zenon
    <3> QED
      BY <2>2, <2>3, <3>1, <3>2, <3>3, Zenon
  <2> QED
    BY <2>4, <2>5
<1> QED
  BY <1>8, <1>9, <1>10, <1>11 DEF IInv

\* A scanline of a section that goes on takes one of those it has left.
LEMMA GoOnKeepsIInv ==
  ASSUME IInv, pc = "back_porch", pc' = "display", dl_scanlines > 0,
         dl_scanlines' = dl_scanlines - 1,
         UNCHANGED <<list, sectionVars, rowVars, ypos>>
  PROVE  IInv'
<1>1. /\ list \in Lists /\ dl_pos \in 1 .. Len(list) /\ ypos \in Nat
      /\ drawn \in Nat /\ dl_scanlines \in 0 .. WORD - 1 /\ WORD \in Nat
  BY WordFacts, Zenon DEF IInv, Types
<1>2. /\ list' = list /\ dl_pos' = dl_pos /\ section' = section /\ ypos' = ypos
      /\ dl_mode' = dl_mode /\ dl_scroll' = dl_scroll /\ window' = window
      /\ dl_mode_scanlines' = dl_mode_scanlines /\ drawn' = drawn
      /\ row' = row /\ dl_row_wrap' = dl_row_wrap
      /\ dl_mode_scanline' = dl_mode_scanline
      /\ pc' = "display" /\ pc # "display" /\ Current' = Current
  BY Zenon DEF sectionVars, rowVars, Current
<1>3. Live /\ Live'
  BY <1>2 DEF Live
<1>4. dl_scanlines - 1 \in 0 .. WORD - 1 /\ dl_scanlines # 0
  BY <1>1
<1>5. Types'
  BY <1>1, <1>2, <1>4, Zenon DEF Types, IInv
<1>6. InEffect'
  BY <1>2, <1>3, <1>4, Zenon DEF IInv, InEffect
<1>7. ScanlinesAreCounted'
  <2>1. dl_mode # END
    BY <1>3, <1>4, Zenon DEF IInv, InEffect
  <2>2. ASSUME dl_mode \in Content
        PROVE  /\ dl_scanlines' + drawn' + 1 <= Asked(Current)
               /\ ypos' + dl_scanlines' + 1 = Before(list)[dl_pos]
    <3>1. dl_scanlines + drawn + 0 <= Asked(Current)
      BY <1>2, <1>3, <2>2, Zenon DEF IInv, ScanlinesAreCounted
    <3>2. dl_mode # BlankSection
      BY <2>2 DEF BlankSection, Content, Text, Tiles, Bitmaps
    <3>3. ypos + dl_scanlines = Before(list)[dl_pos]
      BY <1>4, <3>2, Zenon DEF IInv, ScanlinesAreCounted
    <3>4. /\ (dl_scanlines - 1) + drawn + 1 = dl_scanlines + drawn + 0
          /\ ypos + (dl_scanlines - 1) + 1 = ypos + dl_scanlines
      BY <1>1
    <3> QED
      BY <1>2, <3>1, <3>3, <3>4, Zenon
  <2> QED
    BY <1>2, <2>1, <2>2 DEF ScanlinesAreCounted
<1>8. RowIsOfTheLine'
  BY <1>2, <1>3, Zenon DEF IInv, RowIsOfTheLine
<1> QED
  BY <1>5, <1>6, <1>7, <1>8 DEF IInv

\* A line is drawn of a section that has lines left: the row moves on with the
\* last of its lines, and starts over after the last row.
LEMMA DrawKeepsRow ==
  ASSUME IInv, pc = "display", dl_mode \in Content,
         drawn' = drawn + 1,
         IF dl_mode_scanline = dl_mode_scanlines
         THEN next_row /\ dl_mode_scanline' = 0
         ELSE /\ dl_mode_scanline' = UINT8(dl_mode_scanline + 1)
              /\ UNCHANGED <<row, dl_row_wrap>>,
         dl_scanlines > 0
  PROVE  LET n    == lines_per_mode(Current.mode)
             line == drawn' + FirstLine(Current)
         IN  /\ row' = (line \div n) % Height(Current)
             /\ dl_row_wrap' = Height(Current) - 1 - row'
             /\ dl_mode_scanline' = line % n
<1>1. /\ list \in Lists /\ drawn \in Nat /\ dl_scanlines \in Nat
      /\ section \in 1 .. Len(list) /\ dl_mode = Current.mode
      /\ dl_scroll = Current.scroll
      /\ dl_mode_scanlines = lines_per_mode(Current.mode) - 1
      /\ dl_scroll => window = Window(Current)
      /\ Live
  BY WordFacts, Zenon DEF IInv, Types, InEffect, Live
<1>2. Current \in Instruction /\ Current.mode \in Content
  BY <1>1, ListFacts, ElementOfSeq DEF Current
<1>3. /\ lines_per_mode(Current.mode) \in {1, 8}
      /\ Height(Current) \in 1 .. WORD /\ FirstLine(Current) \in Nat
  BY <1>2, SectionHeight
<1>4. PICK n \in {1, 8}, m \in Nat \ {0}, line \in Nat :
        /\ n = lines_per_mode(Current.mode) /\ m = Height(Current)
        /\ line = drawn + FirstLine(Current)
  <2>1. drawn + FirstLine(Current) \in Nat
    BY <1>1, <1>3
  <2> QED
    BY <1>3, <2>1, WordFacts, Zenon
<1> DEFINE r == (line \div n) % m
           l == line % n
<1>5. row = r /\ dl_row_wrap = m - 1 - row /\ dl_mode_scanline = l
  BY <1>1, <1>2, <1>4, Zenon DEF IInv, RowIsOfTheLine
<1>6. /\ r \in 0 .. m - 1 /\ l \in 0 .. n - 1
      /\ l # n - 1 =>
           /\ (line + 1) \div n = line \div n
           /\ (line + 1) % n = l + 1
      /\ l = n - 1 =>
           /\ ((line + 1) \div n) % m = IF r = m - 1 THEN 0 ELSE r + 1
           /\ (line + 1) % n = 0
  BY NextLine
<1>7. drawn' + FirstLine(Current) = line + 1
  <2>1. \A d, f \in Nat : (d + 1) + f = d + f + 1
    OBVIOUS
  <2> QED
    BY <1>1, <1>3, <1>4, <2>1, Zenon
<1> HIDE DEF r, l
<1>8. /\ row' = ((line + 1) \div n) % m
      /\ dl_row_wrap' = m - 1 - row'
      /\ dl_mode_scanline' = (line + 1) % n
  <2>1. CASE l # n - 1
    <3>1. dl_mode_scanline # dl_mode_scanlines
      BY <1>1, <1>4, <1>5, <2>1, Zenon
    <3>2. /\ dl_mode_scanline' = UINT8(l + 1) /\ row' = row
          /\ dl_row_wrap' = dl_row_wrap
      BY <1>5, <3>1, Zenon
    <3>3. UINT8(l + 1) = l + 1
      <4>1. l + 1 \in Nat /\ l + 1 < 256
        BY <1>6
      <4> QED
        BY <4>1, SmallIsRemainder DEF UINT8
    <3> QED
      BY <1>5, <1>6, <2>1, <3>2, <3>3, Zenon DEF r
  <2>2. CASE l = n - 1
    <3>1. dl_mode_scanline = dl_mode_scanlines
      BY <1>1, <1>4, <1>5, <2>2, Zenon
    <3>2. next_row /\ dl_mode_scanline' = 0
      BY <3>1, Zenon
    <3>3. CASE r # m - 1
      <4>1. dl_row_wrap > 0 /\ dl_row_wrap - 1 = m - 1 - (r + 1)
        BY <1>5, <1>6, <3>3
      <4>2. row' = r + 1 /\ dl_row_wrap' = dl_row_wrap - 1
        BY <1>5, <3>2, <4>1, Zenon DEF next_row
      <4> QED
        BY <1>6, <2>2, <3>2, <3>3, <4>1, <4>2, Zenon
    <3>4. CASE r = m - 1
      <4>1. ~(dl_row_wrap > 0) /\ m - 1 - 0 = m - 1
        BY <1>5, <1>6, <3>4
      <4>2. Current.scroll
        <5> SUFFICES ASSUME ~Current.scroll PROVE FALSE
          OBVIOUS
        <5>1. m = WORD /\ FirstLine(Current) = 0
          BY <1>4, Zenon DEF Height, FirstLine
        <5>2. line = drawn
          BY <1>1, <1>4, <5>1
        <5>3. dl_scanlines + drawn + 1 <= Asked(Current) /\ Asked(Current) \in 1 .. WORD
          BY <1>1, <1>2, ScanlinesAsked, Zenon DEF IInv, ScanlinesAreCounted
        <5>4. PICK a \in 1 .. WORD : a = Asked(Current)
          BY <5>3
        <5>5. drawn < WORD - 1
          <6>1. dl_scanlines + drawn + 1 <= a
            BY <5>3, <5>4, Zenon
          <6> QED
            BY <1>1, <6>1, WordFacts
        <5>6. line \div n < WORD - 1 /\ line \div n \in Nat
          <6>1. \A d \in Nat : /\ d \div 1 = d /\ d \div 8 \in Nat
                               /\ d \div 8 <= d
            OBVIOUS
          <6>2. line \div n \in Nat /\ line \div n <= drawn
            BY <1>1, <5>2, <6>1
          <6> QED
            BY <1>1, <5>5, <6>2, WordFacts
        <5>7. PICK x \in Nat : x = line \div n
          BY <5>6
        <5>8. x < m
          <6>1. x < WORD - 1 /\ WORD \in Nat
            BY <5>6, <5>7, WordFacts, Zenon
          <6> QED
            BY <5>1, <6>1
        <5>9. x % m = x
          BY <5>8, SmallIsRemainder
        <5>10. r = x
          BY <5>7, <5>9, Zenon DEF r
        <5> QED
          BY <3>4, <5>1, <5>6, <5>7, <5>10
      <4>3. window.height = m
        BY <1>1, <1>2, <1>4, <4>2, SectionHeight, Zenon
      <4>4. row' = 0 /\ dl_row_wrap' = m - 1
        BY <3>2, <4>1, <4>3, Zenon DEF next_row
      <4> QED
        BY <1>6, <2>2, <3>2, <3>4, <4>1, <4>4, Zenon
    <3> QED
      BY <3>3, <3>4
  <2> QED
    BY <2>1, <2>2
<1> QED
  BY <1>4, <1>7, <1>8, Zenon

\* A scanline is shown, and a line of the section drawn unless Chroni is off.
LEMMA DisplayKeepsIInv ==
  ASSUME IInv, chroni_scanline_display PROVE IInv'
<1>1. /\ list \in Lists /\ dl_pos \in 1 .. Len(list) /\ ypos \in Nat
      /\ drawn \in Nat /\ dl_scanlines \in 0 .. WORD - 1
      /\ list \in Seq(Instruction)
  BY ListFacts, Zenon DEF IInv, Types
<1>2. /\ list' = list /\ dl_pos' = dl_pos /\ section' = section
      /\ dl_mode' = dl_mode /\ dl_scroll' = dl_scroll /\ window' = window
      /\ dl_mode_scanlines' = dl_mode_scanlines /\ dl_scanlines' = dl_scanlines
      /\ pc = "display" /\ pc' # "display" /\ Current' = Current
      /\ ypos' = ypos + 1
      /\ pc' \in {"back_porch", "frame_start"}
  BY DEF chroni_scanline_display, sectionVars, Current
<1>3. Live /\ (Live' => dl_scanlines > 0)
  BY <1>2 DEF Live
<1>4. \/ drawn' = drawn /\ UNCHANGED rowVars
      \/ dl_mode \in Content /\ drawn' = drawn + 1
  BY Zenon DEF chroni_scanline_display, do_scanline, rowVars
<1>5. drawn' \in Nat /\ drawn' <= drawn + 1 /\ ypos + 1 \in Nat
  BY <1>1, <1>4
<1>6. Types'
  <2>1. pc' \in {"back_porch", "display", "frame_start"}
    BY <1>2
  <2> QED
    BY <1>1, <1>2, <1>5, <2>1, Zenon DEF Types
<1>7. InEffect'
  BY <1>2, <1>3, Zenon DEF IInv, InEffect
<1>8. ScanlinesAreCounted'
  <2>1. ASSUME dl_mode \in Content
        PROVE  /\ dl_scanlines' + drawn' + 0 <= Asked(Current)
               /\ ypos' + dl_scanlines' = Before(list)[dl_pos]
    <3>1. /\ dl_scanlines + drawn + 1 <= Asked(Current)
          /\ ypos + dl_scanlines + 1 = Before(list)[dl_pos]
      BY <1>2, <1>3, <2>1, Zenon DEF IInv, ScanlinesAreCounted
    <3>2. Current \in Instruction
      BY <1>1, <1>3, ElementOfSeq, Zenon DEF Current, IInv, InEffect
    <3>3. PICK a \in Nat : a = Asked(Current)
      BY <3>2, ScanlinesAsked, WordFacts, Zenon
    <3>4. PICK s \in Nat : s = dl_scanlines
      BY <1>1, WordFacts
    <3>5. s + drawn + 1 <= a
      BY <3>1, <3>3, <3>4, Zenon
    <3>6. s + drawn' + 0 <= a
      <4>1. PICK d \in Nat : d = drawn'
        BY <1>5
      <4>2. d <= drawn + 1
        BY <1>5, <4>1
      <4>3. s + d + 0 <= a
        BY <1>1, <3>5, <4>2
      <4> QED
        BY <4>1, <4>3, Zenon
    <3>7. (ypos + 1) + s = ypos + s + 1
      BY <1>1
    <3> QED
      BY <1>2, <3>1, <3>3, <3>4, <3>6, <3>7, Zenon
  <2>2. ASSUME dl_mode = END
        PROVE  /\ list[dl_pos].mode = END /\ dl_scanlines' = 0
               /\ ypos' >= Before(list)[dl_pos]
    <3>1. list[dl_pos].mode = END /\ dl_scanlines = 0
      <4>1. END \notin Content
        BY DEF END, Content, Text, Tiles, Bitmaps
      <4> QED
        BY <1>3, <2>2, <4>1, Zenon DEF IInv, InEffect, Current
    <3>2. ypos >= Before(list)[dl_pos]
      BY <1>2, <2>2, Zenon DEF IInv, ScanlinesAreCounted
    <3>3. Before(list)[dl_pos] \in Nat
      BY <1>1, BeforeSums, Zenon
    <3> QED
      BY <1>1, <1>2, <3>1, <3>2, <3>3
  <2>3. ASSUME dl_mode = BlankSection PROVE list[dl_pos].mode = BlankSection
    <3>1. BlankSection \notin Content
      BY DEF BlankSection, Content, Text, Tiles, Bitmaps
    <3> QED
      BY <1>3, <2>3, <3>1, Zenon DEF IInv, InEffect, Current
  <2>4. dl_mode \in Content \/ dl_mode = BlankSection \/ dl_mode = END
    <3>1. Current \in Instruction /\ dl_mode = Current.mode
      BY <1>1, <1>3, ElementOfSeq, Zenon DEF Current, IInv, InEffect
    <3> QED
      BY <3>1, ModesDiffer, Zenon
  <2> QED
    BY <1>2, <2>1, <2>2, <2>3, <2>4, Zenon DEF ScanlinesAreCounted
<1>9. RowIsOfTheLine'
  <2> SUFFICES ASSUME Live', dl_mode \in Content
               PROVE  LET n    == lines_per_mode(Current.mode)
                          line == drawn' + FirstLine(Current)
                      IN  /\ row' = (line \div n) % Height(Current)
                          /\ dl_row_wrap' = Height(Current) - 1 - row'
                          /\ dl_mode_scanline' = line % n
    BY <1>2, Zenon DEF RowIsOfTheLine
  <2>1. CASE UNCHANGED rowVars
    <3>1. /\ drawn' = drawn /\ row' = row /\ dl_row_wrap' = dl_row_wrap
          /\ dl_mode_scanline' = dl_mode_scanline
      BY <2>1, Zenon DEF rowVars
    <3> QED
      BY <1>3, <3>1, Zenon DEF IInv, RowIsOfTheLine
  <2>2. CASE ~ UNCHANGED rowVars
    <3>1. /\ drawn' = drawn + 1
          /\ IF dl_mode_scanline = dl_mode_scanlines
             THEN next_row /\ dl_mode_scanline' = 0
             ELSE /\ dl_mode_scanline' = UINT8(dl_mode_scanline + 1)
                  /\ UNCHANGED <<row, dl_row_wrap>>
      BY <2>2, Zenon DEF chroni_scanline_display, do_scanline
    <3> QED
      BY <1>2, <1>3, <3>1, DrawKeepsRow, Zenon
  <2> QED
    BY <2>1, <2>2
<1> QED
  BY <1>6, <1>7, <1>8, <1>9 DEF IInv

LEMMA NextIInv == IInv /\ [Next]_vars => IInv'
<1> SUFFICES ASSUME IInv, [Next]_vars PROVE IInv'
  OBVIOUS
<1>1. CASE chroni_scanline_back_porch
  <2>1. /\ pc = "back_porch" /\ pc' = "display" /\ process_dl
        /\ list' = list /\ ypos' = ypos
    BY <1>1 DEF chroni_scanline_back_porch
  <2>2. CASE dl_scanlines > 0
    BY <2>1, <2>2, GoOnKeepsIInv DEF process_dl
  <2>3. CASE ~(dl_scanlines > 0)
    <3>1. dl_scanlines = 0
      <4>1. dl_scanlines \in Nat
        BY WordFacts DEF IInv, Types
      <4> QED
        BY <2>3, <4>1
    <3> QED
      BY <2>1, <2>3, <3>1, FetchKeepsIInv DEF process_dl
  <2> QED
    BY <2>2, <2>3
<1>2. CASE chroni_scanline_display
  BY <1>2, DisplayKeepsIInv
<1>3. CASE chroni_frame_start
  <2>1. /\ list' \in Lists /\ dl_pos' = 1 /\ dl_scanlines' = 0 /\ ypos' = 0
        /\ pc' = "back_porch" /\ drawn' = drawn
    BY <1>3 DEF chroni_frame_start, rowVars
  <2>2. 1 \in 1 .. Len(list') /\ Before(list')[1] = 0
    BY <2>1, ListFacts
  <2>3. Types' /\ ~Live'
    BY <2>1, <2>2, WordFacts DEF IInv, Types, Live
  <2>4. ScanlinesAreCounted'
    BY <2>1, <2>2, <2>3 DEF ScanlinesAreCounted
  <2> QED
    BY <2>3, <2>4, Zenon DEF IInv, InEffect, RowIsOfTheLine
<1>4. CASE UNCHANGED vars
  <2>1. /\ UNCHANGED <<list, dl_pos, dl_mode, dl_scroll, dl_mode_scanlines, window>>
        /\ UNCHANGED <<section, dl_scanlines, dl_mode_scanline, row, dl_row_wrap>>
        /\ UNCHANGED <<drawn, ypos, pc>>
    BY <1>4, Zenon DEF vars, sectionVars, rowVars
  <2>2. Current' = Current /\ Live' = Live
    BY <2>1, Zenon DEF Current, Live
  <2> QED
    BY <2>1, <2>2, Zenon
       DEF IInv, Types, InEffect, ScanlinesAreCounted, RowIsOfTheLine
<1> QED
  BY <1>1, <1>2, <1>3, <1>4 DEF Next

LEMMA Invariance == Spec => []IInv
BY InitIInv, NextIInv, PTL DEF Spec
-----------------------------------------------------------------------------
(* What the invariant says *)

\* process_dl gives each section of a list the scanlines the list asks for, and
\* the end of the list the rest of the frame.
THEOREM SectionsKeepLines == Spec => []SectionsKeepTheirLines
<1>1. IInv => SectionsKeepTheirLines
  <2> SUFFICES ASSUME IInv, pc = "display", Current.mode # BlankSection
               PROVE  /\ ypos >= Before(list)[section]
                      /\ Current.mode # END => ypos < Before(list)[section + 1]
    BY DEF SectionsKeepTheirLines
  <2>1. /\ list \in Seq(Instruction) /\ Len(list) \in Nat /\ ypos \in Nat
        /\ drawn \in Nat /\ dl_scanlines \in Nat /\ section \in 1 .. Len(list)
        /\ dl_mode = Current.mode
        /\ dl_pos = IF dl_mode \in Content THEN section + 1 ELSE section
        /\ dl_pos \in 1 .. Len(list)
    BY ListFacts, WordFacts DEF IInv, Types, InEffect, Live
  <2>2. Current \in Instruction
    BY <2>1, ElementOfSeq, Zenon DEF Current
  <2>3. CASE dl_mode = END
    BY <2>1, <2>2, <2>3, ModesDiffer, Zenon DEF IInv, ScanlinesAreCounted
  <2>4. CASE dl_mode \in Content
    <3>1. /\ ypos + dl_scanlines + 1 = Before(list)[section + 1]
          /\ dl_scanlines + drawn + 1 <= Asked(Current)
      BY <2>1, <2>4, Zenon DEF IInv, ScanlinesAreCounted, Live
    <3>2. section \in 1 .. Len(list) - 1
      BY <2>1, <2>4
    <3>3. Before(list)[section + 1] = Before(list)[section] + Asked(Current)
      BY <2>1, <3>2, BeforeSums, Zenon DEF Current
    <3>4. PICK a \in Nat, b \in Nat : a = Asked(Current) /\ b = Before(list)[section]
      BY <2>1, <2>2, ScanlinesAsked, WordFacts, BeforeSums, Zenon
    <3>5. ypos + dl_scanlines + 1 = b + a /\ dl_scanlines + drawn + 1 <= a
      BY <3>1, <3>3, <3>4, Zenon
    <3>6. ypos >= b /\ ypos < b + a
      BY <2>1, <3>5
    <3> QED
      BY <3>3, <3>4, <3>6, Zenon
  <2> QED
    BY <2>1, <2>2, <2>3, <2>4, ModesDiffer, Zenon
<1> QED
  BY <1>1, Invariance, PTL

-----------------------------------------------------------------------------
(* The columns *)

\* What a part of a unit is the remainder of, in the pixels of a window.
LEMMA ScaledRemainder ==
  ASSUME NEW u \in {2, 4, 8}, NEW m \in Nat \ {0}, NEW q \in Nat,
         NEW b \in 0 .. u - 1
  PROVE  (u * q + b) % (u * m) = u * (q % m) + b
<1>1. PICK d \in Int, r \in 0 .. m - 1 : q = m * d + r /\ q % m = r
  <2>1. q = m * (q \div m) + (q % m) /\ q \div m \in Int /\ q % m \in 0 .. m - 1
    OBVIOUS
  <2> QED
    BY <2>1
<1>2. /\ u * m \in Nat \ {0} /\ u * q + b \in Int
      /\ u * r + b \in 0 .. u * m - 1
      /\ u * q + b = (u * m) * d + (u * r + b)
  <2>1. CASE u = 2
    BY <1>1, <2>1
  <2>2. CASE u = 4
    BY <1>1, <2>2
  <2>3. CASE u = 8
    BY <1>1, <2>3
  <2> QED
    BY <2>1, <2>2, <2>3
<1>3. (u * q + b) % (u * m) = u * r + b
  BY <1>2, Remainder, Zenon
<1> QED
  BY <1>1, <1>3

\* The unit a pixel is in.
LEMMA PixelOfUnit ==
  ASSUME NEW u \in {2, 4, 8}, NEW p \in Nat, NEW end \in Nat, p < end
  PROVE  /\ end \div u \in Nat /\ p \div u \in 0 .. (end \div u)
         /\ p % u \in 0 .. u - 1 /\ p = u * (p \div u) + (p % u)
<1>1. CASE u = 2
  BY <1>1
<1>2. CASE u = 4
  BY <1>2
<1>3. CASE u = 8
  BY <1>3
<1> QED
  BY <1>1, <1>2, <1>3

\* The units of a line, each from the one before.
Following(f, n, size, first, wrap, full) ==
  [k \in 0 .. n |->
     IF k = 0 THEN [unit |-> first, wrap |-> wrap]
     ELSE LET last == f[k - 1]
          IN  IF last.wrap >= size
              THEN [unit |-> last.unit + 1, wrap |-> last.wrap - size]
              ELSE [unit |-> 0, wrap |-> full]]

\* A line that starts in unit first of m, off into it, with what the counter then
\* is and where it starts over.
Wraps(size, m, first, off, wrap, full) ==
  /\ size \in {1, 2, 4} /\ m \in Nat \ {0}
  /\ first \in 0 .. m - 1 /\ off \in 0 .. size - 1
  /\ wrap \in Int /\ wrap = size * (m - first) - 1 - off
  /\ full \in Int /\ full = size * m - 1

\* The units are those from the first on, with the m of the window in a circle.
StartOver(n, size, m, first, wrap, full) ==
  /\ \E f : f = Following(f, n, size, first, wrap, full)
  /\ \A f : f = Following(f, n, size, first, wrap, full) =>
       \A k \in 0 .. n : f[k].unit = (first + k) % m

\* The units of a line: from the first one on, and again from the left edge
\* after the last, however far into a unit the line starts.
LEMMA UnitsStartOver ==
  ASSUME NEW size, NEW m, NEW first, NEW off, NEW wrap, NEW full,
         Wraps(size, m, first, off, wrap, full), NEW n \in Nat
  PROVE  StartOver(n, size, m, first, wrap, full)
<1> /\ size \in {1, 2, 4} /\ m \in Nat \ {0}
    /\ first \in 0 .. m - 1 /\ off \in 0 .. size - 1
    /\ wrap \in Int /\ wrap = size * (m - first) - 1 - off
    /\ full \in Int /\ full = size * m - 1
  BY DEF Wraps
<1> DEFINE Follow(last) ==
             IF last.wrap >= size
             THEN [unit |-> last.unit + 1, wrap |-> last.wrap - size]
             ELSE [unit |-> 0, wrap |-> full]
           F(f) == [k \in 0 .. n |-> IF k = 0 THEN [unit |-> first, wrap |-> wrap]
                                     ELSE Follow(f[k - 1])]
           u(k) == (first + k) % m
           w(k) == full - size * u(k) - (IF first + k < m THEN off ELSE 0)
           G == [k \in 0 .. n |-> [unit |-> u(k), wrap |-> w(k)]]
<1>1. u(0) = first /\ w(0) = wrap
  <2>1. first + 0 < m /\ first + 0 \in Nat /\ first + 0 = first
    OBVIOUS
  <2>2. (first + 0) % m = first
    BY <2>1, SmallIsRemainder
  <2>3. full - size * first - off = wrap
    <3>1. CASE size = 1
      BY <3>1
    <3>2. CASE size = 2
      BY <3>2
    <3>3. CASE size = 4
      BY <3>3
    <3> QED
      BY <3>1, <3>2, <3>3
  <2> QED
    BY <2>1, <2>2, <2>3
<1>2. ASSUME NEW k \in Nat
      PROVE  Follow([unit |-> u(k), wrap |-> w(k)]) = [unit |-> u(k + 1), wrap |-> w(k + 1)]
  <2>1. PICK x \in Nat : x = first + k
    OBVIOUS
  <2>2. x + 1 = first + (k + 1) /\ x % m \in 0 .. m - 1
    BY <2>1
  <2>3. (x + 1) % m = IF x % m = m - 1 THEN 0 ELSE (x % m) + 1
    BY NextRemainder
  <2>4. PICK r \in 0 .. m - 1 : r = x % m
    BY <2>2
  <2>5. x < m => r = x
    BY <2>4, SmallIsRemainder
  <2>6. PICK o \in 0 .. size - 1 : o = IF x < m THEN off ELSE 0
    <3>1. off \in 0 .. size - 1 /\ 0 \in 0 .. size - 1
      OBVIOUS
    <3> QED
      BY <3>1
  <2>7. u(k) = r /\ w(k) = full - size * r - o
    BY <2>1, <2>4, <2>6, Zenon
  <2>8. CASE r # m - 1
    <3>1. u(k + 1) = r + 1
      BY <2>2, <2>3, <2>4, <2>8, Zenon
    <3>2. (x + 1 < m) <=> (x < m)
      BY <2>1, <2>4, <2>5, <2>8
    <3>3. w(k + 1) = full - size * (r + 1) - o
      BY <2>2, <2>6, <3>1, <3>2, Zenon
    <3>4. /\ full - size * r - o >= size
          /\ full - size * (r + 1) - o = (full - size * r - o) - size
      <4>1. CASE size = 1
        BY <2>8, <4>1
      <4>2. CASE size = 2
        BY <2>8, <4>2
      <4>3. CASE size = 4
        BY <2>8, <4>3
      <4> QED
        BY <4>1, <4>2, <4>3
    <3> QED
      BY <2>7, <3>1, <3>3, <3>4, Zenon
  <2>9. CASE r = m - 1
    <3>1. u(k + 1) = 0
      BY <2>2, <2>3, <2>4, <2>9, Zenon
    <3>2. ~(x + 1 < m)
      BY <2>1, <2>4, <2>5, <2>9
    <3>3. w(k + 1) = full
      <4>1. w(k + 1) = full - size * 0 - 0
        BY <2>2, <3>1, <3>2, Zenon
      <4> QED
        BY <4>1
    <3>4. ~(full - size * r - o >= size)
      <4>1. CASE size = 1
        BY <2>9, <4>1
      <4>2. CASE size = 2
        BY <2>9, <4>2
      <4>3. CASE size = 4
        BY <2>9, <4>3
      <4> QED
        BY <4>1, <4>2, <4>3
    <3> QED
      BY <2>7, <3>1, <3>3, <3>4, Zenon
  <2> QED
    BY <2>8, <2>9
<1>3. \A k \in 0 .. n : k # 0 => k - 1 \in Nat /\ k - 1 \in 0 .. n /\ (k - 1) + 1 = k
  OBVIOUS
<1> HIDE DEF u, w, Follow
<1>4. G = F(G)
  <2>1. ASSUME NEW k \in 0 .. n PROVE G[k] = F(G)[k]
    <3>1. CASE k = 0
      BY <1>1, <3>1
    <3>2. CASE k # 0
      <4>1. G[k - 1] = [unit |-> u(k - 1), wrap |-> w(k - 1)]
        BY <1>3, <3>2
      <4>2. Follow(G[k - 1]) = [unit |-> u(k), wrap |-> w(k)]
        BY <1>2, <1>3, <3>2, <4>1, Zenon
      <4> QED
        BY <3>2, <4>2
    <3> QED
      BY <3>1, <3>2
  <2> QED
    BY <2>1
<1>5. ASSUME NEW f, f = F(f), NEW k \in 0 .. n PROVE f[k].unit = u(k)
  <2> DEFINE Others == {j \in 0 .. n : f[j] # G[j]}
  <2>1. ASSUME Others # {} PROVE FALSE
    <3>1. Others \in SUBSET Nat
      OBVIOUS
    <3>2. PICK j \in Others : \A i \in Others : j <= i
      BY <2>1, <3>1, LeastOfNats, Zenon
    <3>3. j \in 0 .. n /\ f[j] # G[j]
      BY <3>2, Zenon
    <3> HIDE DEF G, F
    <3>4. j # 0 => f[j - 1] = G[j - 1]
      <4>1. \A i \in 0 .. n : ~(i <= i - 1)
        OBVIOUS
      <4> QED
        BY <1>3, <3>2, <3>3, <4>1, Zenon
    <3>5. F(f)[j] = F(G)[j]
      BY <3>3, <3>4, Zenon DEF F
    <3> QED
      BY <1>4, <1>5, <3>3, <3>5, Zenon
  <2>2. f[k] = G[k]
    BY <2>1
  <2>3. G[k].unit = u(k)
    OBVIOUS
  <2> QED
    BY <2>2, <2>3
<1>6. \E f : f = F(f)
  BY <1>4
<1>7. \A f : F(f) = Following(f, n, size, first, wrap, full)
  BY Zenon DEF Following, Follow
<1> HIDE DEF F
<1> QED
  BY <1>5, <1>6, <1>7, Zenon DEF u, StartOver

\* Where a scrolled line starts: in which of the m units of the window and how
\* far into it, and what is left of the window from there.
StartsAt(size, m, first, off) ==
  /\ size = wrap_step /\ first = first_unit
  /\ line_wrap \in Int /\ line_wrap = size * (m - first) - 1 - off
  /\ full_wrap \in Int /\ full_wrap = size * m - 1
  /\ Unit \in {2, 4, 8} /\ Unit * m = 8 * Current.width
  /\ pixel_offset \in Nat
  /\ Unit * first + pixel_offset = 8 * Current.left + Current.fine_x

LEMMA LineStart ==
  ASSUME IInv, Drawing, dl_scroll
  PROVE  \E size \in {1, 2, 4}, m \in Nat \ {0} :
         \E first \in 0 .. m - 1, off \in 0 .. size - 1 :
           StartsAt(size, m, first, off)
<1>1. /\ list \in Lists /\ list \in Seq(Instruction) /\ section \in 1 .. Len(list)
      /\ dl_mode = Current.mode /\ dl_scroll = Current.scroll
      /\ dl_mode \in Content /\ window = Window(Current)
  BY ListFacts DEF IInv, Types, InEffect, Live, Drawing
<1>2. Current \in Instruction
  BY <1>1, ElementOfSeq, Zenon DEF Current
<1>3. PICK w \in Nat, x \in Nat, y \in 0 .. 7 :
        /\ w = Current.width /\ x = Current.left /\ y = Current.fine_x
        /\ x < w /\ w # 0 /\ w < ByteEnd
  BY <1>1, <1>2, ScrollPosition, ByteFacts, Zenon
<1>4. x < w /\ w # 0 /\ w < ByteEnd
  BY <1>3, Zenon
<1>5. window.fine_x = y
  BY <1>1, <1>3 DEF Window
<1>6. CASE dl_mode \in Bitmaps
  <2>1. window.width = 8 * w /\ window.left = 8 * x
    BY <1>1, <1>3, <1>6 DEF Window
  <2>2. PICK u \in {2, 4} : u = Unit
    BY <1>6 DEF Unit, Bitmaps
  <2> DEFINE first == (8 * x + y) \div u
             off == (8 * x + y) % u
             m == IF u = 2 THEN 4 * w ELSE 2 * w
  <2>3. /\ first_unit = first /\ pixel_offset = off /\ wrap_step = u
    <3>1. first_unit = (window.left + window.fine_x) \div Unit
      BY <1>6 DEF first_unit
    <3>2. pixel_offset = (window.left + window.fine_x) % Unit
      BY <1>6 DEF pixel_offset
    <3>3. wrap_step = Unit
      BY <1>6 DEF wrap_step
    <3> QED
      BY <1>5, <2>1, <2>2, <3>1, <3>2, <3>3, Zenon
  <2>4. /\ line_wrap = UINT16(8 * w - 8 * x - y - 1) /\ full_wrap = UINT16(8 * w - 1)
    BY <1>5, <1>6, <2>1, Zenon DEF line_wrap, full_wrap
  <2>5. /\ 8 * w - 8 * x - y - 1 \in Nat /\ 8 * w - 8 * x - y - 1 < WORD
        /\ 8 * w - 1 \in Nat /\ 8 * w - 1 < WORD /\ WORD \in Nat \ {0}
    <3>1. /\ 8 * w - 8 * x - y - 1 \in Nat /\ 8 * w - 8 * x - y - 1 < Most
          /\ 8 * w - 1 \in Nat /\ 8 * w - 1 < Most
      BY <1>4 DEF Most, ByteEnd
    <3> QED
      BY <3>1, WordFacts, Zenon
  <2>6. line_wrap = 8 * w - 8 * x - y - 1 /\ full_wrap = 8 * w - 1
    <3>1. /\ (8 * w - 8 * x - y - 1) % WORD = 8 * w - 8 * x - y - 1
          /\ (8 * w - 1) % WORD = 8 * w - 1
      BY <2>5, SmallIsRemainder, Zenon
    <3> QED
      BY <2>4, <3>1, Zenon DEF UINT16
  <2>7. /\ m \in Nat \ {0} /\ first \in 0 .. m - 1 /\ off \in 0 .. u - 1
        /\ u * m = 8 * w /\ u * first + off = 8 * x + y
        /\ 8 * w - 8 * x - y - 1 = u * (m - first) - 1 - off
    <3>1. CASE u = 2
      BY <1>4, <3>1
    <3>2. CASE u = 4
      BY <1>4, <3>2
    <3> QED
      BY <3>1, <3>2
  <2>8. u \in {1, 2, 4} /\ u \in {2, 4, 8} /\ off \in Nat
    BY <2>7
  <2> HIDE DEF first, off, m
  <2>9. line_wrap \in Int /\ full_wrap \in Int
    BY <2>6
  <2> QED
    BY <1>3, <2>2, <2>3, <2>6, <2>7, <2>8, <2>9, Zenon DEF StartsAt
<1>7. CASE dl_mode \notin Bitmaps
  <2>1. window.width = 1 * w /\ window.left = 1 * x
    BY <1>1, <1>3, <1>7, Zenon DEF Window
  <2>2. window.width = w /\ window.left = x
    BY <2>1
  <2>3. Unit = 8
    BY <1>7 DEF Unit, Bitmaps
  <2>4. first_unit = x /\ pixel_offset = y /\ wrap_step = 1
    BY <1>5, <1>7, <2>2, Zenon DEF first_unit, pixel_offset, wrap_step
  <2>5. line_wrap = UINT8(w - x - 1) /\ full_wrap = UINT8(w - 1)
    BY <1>7, <2>2, Zenon DEF line_wrap, full_wrap
  <2>6. line_wrap = w - x - 1 /\ full_wrap = w - 1
    <3>1. /\ w - x - 1 \in Nat /\ w - x - 1 < 256
          /\ w - 1 \in Nat /\ w - 1 < 256
      BY <1>4 DEF ByteEnd
    <3>2. (w - x - 1) % 256 = w - x - 1 /\ (w - 1) % 256 = w - 1
      BY <3>1, SmallIsRemainder
    <3> QED
      BY <2>5, <3>2, Zenon DEF UINT8
  <2>7. /\ w \in Nat \ {0} /\ x \in 0 .. w - 1 /\ 0 \in 0 .. 1 - 1 /\ y \in Nat
        /\ 1 \in {1, 2, 4} /\ 8 \in {2, 4, 8}
        /\ w - x - 1 = 1 * (w - x) - 1 - 0 /\ w - 1 = 1 * w - 1
        /\ w - x - 1 \in Int /\ w - 1 \in Int
    BY <1>4
  <2> QED
    BY <1>3, <2>3, <2>4, <2>6, <2>7, Zenon DEF StartsAt
<1> QED
  BY <1>6, <1>7

\* do_scanline draws the lines of a section in the order of its window, and the
\* pixels of a line from the position of the window on, both starting over at
\* the end of it.
THEOREM LinesFollow == Spec => []LinesFollowTheWindow
<1>1. IInv => RowsFollow
  <2> SUFFICES ASSUME IInv, Drawing
               PROVE  LET n    == lines_per_mode(dl_mode)
                          rows == IF ~Current.scroll THEN WORD
                                  ELSE Current.height * (8 \div n)
                      IN  /\ row = (WindowLine \div n) % rows
                          /\ dl_mode_scanline = WindowLine % n
    BY Zenon DEF RowsFollow
  <2>1. Live /\ dl_mode \in Content /\ dl_mode = Current.mode
    BY Zenon DEF Drawing, Live, IInv, InEffect
  <2>2. WindowLine = drawn + FirstLine(Current)
    BY Zenon DEF WindowLine, FirstLine
  <2>3. (IF ~Current.scroll THEN WORD
         ELSE Current.height * (8 \div lines_per_mode(dl_mode))) = Height(Current)
    BY <2>1, Zenon DEF Height
  <2> QED
    BY <2>1, <2>2, <2>3, Zenon DEF IInv, RowIsOfTheLine
<1>2. IInv => ColumnsFollow
  <2> SUFFICES ASSUME IInv, Drawing, dl_scroll, NEW x \in DOMAIN Columns
               PROVE  Columns[x] = (8 * Current.left + Current.fine_x + x)
                                     % (8 * Current.width)
    BY Zenon DEF ColumnsFollow
  <2>1. x \in 0 .. ScanWidth - 1 /\ x \in Nat /\ ScanWidth \in Nat
    BY ListAssumption DEF Columns
  <2>2. PICK size \in {1, 2, 4}, m \in Nat \ {0} :
          \E first \in 0 .. m - 1, off \in 0 .. size - 1 :
            StartsAt(size, m, first, off)
    BY LineStart, Zenon
  <2>3. PICK first \in 0 .. m - 1, off \in 0 .. size - 1 : StartsAt(size, m, first, off)
    BY <2>2, Zenon
  <2> DEFINE last == (pixel_offset + ScanWidth) \div Unit
             p == pixel_offset + x
             F(f) == Following(f, last, size, first, line_wrap, full_wrap)
  <2>4. PICK u \in {2, 4, 8}, o \in Nat : u = Unit /\ o = pixel_offset
    BY <2>3, Zenon DEF StartsAt
  <2>5. /\ last \in Nat /\ p \div Unit \in 0 .. last /\ p % Unit \in 0 .. Unit - 1
        /\ p \in Nat /\ p = Unit * (p \div Unit) + (p % Unit)
    <3>1. p \in Nat /\ pixel_offset + ScanWidth \in Nat /\ p < pixel_offset + ScanWidth
      BY <2>1, <2>4
    <3> QED
      BY <2>4, <3>1, PixelOfUnit, Zenon
  <2> HIDE DEF last
  <2>6. /\ \E f : f = F(f)
        /\ \A f : f = F(f) => \A k \in 0 .. last : f[k].unit = (first + k) % m
    <3>1. /\ line_wrap \in Int /\ line_wrap = size * (m - first) - 1 - off
          /\ full_wrap \in Int /\ full_wrap = size * m - 1 /\ last \in Nat
      BY <2>3, <2>5, Zenon DEF StartsAt
    <3>2. Wraps(size, m, first, off, line_wrap, full_wrap)
      BY <3>1 DEF Wraps
    <3>3. StartOver(last, size, m, first, line_wrap, full_wrap)
      BY <3>1, <3>2, UnitsStartOver, Zenon
    <3> QED
      BY <3>3, Zenon DEF StartOver
  <2>7. Units = CHOOSE f : f = F(f)
    BY <2>3 DEF Units, last, StartsAt, Following
  <2>8. Units[p \div Unit].unit = (first + (p \div Unit)) % m
    <3> HIDE DEF F
    <3>1. Units = F(Units)
      BY <2>6, <2>7
    <3> QED
      BY <2>5, <2>6, <3>1, Zenon
  <2>9. Columns[x] = Unit * Units[p \div Unit].unit + (p % Unit)
    BY <2>1 DEF Columns
  <2>10. PICK q \in Nat, b \in 0 .. u - 1 : q = first + (p \div Unit) /\ b = p % Unit
    BY <2>4, <2>5
  <2>11. (u * q + b) % (u * m) = u * (q % m) + b
    BY ScaledRemainder
  <2>12. u * q + b = 8 * Current.left + Current.fine_x + x
    <3>1. u * q + b = (u * first + o) + x
      <4>1. p \div Unit \in Nat /\ p % Unit \in Nat
        BY <2>5
      <4>2. PICK k \in Nat : k = p \div Unit
        BY <4>1
      <4>3. o + x = u * k + b /\ q = first + k
        BY <2>4, <2>5, <2>10, <4>2, Zenon
      <4>4. CASE u = 2
        BY <2>1, <4>3, <4>4
      <4>5. CASE u = 4
        BY <2>1, <4>3, <4>5
      <4>6. CASE u = 8
        BY <2>1, <4>3, <4>6
      <4> QED
        BY <4>4, <4>5, <4>6
    <3> QED
      BY <2>3, <2>4, <3>1, Zenon DEF StartsAt
  <2> QED
    BY <2>3, <2>4, <2>8, <2>9, <2>10, <2>11, <2>12, Zenon DEF StartsAt
<1> QED
  BY <1>1, <1>2, Invariance, PTL DEF LinesFollowTheWindow

\* What the display list does in Chroni is what it does by itself.
LEMMA ListIsDrawn == ChroniSpec => Spec
<1>1. ChroniInit => Init
  BY DEF ChroniInit
<1>2. [ChroniNext]_chroniVars => [Next]_vars
  BY DEF ChroniNext, Draw, Store, chroniVars
<1> QED
  BY <1>1, <1>2, PTL DEF ChroniSpec, Spec

-----------------------------------------------------------------------------
(* The registers *)

Address == {a \in Nat : a < VramBytes}

\* The types of the registers of both machines.
RegisterTypes ==
  /\ address \in [Pointers -> Address] /\ autoinc \in 0 .. 255
  /\ palette_state \in [index : 0 .. 255, value : Nat, low : BOOLEAN]
  /\ DOMAIN fpga = {"address", "state", "index", "value", "palette_wr", "vram_wr"}
  /\ fpga.address \in [Pointers -> Address] /\ fpga.state \in {"IDLE", "LO", "HI", "WRITE"}
  /\ fpga.index \in 0 .. 255
  /\ apart \in [Pointers -> SUBSET Fields] /\ wr_en \in BOOLEAN

\* The pointers of both machines agree but in the fields that are apart.
PointersAgree ==
  \A p \in Pointers : \A f \in Fields \ apart[p] :
    Part(address[p], f) = Part(fpga.address[p], f)

\* The FPGA has the entry of the palette as far as the emulator, or writes it in
\* the clock after the access.
EntriesAgree ==
  /\ palette_state.low <=> fpga.state = "HI"
  /\ fpga.value = palette_state.value
  /\ fpga.state \in {"LO", "HI"} => fpga.index = palette_state.index
  /\ fpga.state = "WRITE" => wr_en /\ palette_state.index = (fpga.index + 1) % 256

RegistersInv == RegisterTypes /\ PointersAgree /\ EntriesAgree /\ MachinesAgree
-----------------------------------------------------------------------------
(* The memories *)

\* Nothing on top of a memory is that memory.
LEMMA OverNothing ==
  ASSUME NEW f, NEW g
  PROVE  Over(Nothing, Over(f, g)) = Over(f, g)
BY DEF Over, Nothing

-----------------------------------------------------------------------------
(* The fields of a pointer *)

\* A number is the sum of four fields.
IsSum(n, l, b, m, t) ==
  /\ l \in Int /\ 0 <= l /\ l <= 255 /\ b \in Int /\ 0 <= b /\ b <= 1
  /\ m \in Int /\ 0 <= m /\ m <= 127 /\ t \in Int /\ 0 <= t /\ t <= 1
  /\ n \in Int /\ n = l + 256 * b + 512 * m + 65536 * t

\* The parts of a sum of the fields are the fields.
LEMMA PartsOfSum ==
  ASSUME NEW n, NEW l, NEW b, NEW m, NEW t, IsSum(n, l, b, m, t)
  PROVE  /\ n \in Address
         /\ Part(n, "low") = l /\ Part(n, "bit8") = b
         /\ Part(n, "middle") = m /\ Part(n, "bit16") = t
<1> USE DEF IsSum
<1>1. n >= 0 /\ n < 131072
  OBVIOUS
<1>2. n \div 1 = n /\ n % 256 = l
  OBVIOUS
<1>3. (n \div 256) % 2 = b
  OBVIOUS
<1>4. (n \div 512) % 128 = m
  OBVIOUS
<1>5. (n \div 65536) % 2 = t
  OBVIOUS
<1>6. n \in Address
  BY <1>1 DEF Address, VramBytes
<1> QED
  BY <1>2, <1>3, <1>4, <1>5, <1>6 DEF Part, Weight

\* A pointer is the sum of its fields.
LEMMA SumOfParts ==
  ASSUME NEW a \in Address
  PROVE  /\ Part(a, "low") \in Int /\ 0 <= Part(a, "low") /\ Part(a, "low") <= 255
         /\ Part(a, "bit8") \in Int /\ 0 <= Part(a, "bit8") /\ Part(a, "bit8") <= 1
         /\ Part(a, "middle") \in Int /\ 0 <= Part(a, "middle") /\ Part(a, "middle") <= 127
         /\ Part(a, "bit16") \in Int /\ 0 <= Part(a, "bit16") /\ Part(a, "bit16") <= 1
         /\ a = Part(a, "low") + 256 * Part(a, "bit8") + 512 * Part(a, "middle")
                + 65536 * Part(a, "bit16")
<1>1. /\ Part(a, "low") = (a \div 1) % 256 /\ Part(a, "bit8") = (a \div 256) % 2
      /\ Part(a, "middle") = (a \div 512) % 128 /\ Part(a, "bit16") = (a \div 65536) % 2
  BY DEF Part, Weight
<1>2. a \in Int /\ a >= 0 /\ a < 131072
  BY DEF Address, VramBytes
<1>3. a \div 1 = a
  BY <1>2
<1>4. a = (a % 256) + 256 * ((a \div 256) % 2) + 512 * ((a \div 512) % 128)
          + 65536 * ((a \div 65536) % 2)
  BY <1>2
<1>5. /\ a % 256 \in 0 .. 255 /\ (a \div 256) % 2 \in 0 .. 1
      /\ (a \div 512) % 128 \in 0 .. 127 /\ (a \div 65536) % 2 \in 0 .. 1
  BY <1>2
<1> QED
  BY <1>1, <1>3, <1>4, <1>5

\* A store to an address register leaves the same in the fields it replaces, and
\* nothing else, in the emulator, which masks and shifts, and in the FPGA, which
\* writes some of the bits.
LEMMA SameFields ==
  ASSUME NEW a \in Address, NEW c \in Address, NEW r \in AddressRegisters, NEW v \in 0 .. 255
  PROVE  LET x == Masked(a, Kept(r)) + Shifted(r, v)
             y == Replaced(c, r, v)
         IN  /\ x \in Address /\ y \in Address
             /\ \A f \in Field(r) : Part(x, f) = Part(y, f)
             /\ \A f \in Fields \ Field(r) : Part(x, f) = Part(a, f) /\ Part(y, f) = Part(c, f)
<1> DEFINE x == Masked(a, Kept(r)) + Shifted(r, v)
           y == Replaced(c, r, v)
           al == Part(a, "low")    cl == Part(c, "low")
           ab == Part(a, "bit8")   cb == Part(c, "bit8")
           am == Part(a, "middle") cm == Part(c, "middle")
           at == Part(a, "bit16")  ct == Part(c, "bit16")
<1> SUFFICES /\ x \in Address /\ y \in Address
             /\ \A f \in Field(r) : Part(x, f) = Part(y, f)
             /\ \A f \in Fields \ Field(r) : Part(x, f) = Part(a, f) /\ Part(y, f) = Part(c, f)
  OBVIOUS
<1>1. /\ al \in Int /\ 0 <= al /\ al <= 255 /\ ab \in Int /\ 0 <= ab /\ ab <= 1
      /\ am \in Int /\ 0 <= am /\ am <= 127 /\ at \in Int /\ 0 <= at /\ at <= 1
      /\ a = al + 256 * ab + 512 * am + 65536 * at
  BY SumOfParts
<1>2. /\ cl \in Int /\ 0 <= cl /\ cl <= 255 /\ cb \in Int /\ 0 <= cb /\ cb <= 1
      /\ cm \in Int /\ 0 <= cm /\ cm <= 127 /\ ct \in Int /\ 0 <= ct /\ ct <= 1
      /\ c = cl + 256 * cb + 512 * cm + 65536 * ct
  BY SumOfParts
<1>3. v \in Int /\ 0 <= v /\ v <= 255
  OBVIOUS
<1>4. \A fields :
        Masked(a, fields) = (IF "low" \in fields THEN al * 1 ELSE 0)
                            + (IF "bit8" \in fields THEN ab * 256 ELSE 0)
                            + (IF "middle" \in fields THEN am * 512 ELSE 0)
                            + (IF "bit16" \in fields THEN at * 65536 ELSE 0)
  BY DEF Masked, Weight
<1>5. /\ c \div 256 = cb + 2 * cm + 256 * ct /\ c % 256 = cl
      /\ c \div 512 = cm + 128 * ct /\ c % 512 = cl + 256 * cb
      /\ c \div 65536 = ct /\ c % 65536 = cl + 256 * cb + 512 * cm
  <2> HIDE DEF al, ab, am, at, cl, cb, cm, ct, x, y
  <2>1. c \div 256 = cb + 2 * cm + 256 * ct /\ c % 256 = cl
    BY <1>2
  <2>2. c \div 512 = cm + 128 * ct /\ c % 512 = cl + 256 * cb
    BY <1>2
  <2>3. c \div 65536 = ct /\ c % 65536 = cl + 256 * cb + 512 * cm
    BY <1>2
  <2> QED
    BY <2>1, <2>2, <2>3
<1>6. CASE r \in {6, 8}
  <2>1. Kept(r) = {"middle", "bit16"} /\ Shifted(r, v) = v * 2 /\ Field(r) = {"low", "bit8"}
    BY <1>6 DEF Kept, Shifted, Field
  <2>2. y = (c \div 512) * 512 + 2 * v
    BY <1>6 DEF Replaced
  <2>3. Masked(a, Kept(r)) = am * 512 + at * 65536
    <3> HIDE DEF al, ab, am, at
    <3> QED
      BY <1>1, <1>4, <2>1
  <2>4. /\ 2 * v = ((2 * v) % 256) + 256 * ((2 * v) \div 256)
        /\ ((2 * v) % 256) \in Int /\ 0 <= ((2 * v) % 256) /\ ((2 * v) % 256) <= 255
        /\ ((2 * v) \div 256) \in Int /\ 0 <= ((2 * v) \div 256) /\ ((2 * v) \div 256) <= 1
    BY <1>3
  <2>5. /\ x \in Address
        /\ Part(x, "low") = ((2 * v) % 256) /\ Part(x, "bit8") = ((2 * v) \div 256)
        /\ Part(x, "middle") = am /\ Part(x, "bit16") = at
    <3> HIDE DEF al, ab, am, at, cl, cb, cm, ct
    <3>1. x \in Int /\ x = ((2 * v) % 256) + 256 * ((2 * v) \div 256) + 512 * am + 65536 * at
      BY <1>1, <1>3, <2>1, <2>3, <2>4
    <3> HIDE DEF x, y
    <3>2. IsSum(x, ((2 * v) % 256), ((2 * v) \div 256), am, at)
      BY <1>1, <1>3, <2>4, <3>1 DEF IsSum
    <3> QED
      BY <3>2, PartsOfSum, ZenonT(40)
  <2>6. /\ y \in Address
        /\ Part(y, "low") = ((2 * v) % 256) /\ Part(y, "bit8") = ((2 * v) \div 256)
        /\ Part(y, "middle") = cm /\ Part(y, "bit16") = ct
    <3> HIDE DEF al, ab, am, at, cl, cb, cm, ct, y
    <3>1. y \in Int /\ y = ((2 * v) % 256) + 256 * ((2 * v) \div 256) + 512 * cm + 65536 * ct
      BY <1>2, <1>3, <1>5, <2>2, <2>4
    <3> HIDE DEF x, y
    <3>2. IsSum(y, ((2 * v) % 256), ((2 * v) \div 256), cm, ct)
      BY <1>2, <1>3, <2>4, <3>1 DEF IsSum
    <3> QED
      BY <3>2, PartsOfSum, ZenonT(40)
  <2> QED
    BY <2>1, <2>5, <2>6 DEF Fields
<1>7. CASE r \in {7, 9}
  <2>1. Kept(r) = {"low", "bit8"} /\ Shifted(r, v) = v * 512 /\ Field(r) = {"middle", "bit16"}
    BY <1>7 DEF Kept, Shifted, Field
  <2>2. y = v * 512 + (c % 512)
    BY <1>7 DEF Replaced
  <2>3. Masked(a, Kept(r)) = al * 1 + ab * 256
    <3> HIDE DEF al, ab, am, at
    <3> QED
      BY <1>1, <1>4, <2>1
  <2>4. /\ v = (v % 128) + 128 * (v \div 128)
        /\ (v % 128) \in Int /\ 0 <= (v % 128) /\ (v % 128) <= 127
        /\ (v \div 128) \in Int /\ 0 <= (v \div 128) /\ (v \div 128) <= 1
    BY <1>3
  <2>5. /\ x \in Address
        /\ Part(x, "low") = al /\ Part(x, "bit8") = ab
        /\ Part(x, "middle") = (v % 128) /\ Part(x, "bit16") = (v \div 128)
    <3> HIDE DEF al, ab, am, at, cl, cb, cm, ct
    <3>1. x \in Int /\ x = al + 256 * ab + 512 * (v % 128) + 65536 * (v \div 128)
      BY <1>1, <1>3, <2>1, <2>3, <2>4
    <3> HIDE DEF x, y
    <3>2. IsSum(x, al, ab, (v % 128), (v \div 128))
      BY <1>1, <1>3, <2>4, <3>1 DEF IsSum
    <3> QED
      BY <3>2, PartsOfSum, ZenonT(40)
  <2>6. /\ y \in Address
        /\ Part(y, "low") = cl /\ Part(y, "bit8") = cb
        /\ Part(y, "middle") = (v % 128) /\ Part(y, "bit16") = (v \div 128)
    <3> HIDE DEF al, ab, am, at, cl, cb, cm, ct, y
    <3>1. y \in Int /\ y = cl + 256 * cb + 512 * (v % 128) + 65536 * (v \div 128)
      BY <1>2, <1>3, <1>5, <2>2, <2>4
    <3> HIDE DEF x, y
    <3>2. IsSum(y, cl, cb, (v % 128), (v \div 128))
      BY <1>2, <1>3, <2>4, <3>1 DEF IsSum
    <3> QED
      BY <3>2, PartsOfSum, ZenonT(40)
  <2> QED
    BY <2>1, <2>5, <2>6 DEF Fields
<1>8. CASE r \in {38, 42}
  <2>1. Kept(r) = {"bit8", "middle", "bit16"} /\ Shifted(r, v) = v /\ Field(r) = {"low"}
    BY <1>8 DEF Kept, Shifted, Field
  <2>2. y = (c \div 256) * 256 + v
    BY <1>8 DEF Replaced
  <2>3. Masked(a, Kept(r)) = ab * 256 + am * 512 + at * 65536
    <3> HIDE DEF al, ab, am, at
    <3> QED
      BY <1>1, <1>4, <2>1
  <2>4. /\ v = v
    BY <1>3
  <2>5. /\ x \in Address
        /\ Part(x, "low") = v /\ Part(x, "bit8") = ab
        /\ Part(x, "middle") = am /\ Part(x, "bit16") = at
    <3> HIDE DEF al, ab, am, at, cl, cb, cm, ct
    <3>1. x \in Int /\ x = v + 256 * ab + 512 * am + 65536 * at
      BY <1>1, <1>3, <2>1, <2>3, <2>4
    <3> HIDE DEF x, y
    <3>2. IsSum(x, v, ab, am, at)
      BY <1>1, <1>3, <2>4, <3>1 DEF IsSum
    <3> QED
      BY <3>2, PartsOfSum, ZenonT(40)
  <2>6. /\ y \in Address
        /\ Part(y, "low") = v /\ Part(y, "bit8") = cb
        /\ Part(y, "middle") = cm /\ Part(y, "bit16") = ct
    <3> HIDE DEF al, ab, am, at, cl, cb, cm, ct, y
    <3>1. y \in Int /\ y = v + 256 * cb + 512 * cm + 65536 * ct
      BY <1>2, <1>3, <1>5, <2>2, <2>4
    <3> HIDE DEF x, y
    <3>2. IsSum(y, v, cb, cm, ct)
      BY <1>2, <1>3, <2>4, <3>1 DEF IsSum
    <3> QED
      BY <3>2, PartsOfSum, ZenonT(40)
  <2> QED
    BY <2>1, <2>5, <2>6 DEF Fields
<1>9. CASE r \in {39, 43}
  <2>1. Kept(r) = {"low", "bit16"} /\ Shifted(r, v) = v * 256 /\ Field(r) = {"bit8", "middle"}
    BY <1>9 DEF Kept, Shifted, Field
  <2>2. y = (c \div 65536) * 65536 + v * 256 + (c % 256)
    BY <1>9 DEF Replaced
  <2>3. Masked(a, Kept(r)) = al * 1 + at * 65536
    <3> HIDE DEF al, ab, am, at
    <3> QED
      BY <1>1, <1>4, <2>1
  <2>4. /\ v = (v % 2) + 2 * (v \div 2)
        /\ (v % 2) \in Int /\ 0 <= (v % 2) /\ (v % 2) <= 1
        /\ (v \div 2) \in Int /\ 0 <= (v \div 2) /\ (v \div 2) <= 127
    BY <1>3
  <2>5. /\ x \in Address
        /\ Part(x, "low") = al /\ Part(x, "bit8") = (v % 2)
        /\ Part(x, "middle") = (v \div 2) /\ Part(x, "bit16") = at
    <3> HIDE DEF al, ab, am, at, cl, cb, cm, ct
    <3>1. x \in Int /\ x = al + 256 * (v % 2) + 512 * (v \div 2) + 65536 * at
      BY <1>1, <1>3, <2>1, <2>3, <2>4
    <3> HIDE DEF x, y
    <3>2. IsSum(x, al, (v % 2), (v \div 2), at)
      BY <1>1, <1>3, <2>4, <3>1 DEF IsSum
    <3> QED
      BY <3>2, PartsOfSum, ZenonT(40)
  <2>6. /\ y \in Address
        /\ Part(y, "low") = cl /\ Part(y, "bit8") = (v % 2)
        /\ Part(y, "middle") = (v \div 2) /\ Part(y, "bit16") = ct
    <3> HIDE DEF al, ab, am, at, cl, cb, cm, ct, y
    <3>1. y \in Int /\ y = cl + 256 * (v % 2) + 512 * (v \div 2) + 65536 * ct
      BY <1>2, <1>3, <1>5, <2>2, <2>4
    <3> HIDE DEF x, y
    <3>2. IsSum(y, cl, (v % 2), (v \div 2), ct)
      BY <1>2, <1>3, <2>4, <3>1 DEF IsSum
    <3> QED
      BY <3>2, PartsOfSum, ZenonT(40)
  <2> QED
    BY <2>1, <2>5, <2>6 DEF Fields
<1>10. CASE r \in {40, 44}
  <2>1. Kept(r) = {"low", "bit8", "middle"} /\ Shifted(r, v) = (v % 2) * 65536 /\ Field(r) = {"bit16"}
    BY <1>10 DEF Kept, Shifted, Field
  <2>2. y = (v % 2) * 65536 + (c % 65536)
    BY <1>10 DEF Replaced
  <2>3. Masked(a, Kept(r)) = al * 1 + ab * 256 + am * 512
    <3> HIDE DEF al, ab, am, at
    <3> QED
      BY <1>1, <1>4, <2>1
  <2>4. /\ v % 2 = v % 2
        /\ (v % 2) \in Int /\ 0 <= (v % 2) /\ (v % 2) <= 1
    BY <1>3
  <2>5. /\ x \in Address
        /\ Part(x, "low") = al /\ Part(x, "bit8") = ab
        /\ Part(x, "middle") = am /\ Part(x, "bit16") = (v % 2)
    <3> HIDE DEF al, ab, am, at, cl, cb, cm, ct
    <3>1. x \in Int /\ x = al + 256 * ab + 512 * am + 65536 * (v % 2)
      BY <1>1, <1>3, <2>1, <2>3, <2>4
    <3> HIDE DEF x, y
    <3>2. IsSum(x, al, ab, am, (v % 2))
      BY <1>1, <1>3, <2>4, <3>1 DEF IsSum
    <3> QED
      BY <3>2, PartsOfSum, ZenonT(40)
  <2>6. /\ y \in Address
        /\ Part(y, "low") = cl /\ Part(y, "bit8") = cb
        /\ Part(y, "middle") = cm /\ Part(y, "bit16") = (v % 2)
    <3> HIDE DEF al, ab, am, at, cl, cb, cm, ct, y
    <3>1. y \in Int /\ y = cl + 256 * cb + 512 * cm + 65536 * (v % 2)
      BY <1>2, <1>3, <1>5, <2>2, <2>4
    <3> HIDE DEF x, y
    <3>2. IsSum(y, cl, cb, cm, (v % 2))
      BY <1>2, <1>3, <2>4, <3>1 DEF IsSum
    <3> QED
      BY <3>2, PartsOfSum, ZenonT(40)
  <2> QED
    BY <2>1, <2>5, <2>6 DEF Fields
<1> QED
  BY <1>6, <1>7, <1>8, <1>9, <1>10 DEF AddressRegisters

\* The sum of the fields of a pointer.
LEMMA PointerIsSum ==
  ASSUME NEW a \in Address
  PROVE  IsSum(a, Part(a, "low"), Part(a, "bit8"), Part(a, "middle"), Part(a, "bit16"))
<1> DEFINE l == Part(a, "low")    b == Part(a, "bit8")
           m == Part(a, "middle") t == Part(a, "bit16")
<1>1. /\ l \in Int /\ 0 <= l /\ l <= 255 /\ b \in Int /\ 0 <= b /\ b <= 1
      /\ m \in Int /\ 0 <= m /\ m <= 127 /\ t \in Int /\ 0 <= t /\ t <= 1
      /\ a = l + 256 * b + 512 * m + 65536 * t
  BY SumOfParts
<1>2. a \in Int
  BY DEF Address
<1> HIDE DEF l, b, m, t
<1>3. IsSum(a, l, b, m, t)
  BY <1>1, <1>2 DEF IsSum
<1> QED
  BY <1>3 DEF l, b, m, t

\* The fields determine the sum.
LEMMA OneSum ==
  ASSUME NEW a, NEW c, NEW l, NEW b, NEW m, NEW t, IsSum(a, l, b, m, t), IsSum(c, l, b, m, t)
  PROVE  a = c
BY DEF IsSum

\* Pointers that agree in all fields are the same.
LEMMA SamePointer ==
  ASSUME NEW a \in Address, NEW c \in Address, \A f \in Fields : Part(a, f) = Part(c, f)
  PROVE  a = c
<1>1. /\ Part(a, "low") = Part(c, "low") /\ Part(a, "bit8") = Part(c, "bit8")
      /\ Part(a, "middle") = Part(c, "middle") /\ Part(a, "bit16") = Part(c, "bit16")
  BY DEF Fields
<1>2. IsSum(a, Part(a, "low"), Part(a, "bit8"), Part(a, "middle"), Part(a, "bit16"))
  BY PointerIsSum, ZenonT(40)
<1>3. IsSum(c, Part(a, "low"), Part(a, "bit8"), Part(a, "middle"), Part(a, "bit16"))
  <2>1. IsSum(c, Part(c, "low"), Part(c, "bit8"), Part(c, "middle"), Part(c, "bit16"))
    BY PointerIsSum, ZenonT(40)
  <2> QED
    BY <1>1, <2>1, ZenonT(40)
<1> QED
  BY <1>2, <1>3, OneSum, ZenonT(40)

\* A pointer that moves on stays in the memory.
LEMMA PointersWrap ==
  ASSUME NEW a \in Int
  PROVE  a % VramBytes \in Address
<1>1. VramBytes \in Int /\ VramBytes > 0
  BY DEF VramBytes
<1>2. a % VramBytes \in Int /\ 0 <= a % VramBytes /\ a % VramBytes < VramBytes
  BY <1>1
<1> QED
  BY <1>2 DEF Address

\* So it does in the emulator.
LEMMA PointersStep ==
  ASSUME RegisterTypes, NEW p \in Pointers
  PROVE  Stepped(p) \in Address
<1>1. address[p] \in Int
  BY DEF RegisterTypes, Address
<1>2. Moved(p) \in Int
  BY <1>1 DEF Moved
<1> QED
  BY <1>2, PointersWrap DEF Stepped
-----------------------------------------------------------------------------
(* A clock without an access *)

\* A memory that nothing is written to is still the same.
LEMMA MemoryRests ==
  ASSUME SameMemory, fpga'.vram_wr = Nothing, fpga_vram' = Over(fpga.vram_wr, fpga_vram),
         vram' = vram, differ' = differ
  PROVE  SameMemory'
<1>1. Over(fpga.vram_wr, fpga_vram)' = Over(fpga.vram_wr, fpga_vram)
  <2>1. Over(fpga.vram_wr, fpga_vram)' = Over(Nothing, Over(fpga.vram_wr, fpga_vram))
    OBVIOUS
  <2> QED
    BY <2>1, OverNothing
<1> QED
  BY <1>1 DEF SameMemory

\* So is a palette.
LEMMA PaletteRests ==
  ASSUME SamePalette, fpga'.palette_wr = Nothing,
         fpga_palette' = Over(fpga.palette_wr, fpga_palette),
         palette' = palette, fpga.state # "WRITE", fpga'.state # "WRITE"
  PROVE  SamePalette'
<1>1. palette = Over(Nothing, Over(fpga.palette_wr, fpga_palette))
  BY DEF SamePalette
<1>2. Over(fpga.palette_wr, fpga_palette)' = Over(Nothing, Over(fpga.palette_wr, fpga_palette))
  OBVIOUS
<1>3. palette' = Over(Nothing, Over(fpga.palette_wr, fpga_palette)')
  BY <1>1, <1>2, OverNothing
<1> QED
  BY <1>3 DEF SamePalette

\* What Released leaves of the registers.
LEMMA ReleasedKeeps ==
  ASSUME RegisterTypes
  PROVE  /\ DOMAIN Released(fpga) = DOMAIN fpga
         /\ Released(fpga).palette_wr = Nothing /\ Released(fpga).vram_wr = Nothing
         /\ Released(fpga).address = fpga.address /\ Released(fpga).state = fpga.state
         /\ Released(fpga).index = fpga.index /\ Released(fpga).value = fpga.value
BY DEF Released, RegisterTypes

\* In a clock without an access an entry that is complete goes to the palette.
LEMMA EntryIsWritten ==
  ASSUME RegistersInv, fpga' = palette_write, memories,
         UNCHANGED <<vram, palette, palette_state, differ>>
  PROVE  /\ SameMemory' /\ SamePalette' /\ EntriesAgree'
         /\ DOMAIN fpga' = DOMAIN fpga /\ fpga'.address = fpga.address
         /\ fpga'.state \in {"IDLE", "LO", "HI"} /\ fpga'.index \in 0 .. 255
<1> USE DEF RegistersInv
<1>1. /\ DOMAIN fpga' = DOMAIN fpga /\ fpga'.address = fpga.address /\ fpga'.vram_wr = Nothing
      /\ fpga'.value = fpga.value
      /\ fpga.state # "WRITE" => fpga'.palette_wr = Nothing /\ fpga'.state = fpga.state
                                 /\ fpga'.index = fpga.index
      /\ fpga.state = "WRITE" => fpga'.palette_wr = One(fpga.index, fpga.value)
                                 /\ fpga'.state = "LO" /\ fpga'.index = (fpga.index + 1) % 256
  BY ReleasedKeeps DEF palette_write, RegisterTypes
<1>2. SameMemory'
  BY <1>1, MemoryRests DEF memories, MachinesAgree
<1>3. /\ fpga'.state \in {"IDLE", "LO", "HI"} /\ fpga'.index \in 0 .. 255 /\ EntriesAgree'
  BY <1>1 DEF RegisterTypes, EntriesAgree
<1>4. CASE fpga.state # "WRITE"
  BY <1>1, <1>2, <1>3, <1>4, PaletteRests DEF memories, MachinesAgree
<1>5. CASE fpga.state = "WRITE"
  <2>1. palette = Over(One(fpga.index, fpga.value), Over(fpga.palette_wr, fpga_palette))
    BY <1>5 DEF MachinesAgree, SamePalette
  <2>2. Over(fpga.palette_wr, fpga_palette)' = palette
    BY <1>1, <1>5, <2>1 DEF memories
  <2>3. palette' = Over(Nothing, Over(fpga.palette_wr, fpga_palette)')
    BY <2>1, <2>2, OverNothing
  <2>4. SamePalette'
    BY <1>1, <1>5, <2>3 DEF SamePalette
  <2> QED
    BY <1>1, <1>2, <1>3, <2>4
<1> QED
  BY <1>4, <1>5

\* A clock without an access, the emulator at rest.
LEMMA ClockKeeps == RegistersInv /\ Clock => RegistersInv'
<1> SUFFICES ASSUME RegistersInv, Clock PROVE RegistersInv'
  OBVIOUS
<1>1. /\ fpga' = palette_write /\ memories /\ UNCHANGED <<vram, palette, palette_state, differ>>
      /\ address' = address /\ autoinc' = autoinc /\ apart' = apart /\ wr_en' = FALSE
  BY DEF Clock, emulator
<1>2. /\ SameMemory' /\ SamePalette' /\ EntriesAgree'
      /\ DOMAIN fpga' = DOMAIN fpga /\ fpga'.address = fpga.address
      /\ fpga'.state \in {"IDLE", "LO", "HI"} /\ fpga'.index \in 0 .. 255
  BY <1>1, EntryIsWritten
<1>3. RegisterTypes'
  BY <1>1, <1>2 DEF RegistersInv, RegisterTypes
<1>4. PointersAgree'
  BY <1>1, <1>2 DEF RegistersInv, PointersAgree
<1> QED
  BY <1>2, <1>3, <1>4 DEF RegistersInv, MachinesAgree

\* A read moves the pointer of the emulator only.
LEMMA ReadKeeps ==
  ASSUME RegistersInv, NEW r \in DataRegisters, Read(r)
  PROVE  RegistersInv'
<1> DEFINE p == Pointer(r)
<1>1. /\ fpga' = palette_write /\ memories /\ UNCHANGED <<vram, palette, palette_state, differ>>
      /\ address' = [address EXCEPT ![p] = Stepped(p)] /\ autoinc' = autoinc
      /\ apart' = [apart EXCEPT ![p] = Fields] /\ wr_en' = wr_en
  BY DEF Read, chroni_register_read
<1>2. /\ SameMemory' /\ SamePalette' /\ EntriesAgree'
      /\ DOMAIN fpga' = DOMAIN fpga /\ fpga'.address = fpga.address
      /\ fpga'.state \in {"IDLE", "LO", "HI"} /\ fpga'.index \in 0 .. 255
  BY <1>1, EntryIsWritten
<1>3. p \in Pointers
  BY DEF Pointer, Pointers
<1>4. Stepped(p) \in Address
  BY <1>3, PointersStep DEF RegistersInv
<1>5. RegisterTypes'
  BY <1>1, <1>2, <1>3, <1>4 DEF RegistersInv, RegisterTypes
<1>6. PointersAgree'
  BY <1>1, <1>2, <1>3 DEF RegistersInv, RegisterTypes, PointersAgree
<1> QED
  BY <1>2, <1>5, <1>6 DEF RegistersInv, MachinesAgree
-----------------------------------------------------------------------------
(* An access that writes *)

\* The entry that the FPGA writes in the clock after an access is never in the
\* way of a write: an access is the rising edge of cpu_wr_en.
LEMMA NoEntryWaits ==
  ASSUME RegistersInv, NEW w \in Writes, Write(w)
  PROVE  fpga.state \in {"IDLE", "LO", "HI"}
BY DEF RegistersInv, RegisterTypes, EntriesAgree, Write

\* What a write is: a register, a byte, and what happens to either machine.
LEMMA WriteDoes ==
  ASSUME NEW w \in Writes, Write(w)
  PROVE  \E r \in AddressRegisters \cup DataRegisters \cup OtherRegisters, v \in 0 .. 255 :
           /\ chroni_register_write(r, v) /\ fpga' = register_write(r, v)
           /\ memories /\ Compare(r) /\ wr_en' = TRUE
           /\ r = 5 => fpga.state # "IDLE"
<1>1. w \in (AddressRegisters \cup DataRegisters \cup OtherRegisters) \X (0 .. 255)
  BY RegisterAssumption
<1> DEFINE r == w[1]
           v == w[2]
<1>2. r \in AddressRegisters \cup DataRegisters \cup OtherRegisters /\ v \in 0 .. 255
  BY <1>1
<1>3. /\ chroni_register_write(r, v) /\ fpga' = register_write(r, v)
      /\ memories /\ Compare(r) /\ wr_en' = TRUE
      /\ r = 5 => fpga.state # "IDLE"
  BY DEF Write
<1> QED
  BY <1>2, <1>3, Zenon

\* A part of an address is stored.
LEMMA AddressStored ==
  ASSUME RegistersInv, fpga.state # "WRITE",
         NEW r \in AddressRegisters, NEW v \in 0 .. 255,
         chroni_register_write(r, v), fpga' = register_write(r, v),
         memories, Compare(r), wr_en' = TRUE
  PROVE  RegistersInv'
<1> USE DEF RegistersInv
<1> DEFINE p == Pointer(r)
           x == Masked(address[p], Kept(r)) + Shifted(r, v)
           y == Replaced(fpga.address[p], r, v)
<1>1. p \in Pointers /\ r \notin DataRegisters /\ r # 4 /\ r # 5 /\ r # 46
  BY DEF Pointer, Pointers, AddressRegisters, DataRegisters
<1>2. address[p] \in Address /\ fpga.address[p] \in Address
  BY <1>1 DEF RegisterTypes
<1>3. /\ address' = [address EXCEPT ![p] = x] /\ vram' = vram /\ autoinc' = autoinc
      /\ palette_state' = palette_state /\ palette' = palette
  BY <1>1 DEF chroni_register_write
<1>4. fpga' = [Released(fpga) EXCEPT !.address[p] = y]
  BY <1>1 DEF register_write
<1>5. /\ x \in Address /\ y \in Address
      /\ \A f \in Field(r) : Part(x, f) = Part(y, f)
      /\ \A f \in Fields \ Field(r) :
           Part(x, f) = Part(address[p], f) /\ Part(y, f) = Part(fpga.address[p], f)
  BY <1>2, SameFields, ZenonT(40)
<1> HIDE DEF x, y
<1>6. /\ DOMAIN fpga' = DOMAIN fpga /\ fpga'.address = [fpga.address EXCEPT ![p] = y]
      /\ fpga'.palette_wr = Nothing /\ fpga'.vram_wr = Nothing /\ fpga'.state = fpga.state
      /\ fpga'.index = fpga.index /\ fpga'.value = fpga.value
  BY <1>4, ReleasedKeeps DEF RegisterTypes
<1>7. apart' = [apart EXCEPT ![p] = @ \ Field(r)] /\ differ' = differ
  BY DEF Compare
<1>8. RegisterTypes'
  BY <1>1, <1>3, <1>5, <1>6, <1>7 DEF RegisterTypes
<1>9. PointersAgree'
  <2> SUFFICES ASSUME NEW q \in Pointers, NEW f \in Fields \ apart'[q]
               PROVE  Part(address'[q], f) = Part(fpga'.address[q], f)
    BY DEF PointersAgree
  <2>1. CASE q # p
    BY <1>1, <1>3, <1>6, <1>7, <2>1 DEF RegisterTypes, PointersAgree
  <2>2. CASE q = p
    <3>1. address'[q] = x /\ fpga'.address[q] = y /\ apart'[q] = apart[p] \ Field(r)
      BY <1>1, <1>3, <1>6, <1>7, <2>2 DEF RegisterTypes
    <3>2. CASE f \in Field(r)
      BY <1>5, <3>1, <3>2
    <3>3. CASE f \notin Field(r)
      BY <1>1, <1>5, <3>1, <3>3 DEF PointersAgree
    <3> QED
      BY <3>2, <3>3
  <2> QED
    BY <2>1, <2>2
<1>10. EntriesAgree'
  BY <1>3, <1>6 DEF EntriesAgree
<1>11. SameMemory'
  BY <1>3, <1>6, <1>7, MemoryRests DEF memories, MachinesAgree
<1>12. SamePalette'
  BY <1>3, <1>6, PaletteRests DEF memories, MachinesAgree
<1> QED
  BY <1>8, <1>9, <1>10, <1>11, <1>12 DEF MachinesAgree

\* A byte is stored through a pointer.
LEMMA ByteStored ==
  ASSUME RegistersInv, fpga.state # "WRITE",
         NEW r \in DataRegisters, NEW v \in 0 .. 255,
         chroni_register_write(r, v), fpga' = register_write(r, v),
         memories, Compare(r), wr_en' = TRUE
  PROVE  RegistersInv'
<1> USE DEF RegistersInv
<1> DEFINE p == Pointer(r)
           e == address[p]
           a == fpga.address[p]
           next == (a + 1) % VramBytes
           bytes == [b \in BytesEnabled(p, a) |-> v]
           written == Over(fpga.vram_wr, fpga_vram)
<1>1. p \in Pointers /\ r \notin AddressRegisters /\ r # 4 /\ r # 5 /\ r # 46
  BY DEF Pointer, Pointers, AddressRegisters, DataRegisters
<1>2. e \in Address /\ a \in Address
  BY <1>1 DEF RegisterTypes
<1>3. /\ address' = [address EXCEPT ![p] = Stepped(p)] /\ vram' = Over(One(e, v), vram)
      /\ autoinc' = autoinc /\ palette_state' = palette_state /\ palette' = palette
  BY <1>1 DEF chroni_register_write
<1>4. fpga' = [Released(fpga) EXCEPT !.address[p] = next, !.vram_wr = bytes]
  BY <1>1 DEF register_write
<1>5. Stepped(p) \in Address
  BY <1>1, PointersStep
<1>6. next \in Address
  <2>1. a + 1 \in Int
    BY <1>2 DEF Address
  <2> QED
    BY <2>1, PointersWrap
<1>7. apart[p] = {} => e = a
  <2> SUFFICES ASSUME apart[p] = {} PROVE e = a
    OBVIOUS
  <2>1. \A f \in Fields : Part(e, f) = Part(a, f)
    BY <1>1 DEF PointersAgree
  <2> QED
    BY <1>2, <2>1, SamePointer, ZenonT(40)
<1>8. /\ apart' = [apart EXCEPT ![p] = IF apart[p] = {} /\ increments(p) THEN {} ELSE Fields]
      /\ differ' = IF apart[p] = {} THEN (differ \ {e}) \cup (BytesEnabled(p, e) \ {e})
                   ELSE differ \cup {e} \cup BytesEnabled(p, a)
  BY <1>1 DEF Compare
<1>9. apart[p] = {} /\ increments(p) => Stepped(p) = next
  BY <1>7 DEF Stepped, Moved
<1>10. a \in BytesEnabled(p, a)
  BY DEF BytesEnabled
<1> HIDE DEF next, bytes
<1>11. /\ DOMAIN fpga' = DOMAIN fpga /\ fpga'.address = [fpga.address EXCEPT ![p] = next]
       /\ fpga'.palette_wr = Nothing /\ fpga'.vram_wr = bytes /\ fpga'.state = fpga.state
       /\ fpga'.index = fpga.index /\ fpga'.value = fpga.value
  BY <1>4, ReleasedKeeps DEF RegisterTypes
<1>12. RegisterTypes'
  BY <1>1, <1>3, <1>5, <1>6, <1>8, <1>11 DEF RegisterTypes
<1>13. PointersAgree'
  <2> SUFFICES ASSUME NEW q \in Pointers, NEW f \in Fields \ apart'[q]
               PROVE  Part(address'[q], f) = Part(fpga'.address[q], f)
    BY DEF PointersAgree
  <2>1. CASE q # p
    BY <1>1, <1>3, <1>8, <1>11, <2>1 DEF RegisterTypes, PointersAgree
  <2>2. CASE q = p
    <3>1. address'[q] = Stepped(p) /\ fpga'.address[q] = next
      BY <1>1, <1>3, <1>11, <2>2 DEF RegisterTypes
    <3>2. apart[p] = {} /\ increments(p)
      BY <1>1, <1>8, <2>2 DEF RegisterTypes
    <3> QED
      BY <1>9, <3>1, <3>2
  <2> QED
    BY <2>1, <2>2
<1>14. EntriesAgree'
  BY <1>3, <1>11 DEF EntriesAgree
<1>15. SameMemory'
  <2> DEFINE after == Over(fpga'.vram_wr, fpga_vram')
  <2>1. after = Over(bytes, written)
    BY <1>11 DEF memories
  <2>2. DOMAIN bytes = BytesEnabled(p, a) /\ \A b \in BytesEnabled(p, a) : bytes[b] = v
    BY DEF bytes
  <2>3. /\ DOMAIN after = BytesEnabled(p, a) \cup DOMAIN written
        /\ \A b \in BytesEnabled(p, a) : after[b] = v
        /\ \A b \in DOMAIN written \ BytesEnabled(p, a) : after[b] = written[b]
    <3> HIDE DEF written, bytes, after
    <3> QED
      BY <2>1, <2>2 DEF Over
  <2>4. /\ DOMAIN vram' = {e} \cup DOMAIN vram /\ vram'[e] = v
        /\ \A b \in DOMAIN vram \ {e} : vram'[b] = vram[b]
    <3> HIDE DEF e
    <3> QED
      BY <1>3 DEF Over, One
  <2>5. \A b \in (DOMAIN vram \cup DOMAIN written) \ differ :
          b \in DOMAIN vram /\ b \in DOMAIN written /\ vram[b] = written[b]
    BY DEF MachinesAgree, SameMemory
  <2> HIDE DEF e, a, written, after
  <2>6. \A b \in (DOMAIN vram' \cup DOMAIN after) \ differ' :
          b \in DOMAIN vram' /\ b \in DOMAIN after /\ vram'[b] = after[b]
    <3> SUFFICES ASSUME NEW b \in (DOMAIN vram' \cup DOMAIN after) \ differ'
                 PROVE  b \in DOMAIN vram' /\ b \in DOMAIN after /\ vram'[b] = after[b]
      OBVIOUS
    <3>1. CASE b = e /\ apart[p] = {}
      BY <1>7, <1>10, <2>3, <2>4, <3>1
    <3>2. CASE b # e \/ apart[p] # {}
      <4>1. b # e /\ b \notin BytesEnabled(p, a) /\ b \notin differ
        BY <1>7, <1>8, <3>2
      <4> QED
        BY <2>3, <2>4, <2>5, <4>1
    <3> QED
      BY <3>1, <3>2
  <2> QED
    BY <2>6 DEF SameMemory, after
<1>16. SamePalette'
  BY <1>3, <1>11, PaletteRests DEF memories, MachinesAgree
<1> QED
  BY <1>12, <1>13, <1>14, <1>15, <1>16 DEF MachinesAgree

\* The palette, or the increments, are stored to.
LEMMA OtherStored ==
  ASSUME RegistersInv, fpga.state \in {"IDLE", "LO", "HI"},
         NEW r \in OtherRegisters, NEW v \in 0 .. 255,
         chroni_register_write(r, v), fpga' = register_write(r, v),
         memories, Compare(r), wr_en' = TRUE, r = 5 => fpga.state # "IDLE"
  PROVE  RegistersInv'
<1> USE DEF RegistersInv
<1> DEFINE s == palette_state
           f == Released(fpga)
<1>1. r \notin AddressRegisters /\ r \notin DataRegisters /\ r \in {4, 5, 46}
  BY DEF AddressRegisters, DataRegisters, OtherRegisters
<1>2. Pointer(r) \in Pointers /\ address' = address /\ vram' = vram
  BY <1>1 DEF chroni_register_write, Pointer, Pointers, RegisterTypes
<1>3. apart' = apart /\ differ' = differ
  BY <1>1 DEF Compare
<1>4. /\ DOMAIN f = DOMAIN fpga /\ f.palette_wr = Nothing /\ f.vram_wr = Nothing
      /\ f.address = fpga.address /\ f.state = fpga.state
      /\ f.index = fpga.index /\ f.value = fpga.value
  BY ReleasedKeeps
<1>5. SUFFICES /\ autoinc' \in 0 .. 255 /\ palette_state' \in [index : 0 .. 255, value : Nat, low : BOOLEAN]
               /\ DOMAIN fpga' = DOMAIN fpga /\ fpga'.address = fpga.address
               /\ fpga'.vram_wr = Nothing
               /\ fpga'.state \in {"IDLE", "LO", "HI", "WRITE"} /\ fpga'.index \in 0 .. 255
               /\ EntriesAgree' /\ SamePalette'
  <2> SUFFICES ASSUME /\ autoinc' \in 0 .. 255 /\ palette_state' \in [index : 0 .. 255, value : Nat, low : BOOLEAN]
                      /\ DOMAIN fpga' = DOMAIN fpga /\ fpga'.address = fpga.address
                      /\ fpga'.vram_wr = Nothing
                      /\ fpga'.state \in {"IDLE", "LO", "HI", "WRITE"} /\ fpga'.index \in 0 .. 255
                      /\ EntriesAgree' /\ SamePalette'
               PROVE  RegistersInv'
    OBVIOUS
  <2>1. RegisterTypes'
    BY <1>2, <1>3 DEF RegisterTypes
  <2>2. PointersAgree'
    BY <1>2, <1>3 DEF PointersAgree
  <2>3. SameMemory'
    BY <1>2, <1>3, MemoryRests DEF memories, MachinesAgree
  <2> QED
    BY <2>1, <2>2, <2>3 DEF MachinesAgree
<1>6. CASE r = 46
  <2>1. /\ autoinc' = v /\ palette_state' = s /\ palette' = palette /\ fpga' = f
    BY <1>1, <1>6 DEF chroni_register_write, register_write
  <2>2. EntriesAgree'
    BY <1>4, <2>1 DEF EntriesAgree
  <2>3. SamePalette'
    BY <1>4, <2>1, PaletteRests DEF memories, MachinesAgree
  <2> QED
    BY <1>4, <2>1, <2>2, <2>3 DEF RegisterTypes
<1>7. CASE r = 4
  <2>1. /\ autoinc' = autoinc /\ palette_state' = [s EXCEPT !.index = v, !.low = FALSE]
        /\ palette' = palette /\ fpga' = [f EXCEPT !.index = v, !.state = "LO"]
    BY <1>1, <1>7 DEF chroni_register_write, register_write
  <2>2. /\ DOMAIN fpga' = DOMAIN fpga /\ fpga'.address = fpga.address /\ fpga'.vram_wr = Nothing
        /\ fpga'.palette_wr = Nothing /\ fpga'.state = "LO" /\ fpga'.index = v
        /\ fpga'.value = fpga.value
    BY <1>4, <2>1 DEF RegisterTypes
  <2>3. EntriesAgree'
    BY <2>1, <2>2 DEF EntriesAgree, RegisterTypes
  <2>4. SamePalette'
    BY <2>1, <2>2, PaletteRests DEF memories, MachinesAgree
  <2> QED
    BY <2>1, <2>2, <2>3, <2>4 DEF RegisterTypes
<1>8. CASE r = 5 /\ fpga.state = "LO"
  <2> DEFINE value == (s.value \div 256) * 256 + v
  <2>1. ~s.low
    BY <1>8 DEF EntriesAgree, RegisterTypes
  <2>2. /\ autoinc' = autoinc /\ palette_state' = [s EXCEPT !.value = value, !.low = TRUE]
        /\ palette' = palette /\ fpga' = [f EXCEPT !.value = value, !.state = "HI"]
    BY <1>1, <1>4, <1>8, <2>1 DEF chroni_register_write, register_write, EntriesAgree, RegisterTypes
  <2>3. value \in Nat
    BY DEF RegisterTypes
  <2> HIDE DEF value
  <2>4. /\ DOMAIN fpga' = DOMAIN fpga /\ fpga'.address = fpga.address /\ fpga'.vram_wr = Nothing
        /\ fpga'.palette_wr = Nothing /\ fpga'.state = "HI" /\ fpga'.index = fpga.index
        /\ fpga'.value = value
    BY <1>4, <2>2 DEF RegisterTypes
  <2>5. EntriesAgree'
    BY <1>8, <2>2, <2>4 DEF EntriesAgree, RegisterTypes
  <2>6. SamePalette'
    BY <1>8, <2>2, <2>4, PaletteRests DEF memories, MachinesAgree
  <2> QED
    BY <2>2, <2>3, <2>4, <2>5, <2>6 DEF RegisterTypes
<1>9. CASE r = 5 /\ fpga.state = "HI"
  <2> DEFINE value == (s.value % 256) + v * 256
  <2>1. s.low
    BY <1>9 DEF EntriesAgree
  <2>2. /\ autoinc' = autoinc
        /\ palette_state' = [index |-> (s.index + 1) % 256, value |-> value, low |-> FALSE]
        /\ palette' = Over(One(s.index, palette_state'.value), palette)
        /\ fpga' = [f EXCEPT !.value = value, !.state = "WRITE"]
    BY <1>1, <1>4, <1>9, <2>1 DEF chroni_register_write, register_write, EntriesAgree, RegisterTypes
  <2>3. value \in Nat /\ (s.index + 1) % 256 \in 0 .. 255 /\ fpga.index = s.index
    BY <1>9 DEF RegisterTypes, EntriesAgree
  <2> HIDE DEF value
  <2>4. /\ DOMAIN fpga' = DOMAIN fpga /\ fpga'.address = fpga.address /\ fpga'.vram_wr = Nothing
        /\ fpga'.palette_wr = Nothing /\ fpga'.state = "WRITE" /\ fpga'.index = fpga.index
        /\ fpga'.value = value
    BY <1>4, <2>2 DEF RegisterTypes
  <2>5. EntriesAgree'
    BY <2>2, <2>3, <2>4 DEF EntriesAgree
  <2>6. SamePalette'
    <3>1. palette = Over(Nothing, Over(fpga.palette_wr, fpga_palette))
      BY <1>9 DEF MachinesAgree, SamePalette
    <3>2. fpga_palette' = palette
      BY <3>1, OverNothing DEF memories
    <3>3. palette = Over(Nothing, palette)
      BY <3>1, OverNothing
    <3>4. palette' = Over(One(fpga.index, value), palette)
      BY <2>2, <2>3
    <3>5. Over(One(fpga.index, value), Over(fpga'.palette_wr, fpga_palette')) = palette'
      BY <2>4, <3>2, <3>3, <3>4
    <3> QED
      BY <2>4, <3>5 DEF SamePalette
  <2> QED
    BY <2>2, <2>3, <2>4, <2>5, <2>6 DEF RegisterTypes
<1> QED
  BY <1>1, <1>6, <1>7, <1>8, <1>9

\* So every write keeps the invariant.
LEMMA WriteKeeps ==
  ASSUME RegistersInv, NEW w \in Writes, Write(w)
  PROVE  RegistersInv'
<1>1. fpga.state \in {"IDLE", "LO", "HI"}
  BY NoEntryWaits
<1>2. PICK r \in AddressRegisters \cup DataRegisters \cup OtherRegisters, v \in 0 .. 255 :
        /\ chroni_register_write(r, v) /\ fpga' = register_write(r, v)
        /\ memories /\ Compare(r) /\ wr_en' = TRUE
        /\ r = 5 => fpga.state # "IDLE"
  BY WriteDoes, ZenonT(40)
<1>3. CASE r \in AddressRegisters
  BY <1>1, <1>2, <1>3, AddressStored
<1>4. CASE r \in DataRegisters
  BY <1>1, <1>2, <1>4, ByteStored
<1>5. CASE r \in OtherRegisters
  BY <1>1, <1>2, <1>5, OtherStored
<1> QED
  BY <1>3, <1>4, <1>5
-----------------------------------------------------------------------------
\* Whatever the accesses, the same program leaves the same bytes of memory and
\* the same palette in the emulator (chroni_register_write) and in the FPGA
\* (register_write), but where a pointer was moved in a way the FPGA does not
\* have: for every set of writes, and as many of them as one likes.
THEOREM RegistersAgree == ChroniSpec => []MachinesAgree
<1>1. ChroniInit => RegistersInv
  <2> SUFFICES ASSUME RegistersInit PROVE RegistersInv
    BY DEF ChroniInit
  <2>1. RegisterTypes
    <3>1. 0 \in Address
      BY DEF Address, VramBytes
    <3>2. address \in [Pointers -> Address] /\ autoinc \in 0 .. 255
      BY <3>1 DEF RegistersInit
    <3>3. wr_en \in BOOLEAN
      BY DEF RegistersInit
    <3>4. palette_state \in [index : 0 .. 255, value : Nat, low : BOOLEAN]
      BY DEF RegistersInit
    <3>5. /\ fpga.address \in [Pointers -> Address] /\ fpga.index \in 0 .. 255
          /\ fpga.state \in {"IDLE", "LO", "HI", "WRITE"}
      BY <3>1 DEF RegistersInit
    <3>6. DOMAIN fpga = {"address", "state", "index", "value", "palette_wr", "vram_wr"}
      BY DEF RegistersInit
    <3>7. apart \in [Pointers -> SUBSET Fields]
      BY DEF RegistersInit
    <3> QED
      BY <3>2, <3>3, <3>4, <3>5, <3>6, <3>7 DEF RegisterTypes
  <2>2. PointersAgree
    BY DEF RegistersInit, PointersAgree
  <2>3. EntriesAgree
    BY DEF RegistersInit, EntriesAgree
  <2>4. MachinesAgree
    BY DEF RegistersInit, MachinesAgree, SameMemory, SamePalette, Over, Nothing
  <2> QED
    BY <2>1, <2>2, <2>3, <2>4 DEF RegistersInv
<1>2. RegistersInv /\ [ChroniNext]_chroniVars => RegistersInv'
  <2> SUFFICES ASSUME RegistersInv, [ChroniNext]_chroniVars PROVE RegistersInv'
    OBVIOUS
  <2>1. CASE UNCHANGED registerVars
    BY <2>1 DEF registerVars, emulator, RegistersInv, RegisterTypes, PointersAgree,
                EntriesAgree, MachinesAgree, SameMemory, SamePalette
  <2>2. CASE RegistersNext
    BY <2>2, WriteKeeps, ReadKeeps, ClockKeeps DEF RegistersNext
  <2> QED
    BY <2>1, <2>2 DEF ChroniNext, Draw, Store, chroniVars
<1>3. RegistersInv => MachinesAgree
  BY DEF RegistersInv
<1> QED
  BY <1>1, <1>2, <1>3, PTL DEF ChroniSpec
==============================================================================
