# A TLA+ model of the CLC-88 Compy emulator

The CLC-88 is an 8-bit computer that never existed: a 6502, a video chip called
Chroni, timers, two Pokeys and a storage device. The repository has an emulator
in C (`src/src/`), the operating system and demos for it (`src/asm/`), a version
in Verilog for an FPGA (`src/rtl/`), and tools. This project models the parts
whose correctness depends on the order in which things happen, and, where the
machine exists twice, in C and in Verilog, the one against the other.

Paths below are relative to `src/`; `storage.c` and the like are in `src/src/`.

## The system

The emulator is one process with four threads.

- The **main thread** (`frontend/linux/frontend.c`) takes a posted frame, queues
  its sound, draws it, and looks at the events of the window.
- The **emulator thread** runs `compy_run` for ever: 262 scanlines, each a back
  porch, a display and a front porch of Chroni with a slice of CPU time after
  it, then the sound, the timers and the IRQ. It hands the frame over.
- The **processor thread** (`storage.c`) executes the commands of the storage
  device that the guest has put in its registers.
- The **serial thread** (`frontend/linux/serial.c`) moves bytes between the
  registers and a FIFO that the upload tool opens too.

The FPGA has no threads but clocks: the system clock, on which the processor
runs whenever its throttle lets it and Chroni renders, and the clock of the
monitor. Requests cross between the two through handshakes.

The threads share plain globals with no lock, no atomics and no barriers; they wait by
polling with `usleep`. The guest is the fifth actor: its driver polls the storage
registers, its handlers take the interrupts, and its programs store whatever they
like in any register between two scanlines.

### Inventory

| component | state | operations | what is hard | what makes it correct |
|---|---|---|---|---|
| storage device, `storage.c` | command and answer buffers with their indexes, status, request flag; file and directory handles | register reads and writes, `process_command` with seven commands | two threads on the same buffers; the status read resets itself; full tables | a command is executed as sent, its answer read from the first byte, handles keep their files |
| storage driver, `os/storage.asm` | the guest's call | send, proceed, poll, read; block read | the other side of the same race; sectors and single bytes mixed | every command answered; a block is the next bytes of the file |
| CPU execution, `cpuexec.c` | cycles saved and owed, halted | run a slice, halt, NMI, IRQ | time is lent between slices | the CPU keeps step with the raster |
| frame loop, `clc88.c` | none of its own | one frame | order of its calls | interrupts reach their handlers |
| Chroni, `video/chroni.c` | scanline, status, interrupt line; display list position, section, scroll window; address and palette registers; video memory | three calls a scanline, register accesses | state that outlives a section or a frame; wrapping subtractions | sections get their lines, windows their pixels |
| timers, `system.c`, `sys_timer.c` | elapsed, timeout, enabled and triggered of eight timers | advance, set, enable, acknowledge | the IRQ line moves only at the end of a scanline | an expiry interrupts, an acknowledged one stops |
| frame buffers, `frontend.c` | three buffers, next and posted | hand over, draw | two busy waits; a buffer given back before it is drawn | frames whole, once, in order; no deadlock |
| sound buffers, `sound.c` | two buffers with write indexes, which is active | mix, swap | swap in the middle of a mix | samples whole, once, in order; room for two frames |
| serial link, `serial.c`, `tools/serial`, `os/serial.asm` | a FIFO, a ring, a byte to send | send, receive, upload | one FIFO for both directions, two waits for each other | a block arrives whole, both ends go on |
| keyboard, `keyboard.c`, `keyb.c` | a bit for each key, last key | event, register read | two threads; several keys at once | no key stuck |
| bus and memory, `bus.c`, `memory.c` | 64K | read, write | nothing | - |
| monitor, `monitor.c`, `cpu.c`, `debug.c` | stop mode, stop address, breakpoints, the program counter it was told last | commands at a prompt, a hook at each jump and each line of the listing | changed at the prompt, looked at in the middle of instructions | it stops where it was asked to, steps once, and lists what runs |
| loader, `utils.c` | - | load a file at start-up | input and output | - |
| Z80, `cpu/z80` | registers, lines, cycles left | a slice, lines, listing; nothing selects it | shortcuts for loops that wait; flags out of tables; interrupts around EI and RETN | with and without shortcuts the same; programs go on after any interrupt |
| Pokey, `sound/pokey` | counters of the channels, polynomials, position between samples | register writes, samples | driven by events instead of clocks, state caught up late | sounds as a chip that counts each clock |
| AY-3-8910, `sound/ay8910` | counters, envelope, noise, ports | register reads and writes, samples; nothing calls it | the same | the same |
| MAME's timers, `mame_timer.c` | sorted list, slice, callback | add, change, remove, from a callback too; nothing calls it | a list that its own callbacks change; three notions of now | every timer called when due; the loop ends |
| FM, mixer, streams of MAME | - | nothing calls them | arithmetic on waveforms | - |
| FPGA CPU, `rtl/common/m6502` | registers, microcode state, bus requests, interrupt latches | every clock | parts that wait for each other's completion; interrupts at any clock | instructions do what the emulator's do |
| FPGA Chroni, `rtl/compy/chroni.v` and others | display list, generators, line buffer, handshakes, counters of the monitor | every clock of two clocks | clock domains; a line rendered in the time another is shown | the monitor shows the list |
| FPGA system, `system.v`, `timer.v`, `uart.v` | bus, throttle, timers, ring of received bytes, shift registers | every clock | a bus that waits for a port that waits for a ring; one edge-triggered line for all timers | a program ends as it should at any speed |
| FPGA SDRAM cache and controller | cache lines | every clock of a test bench | write misses | - |
| OS, demos, tools | - | - | sequential programs | - |

## Modules

| module | models | role |
|---|---|---|
| `StorageService` | what the device promises a driver | abstract |
| `StoragePort` | registers, processor thread and driver, a shared access a step | implements `StorageService` |
| `StorageCommands` | the seven commands, one action each | a command is one step: `StoragePort` shows that it runs alone |
| `StorageBlock` | the block read of the driver, a loop turn a step | sequential algorithm, run by `Loading` |
| `VideoOut` | frames handed over, drawn or dropped in order | abstract |
| `ScreenBuffers` | `frontend_update_screen`, `update_screen`, `main` | implements `VideoOut` |
| `SoundBuffers` | `sound_process`, `sound_fill_buffer` | component |
| `Frontend` | both threads with both kinds of buffers | instantiates `ScreenBuffers` and `SoundBuffers` |
| `Machine` | the frame loop, the slices of `cpuexec.c`, Chroni's raster, the NMI and `nmi_os` | component |
| `DisplayList` | `process_dl`, `do_scanline` and the four drawing routines | component |
| `Timers` | the timers, the IRQ of the 6502, a handler | component |
| `Interrupts` | the frame loop with its NMI or the timers with their IRQ, one of them at work in a behaviour | extends `Machine` and `Timers` |
| `Loading` | the serial link: the FIFO, the serial thread, the loader of the OS and the upload tool; a program is loaded over it or from a file | component, instantiates `StorageBlock` |
| `M6502` | what each documented instruction of the emulator's 6502 does | functions |
| `FpgaCpu` | every block of `m6502_cpu.v` and `m6502_alu.v` | component |
| `FpgaCpuRun` | what `system.v` puts around it: bus, memories, throttle, registers, timers, serial port; a program runs on it, with the other end of the serial port | extends `FpgaCpu`, compares it with `M6502` |
| `FpgaVga` | the monitor's side: counters, handshakes, output; and the line buffer | component |
| `FpgaRenderer` | the blocks of the renderer: the list; characters and tiles | component |
| `FpgaChroni` | both clocks together, and what the list says should be seen | composes the two |
| `Chroni` | the address, data and palette registers, of the emulator and of the FPGA side by side; these or the display list at work | compares the two, instantiates `DisplayList` |
| `Z80` | flags, registers, memory and shortcuts; the opcodes, interrupts and slices of `z80.c`, and the listing of `z80dasm.c`: lengths, targets and groups of mnemonics | component |
| `Z80Run` | the Z80 at work twice, with its shortcuts and without | compares the two, and `Z80` with its listing and with arithmetic |
| `Pokey`, `Ay8910` | a sound chip by events, and the same chip clock by clock | components; each compares the two |
| `MameTimer` | `mame_timer.c` with anything its callers may do | component |
| `Monitor` | the prompt and the hooks, around the 6502 of `M6502`, and the listing of `6502dasm.c` | component |
| `MameDevices` | MAME's timers and the Pokeys, one of them at work in a behaviour | extends them |
| `Cores` | the Z80, the AY-3-8910 and the monitored 6502, one of them at a time | instantiates them |
| `MC...` | values of the constants that a `.cfg` cannot write | - |
| `..._proofs` | theorems about the module of that name and those it is made of; those of `Timers` are at its end | - |

Variables and actions have the names of the code. A variable marked "history" in
a comment is read by properties only. Operators named after a mapped definition
with a suffix (`run_for_KeepsAcum`) are what a plausible bug would make of it;
nothing uses them, and each property is violated when one takes the place of the
definition it is named after.

### Storage

`StoragePort` has two processes. `Driver` walks the driver of `storage.asm`:
reset of the indexes, then for each byte the ready test, the data and the strobe,
then `proceed`, the polling of the status, and the same for the answer.
`Processor` walks `processor_thread_function`: the test of the request flag, the
status, the switch, the rewinding of the indexes, the prefetch of the first byte
of the answer, `STATUS_DONE`, and the clearing of the flag. What the switch does
is any answer of `Answers`, written over the first bytes of `ret`, and any of
`Leaves` over those of `cmd` (the closing of a directory puts its answer there,
`storage.c:417`, and leaves `ret` to be read); the rest of `ret` and `cmd` keeps
what earlier commands left. The order of the thread's
stores is that of the program, as the build of `src/Makefile` (gcc -O2) emits
them for x86.

`StorageCommands` is the switch. The host is external: short files that stdio
takes into its buffer with the first read, sorted listings, and a limit on open
streams. Reading beyond `dir_handles`, and any use of freed entries, is undefined
and taken as an arbitrary answer with `fault` set; the properties that follow do
not lean on it.

`StorageBlock` reads a file whose bytes are 1, 2, 3, ... for every length,
position and size, with sectors of three bytes. `Loading` runs it beside the
serial link: a program comes in one way or the other.

### Frames and sound

In `ScreenBuffers` `memcpy` is two steps with a torn buffer in between, and the
reading of the pixels happens at the texture, after the post was given back.
SDL may fail to make a surface or a texture. In `SoundBuffers` a chunk is the
samples of one call that mixes; each load and store of the shared indexes is a
step. `updating_buffer` is left out because it guards nothing. `Frontend`
composes them: a frame is a number of chunks and then the handing over; the main
thread queues sound only when a frame is posted.

The swap can take a buffer in the middle of a mix into it (`Hands`), and three
history variables say what this may have done: `raced` that it has happened,
`undone` which of the two buffers were last handed over in this way (a chunk's
index stored after the reset brings back what the buffer held), and `spoilt` which
chunks it may have cost: the one in the making, the first of the buffer, and those
that then find the buffer full. `SoundIsWhole` speaks of the time before the first
race. `NeverFull` and `SoundIsHeard` go on after it: a buffer fills up only if it is
in `undone`, and every chunk that is not `spoilt` is queued in the end.

### CPU, raster, interrupts

`Machine` has the counters of `cpuexec_run`; the CPU may pass the end of a slice
by as much as an instruction with an interrupt (`MaxOver`) or end it early with
WSYNC. It has a program counter for the calls of `compy_run_frame`. In
a slice the guest may store to WSYNC, VSTATUS and VLINEINT, and when an NMI is
up, `nmi_os` runs first. `Timers` has the instructions of a scanline as steps,
`pending_irq` as `m6502_execute` treats it, and a handler that acknowledges
what it finds triggered. The two do not share state: an IRQ only changes which
stores of the guest come next, and `Machine` allows them all. `Interrupts` has one
of them at work in a behaviour.

### Display list

`DisplayList` has the fields of `chroni.c` with addresses taken to rows and
columns of the window. `Columns` repeats the loops of the drawing routines in
units of what one fetch gives, with `line_wrap` in its own width. Chroni can be
disabled for any scanline. Not modelled: the narrow screen, sprites, colours,
changes to the list within a frame, modes 6 to 14 (the tables have no entry),
text windows of odd width (their rows do not start at a word) and windows that do
not contain their own position.

### Serial link

`Loading` has the two ends of one FIFO. In the emulator the loader asks for a
block with a byte and reads its bytes from a ring; the serial thread writes the
byte, waits until the FIFO does not hold exactly one (`serial.c:124`), and moves
what it reads into the ring. The tool reads a request, writes a block byte by
byte, and after each waits until the FIFO is empty (`serial_emulator.c`). Bytes
carry the end that wrote them, so that an end that reads its own is seen.

### The FPGA's processor and system

`M6502` gives the effect of an instruction as a function from registers and
memory to registers and memory, read from `ops02.h` and `t6502.c`. `FpgaCpu` has
one definition for each always block of `m6502_cpu.v`, evaluated together on each
clock the throttle lets through; the microcode is a table by opcode. `FpgaCpuRun`
does the same for `system.v`, `timer.v` and the serial port: every register of
them moves on every clock. Only the board's own inputs and Chroni are not on its
bus.

It starts them with a program, lets an IRQ, an NMI or a reset come at any
clock, and at the end of every instruction compares what can be seen of the
processor with what `M6502` makes of the same instruction (`InstructionsAgree`).
Where hardware and emulator differ and nothing in the design says that they should
not, `Hardware...` definitions state the difference in one place each. Where the
design contradicts its own description, the microcode notes, nothing of this is built
into the expectation: `InstructionsAgree` leaves out the carry of a comparison, A
after a shift in memory and a PLA whose byte the ALU may change (`Described`,
`Undescribed`), and the run `fpga_pull` shows what becomes of that byte. It leaves out
the shifts of `abs,X` altogether, which take Y: the notes say nothing of their
modes. All are listed below. `far` is the other end
of the serial port: it hears a byte bit by bit, and sends its answer with a clock
of its own and gaps it chooses. `ProgramsEnd` asks that each program ends with
what it should have received, counted and sent.

A branch adds `$signed(reg_m)` to an expression whose other parts are unsigned
(`m6502_cpu.v:444`). By the rules of Verilog the whole is then unsigned, the offset
loses its sign, and no branch goes back. `SignedOffset` says which of the two the
build makes of it. The runs assume that it is signed, as every loop of the board's
programs does: what they show of programs with loops is worth nothing on a build that
goes by the rules.

### The cores of other emulators

The Z80, the sound chips, the timers and the 6502 came with MAME's way to be fast:
do less than every clock and make up for it later. Each is compared with a plain
reading of what it stands for.

`Z80Run` has two Z80s, `fast` with the shortcuts for a jump to itself and for
loops that only count, `plain` without. They run the same slices and see the same
lines rise and fall between them; `HacksAgree` compares them at the end of each
slice. `ArithmeticAgrees` compares the flags with sums of integers,
`RunsAsListed` the program counter after an instruction with the listing.

`Pokey` has `pokey_process` as a sequence of events: `Event` is the reload of the
last channel that is due, `Sample` a sample that is. The second chip begins with the
counter `Samp_n_cnt` that the first has left. Beside each chip is a plain one,
`by_clock`, in which every counter goes down and every polynomial moves at each
`Clock`; it goes ahead to the next event, and the other follows it there. A write
works out all of its channels, where `pokey_update_sound` does those in `chan_mask`,
which a write to AUDPAN leaves uninitialized. `PlaysEveryClock` compares states,
samples and mix; `ChipsKeepPace` how far the two chips go in a call.
`overslept` stands for a channel that does not count and was left alone for twenty
minutes: its counter of $7FFFFFFF is at its end. `Ay8910` likewise runs the samples
of a call beside a chip that ticks. Registers are written between calls.

`MameTimer` has one action per call of the interface, from the main loop and from
inside callbacks, and `Loop` for the turns of the loop that calls them. The
timer that refreshes for ever is assumed to be there (`RefreshPeriod`): the loop
of `mame_timer.c` never ends without one. The time in a slice is that of the CPU, in
a callback that of the timer, and the list counts from the start of the slice;
`due` is the same in the time of the world, kept apart by the history variables
`due` and `called`, so that an error in one of the three shows. Which of them
`get_relative_time` takes depends on the CPUs: the model follows the interface
`mame_timer.c` is written for, in which a CPU is active in a slice and none in a
callback. The stubs of `cpu.c:164` and `cpu.c:196`, an active CPU at all times whose
time is 0, never come to the callback's time, but nothing sets a timer there. `disturbed` says
that in this slice something was done that leaves its end where it was although
another timer is now first; see the differences below.

`Monitor` has the commands that change something, and lets the emulated 6502 run
one instruction a step; `cpu.c` reports jumps and `debug.c` asks whether to stop.
`OpensWhereWanted`, `NeverRunsPast` and the others are the parts of
`StopsAsAsked`. `Cores` holds all of these but the timers and the Pokeys, which are in
`MameDevices`, each with one of them at work in a behaviour: they share no state.

### The FPGA's Chroni

One step is an edge of either clock; the two have no phase in common and stay
within a period of each other (`lead`). A pixel is what it was read from, so that
a pixel in the wrong place is a different pixel. `ShowsTheList` compares what
reaches the monitor at each clock with `Picture`, a direct reading of the display
list. A row of characters has two lines (`CharLines`) instead of eight. The buffers
between the memory and the generators have the depth of those of the design, a word
for each of the columns of the widest line (80 and 80 for text, 40 for tiles,
`chroni.v:780`); what is stored past the end is lost. A line that is fine scrolled
shows a part of one more column than that, which `Picture` leaves open (`Buffered`)
when the line is of full width.

### Registers of both Chronis

`Chroni` makes every access to both machines. `MachinesAgree` compares
the memories and palettes that have been stored, not how. A pointer is taken in the
four fields into which the masks of `chroni_register_write` and the bit ranges of
`register_write` cut it (bits 0 to 7, 8, 9 to 15 and 16): the emulator masks and
adds, the FPGA replaces. Where the two differ by design (a read of VDATA, an
increment other than one, the second byte of an even auxiliary pointer), `apart`
and `differ` keep account of the fields and the bytes that this can reach.

## Runs

| run | bounds | what it shows |
|---|---|---|
| `storage_port` | commands of 1 to 3 bytes over an alphabet of 3, buffers of 3 bytes | `NoConcurrentAccess`: the unlocked buffers are never used by both threads; `DecodesWhatWasSent` and `ReplyIsAnswer` in spite of left-over bytes; the port implements the service; the driver gets out of its polling unless its proceed was lost |
| `storage_lost_proceed` | the same | expected violation: see below |
| `storage_commands` | 2 slots, 3 streams, 2 files, sectors of 2, 2 directories, modes 0, 1 and 2, entries 0 and 2 of a list | slots never hold a closed stream, handles stay put, a stream leaks only when the table is full, a read moves on by what it answers and moves nothing else; listings are ordered and counted, with the entries the code keeps, and stay in their slot |
| `loading` | sectors of 3, files up to 8, sizes up to 10; blocks of 2 bytes, a ring of 5, files of 0 to 7 bytes | the block read delivers the bytes asked for, counts them unless it fails, returns; the upload arrives whole, no end reads its own bytes, the ring holds a block; the only way to hang is a pair of crossed requests |
| `frontend` | 3 buffers, 4 frames of 2 chunks, sound buffer of 4 chunks | no torn frame drawn, every frame once and in order, the waits do not hold each other up; the pace of the frames keeps a sound buffer from filling unless it was last handed over in the middle of a mix; before the first such race sound is whole, and all but what the races cost is heard |
| `interrupts` | a frame of 8 scanlines, 4 of them display, interrupt lines in and outside the picture, slices of 20 and 160 cycles, `MIN_CYCLES` 4; 2 timers, timeouts of 0 and 1.5 scanlines, a word of 8, 5 instructions a scanline | no drift; each NMI reaches its vector; vertical blanks go on being served; stray interrupts end; an enabled timer goes on interrupting; one timer does not starve the program |
| `chroni` | 99 lists with every mode, windows of 4 by 2, 26 scanlines of 60 pixels, any list in the next frame; 6 accesses out of 17 writes and the reads | sections get their lines; rows and columns follow the window through its wraps; the two machines store the same |
| `fpga_cpu` | every documented opcode with 2 to 4 operands, after each of 16 instructions, with 6 sets of registers, at 3 speeds, one edge of an interrupt or reset at any clock; three bytes over a serial port of 41 clocks a bit, sent with 40, 41 or 43, with and without gaps, at 4 speeds; 21 timeouts of a timer | instructions agree with the emulator's, but for what is listed below; bytes come and go once and in order and interrupts of the timer go on, whatever the speed |
| `fpga_pull` | one instruction and a PLA | expected violation: see below |
| `fpga_chroni` | 9 lists, three geometries and clock ratios (4:1, 5:2 and 2:3) | the monitor shows the list in every scanline; frames go on |
| `cores` | see below | the Z80's shortcuts change nothing and its programs go on after any interrupt; the AY-3-8910 sounds as if ticked; the monitor stops where it was asked to and lists what runs |
| `mame_devices` | 3 timers, 5 operations of programs and callbacks, times up to 5, a slop of 1; 2 Pokeys, 4 songs, 3 calls of 3 samples, a write before, between or after them | no timer is lost, the list stays sorted, each timer is called when it was asked for; the loop ends; the Pokeys sound as if clocked |

The bounds are the least that let the interesting cases happen. In
`storage_port` three byte values are enough to tell two commands, an answer and
left-over bytes apart, and the buffers are small enough to be filled. A ring of
three buffers is what the program has, and four frames take it round with the
main thread one and two frames behind; the theorems hold for any number. A frame of eight scanlines has a border
above and below, an interrupt line on the first, the last and no scanline of the
picture, and on the one that starts the blank. The porch of 20 cycles and the
slices are the program's own; with these, no slice is ever too short to be run,
so that `save_time` fires in no run: the theorem `Timekeeping` covers it. A
window of 4 by 2 wraps twice in a line of 60 pixels, in the middle of a fetch
too, and once in a section of 17 lines. A word of 8 makes `elapsed` wrap.
Files of 0 to 7 bytes end before, at and after the end of a block, and the ring
of 5 is gone round once. The geometries of `fpga_chroni` keep the porches and
line counts of `chroni_vga_modes.vh` in proportion; the last one is half of
1920x1080 with half of its time, which is what is tight there. Six accesses to
the registers of Chroni are enough to set an address in parts, write through it,
and see the increment.

In `fpga_cpu` a bit of the serial port is 41 clocks instead of 10417, so that a
byte is as long as some instructions at full speed and shorter than one at an
eighth; the five clocks of the filter of the start bit are kept, which makes
the sampling late by an eighth of a bit and is why the other end is not let
differ by more than two clocks. The ring has 3 places, so that three bytes take it
round; it is not made to overflow, since the port has no answer to that. `timer`
counts three timeouts of 21 different lengths, so that they fall in every part of
the handler and of the loop that waits.

In `cores`: the Z80 waits in seven kinds of loop and runs ten programs (block
moves, digits, index registers, calls, delays), in three slices of 7, 30, 45 or
150 cycles with one or two changes of its lines between them; the arithmetic has
every accumulator with 25 words made of the bytes at a limit; the listing has all
1792 opcodes. The
AY-3-8910 has two operations after a song: registers written, ports read, and
updates of two samples of 48 ticks, enough for the envelope to go through its
shape more than once. The monitor has two
breakpoints, two commands that change something and two addresses to type, with a
program that calls and one that waits; two events are an interrupt line that
moves or an NMI. Its listing has all opcodes with 3 operands and 2 indexes.

In `mame_devices` three timers, one of which refreshes, are first, in the middle and
last in the list, and run out of free ones. Five operations are enough to put a timer
behind another, take that away and add one more in the same slice, which is what
makes a timer late; with three, none ever was. A time of 5 has a second slice after
that one. The Pokeys have a silent song and three that between them use fast, tied,
noisy and loud channels and one that is only a volume; one write of thirty falls
before, between or after three calls, each in the middle of the periods of some channels.
`SampNMax` is that of the 1.79 MHz clock at 44100 Hz, so the three samples of a call
end at three different fractions of a clock.

`CHECK_DEADLOCK FALSE` stands where the system may stop: the driver may wait for
ever, a program has ended, the bounds of frames, reads and events are reached, or
the window is closed.

### Violations

- `EveryCommandAnswered`: `processor_thread_function` clears
  `process_command_enable` after `process_command` has set `STATUS_DONE`
  (`storage.c:446`). A driver fast enough to send and proceed the next command in
  between has its request cleared, and polls for ever. `storage.asm:157-160` takes
  an answer for granted. `OnlyALostProceedHangs` shows that nothing else can hang
  the driver.
- `PullsTakeWhatWasPushed`: PLA should take the byte from the stack
  (`m6502_microcode.txt:53`); it goes through the ALU with the operation of the
  instruction before (`m6502_cpu.v:952`), so that after an INC it is one more.

### Other differences

Met while reading or in exploratory runs. The models have them as the code does;
no run states the opposite.

Storage and drawing:
- `cmd_close_dir` frees the entries but not the slot (`storage.c:415`), so that
  directories run out although none is open (`asm/fileops.md:88`).
- Text without a scroll window is drawn with the fine position of the last window
  (`chroni.c:503`), so a score above a scrolled playfield moves with it
  (`chroni.md:292`, `chroni.md:307`).
- Bit 0 of the mode of a listing should skip hidden files (`storage.asm:4`);
  `storage.c:296` skips them when it is clear and lists them when it is set. `Kept`, and
  `ListingIsOrdered` with it, is what the code does.
- SIZE should be the count of the bytes read, or 0 with an error (`storage.asm:203`).
  When a sector is refused, at the end of the file, the block read returns without
  touching it (`storage.asm:226-230`), and it is what was left to read.
  `ReadsWhatWasAsked` says so.
- Opening a directory that does not exist answers success; a blank section of a
  display list lasts to the end of the frame (`chroni.c:802`); the border test
  lets through 241 lines.

Serial link: the emulator waits while exactly one byte is in the FIFO, the tool
while any is. When the emulator asks for the next block before the tool has seen
its last byte taken, both wait (`serial.c:124`); `OnlyCrossedRequestsHang` shows
that this is the only way to hang.

The FPGA's 6502 against its own microcode notes (left out of `InstructionsAgree`),
besides the violation above:
- CMP, CPX and CPY should set the carry (`m6502_microcode.txt:75-78`), for which the ALU
  has a case (`m6502_alu.v:108`) that the operation never selects: its branch leaves
  `op_post` at OP_UPDATE (`m6502_alu.v:43`), and the carry stays as it was;
- a shift in memory should store its result there (`m6502_microcode.txt:46-47`); it
  also ends up in A (`m6502_cpu.v:428`).

The FPGA's 6502 beside the emulator's (`Hardware...` in `FpgaCpuRun`):
- indexed zero page addresses and the pointers in it do not wrap to page zero; the
  indirect jump does cross a page, where the emulator wraps;
- shifts of `abs,X` are indexed with Y (left out of `InstructionsAgree`);
- ADC and SBC ignore decimal mode, and their overflow is wrong for two negatives;
- JSR pushes the address of the next instruction and RTS adds nothing; BRK pushes
  the address of the BRK plus 2 (the emulator: plus 1) and clears D, as
  interrupts do; the pushed status lacks bit 5;
- reset leaves the interrupt flag as it was.

The FPGA's system:
- the 6502 sees an edge of its IRQ line, and the line is the OR of all timers
  (`system.v:305`): a timer that is due before another is acknowledged keeps the
  line low, and no timer interrupts again (an exploratory run with two timers);
- a timeout in the clock of an acknowledge is lost (`timer.v:55`);
- the transmitter is ready again half a stop bit early: it counts the start of the
  bit, and the idle line makes up for it.

The FPGA's Chroni beside the emulator's:
- tiles below text in a frame are stored as characters
  (`chroni_line_buffer.v:49`), and an unscrolled section after a scrolled one uses
  the window and the fine position it left, across frames too: such lists are not
  in the run;
- attributes of a scrolled line start over once, then go on; text windows of odd
  width are not drawn right; the tile generator fetches one tile too many, and a fine
  scrolled line of full width shows a part of a column that its buffer has no word
  for;
- a count of 0 is 256 lines (the emulator: 65536); a blank section does move on;
- `status_chroni_enabled` and the scanline interrupt register are unused.

Their registers:
- decrement of the address (`$03`) increments in the emulator, which tests bit 0
  first (`chroni.c:142`);
- reads of `$06` to `$09` in the emulator see the address one up, and with its
  high bits masked;
- a write to the auxiliary data register at an even address changes both bytes of
  the word in the FPGA, which has neither a data register to read nor an auto
  increment of one;
- the FPGA stores a palette entry in the clock after its second byte.

The Z80 (selected by no configuration):
- the shortcut for loops that count BC, DE or HL down charges 6 cycles a round too
  little, so that programs with one are compared for what they compute, not for
  when;
- interrupt mode 0 with anything but a call or a jump charges the cycles of the
  restart; `DD 64` and `DD 6D` do not count in R, where their `FD` twins do;
- the listing of `FD CB` adds the offset to the address of the listing, where that
  of `DD CB` names the index register;
- `z80_reset` clears the callback for interrupts with the rest of the state.

The sound chips and MAME's timers (no one calls the last two):
- two Pokeys at full volume pass 16 bits, although a comment in `pokey.c` shrinks
  the gain for that; a channel that is silent or only a volume toggles after $7FFFFFFF
  clocks; in its first call the second chip plays a sample more than the first, and from
  then on up to a clock more or less in each, which nothing makes up for;
- reading a port of the AY-3-8910 overwrites its register also when the port is an
  output; the counter of the envelope is a signed char and overflows with samples
  of 160 updates or more;
- the loop over the timers does not end when only disabled ones that are overdue
  are left, and follows a null pointer when the list runs empty; a permanent timer
  removed in its own callback is linked twice (`OwnTimer` leaves this out);
- `timer_enable` does not end the slice when the timer it enables is now the first
  (`mame_timer.c:522`), so that it is called late;
- the end of a slice stays where it is when the first timer is removed, disabled or put
  off. A disabled timer that has become the first then keeps one that is set for an earlier
  time than the end from being first (`mame_timer.c:172` compares with its time all the same),
  and that one is called late; so is, by a slop or two, one behind an enabled timer
  (`disturbed` stands for this and for the enabling).

The monitor:
- a jump to the instruction itself is not reported (`cpu.c:170`), so that `JMP *`
  is never stopped or stepped;
- after `r pc` at a prompt that was opened in a jump, `s` opens the prompt again
  before anything runs;
- an unknown name in `r` sets the register of the last `r`; breakpoints are listed
  in decimal and deleted in hexadecimal;
- a finish of a subroutine stops at an RTS or RTI with the same stack pointer,
  not after it; the prompt reads memory with the side effects of the registers;
- the listing takes `JMP ($xxFF)` over the page, and names the base address of
  indexed modes.

## Fairness

Weak fairness of each thread, because the host schedules its threads; never of a
choice within a thread, of the guest's stores, of the closing of the window, or of
SDL succeeding. `loading` has the serial thread, the loader and the tool; the
block read in it is sequential, and so is the loop of the timers in `mame_devices`
(fairness of its turns, of nothing that calls it).
`interrupts` has only the emulator thread. In `fpga_cpu` and
`fpga_chroni` clocks go on (weak fairness of the whole step, no more: the two
clocks of `fpga_chroni` are kept together by `lead`).
`FramesAreCounted` asks in its premise for interrupts that stay enabled, and
`TimersInterrupt` for a timer and an interrupt flag that stay as they are: the
guest decides on both.

## What is proved

TLAPS checks these for all values of the constants; the assumptions are the
`ASSUME`s of the modules, which the runs evaluate for their values.

**`StoragePort_proofs`.** Assumed: no command begins another, commands and
answers fit their buffers, what a command leaves in place of itself is bytes. The invariant has four parts besides the types.
`Turn` says who may move, and is where the handshake lives: away from the polling
of the status the thread rests or is about to clear the flag. `CommandBuffer` and
`AnswerBuffer` say what the shared buffers and indexes hold in each of the
driver's positions; they are needed because `DecodesWhatWasSent` only speaks of
the moment of the switch, and `ReplyIsAnswer` of bytes already read. From it:
`TypeCorrect`, `NoRace`, `CommandCorrect`, `ReplyCorrect`, and `Refinement`
(`Spec => ImplementsService`), whose step maps the driver's sending to one step
of the service and the thread's statements to stutters, but for the switch.

**`Frontend_proofs`, the screen buffers.** Assumed: at least three buffers. `Positions` relates
the posted buffer, the one the emulator writes and the one the surface points
into: the surface is at most one post behind, so with three buffers the emulator
is never in it. `Frames` says which frame each of them holds. From it:
`DrawnBufferStable`, `PostedBufferWhole` and `Refinement` to `VideoOut`. With two
buffers the invariant fails, as it should.

**`Machine_proofs`.** Assumed: a porch is at least `MIN_CYCLES` longer than an
instruction can pass its slice, and there is an interrupt line 0. `Clock` makes
the history variable the difference of the two counters, from which `Timekeeping`
follows for slices of any length. `StatusNamesCause` is why `NmiDispatch` holds:
after the front porch the status names the cause of the NMI, and `PorchIsRun`
shows that the handler reads it in that slice, before the next back porch changes
it.

**`Frontend_proofs`, both kinds of buffers.** Assumed: at least three frame buffers, and sound buffers
with room for a chunk and for two frames. `FrontendHasScreenBuffers` says that the composition
refines its screen buffers, which carries over their three theorems. For the
sound, `Pace` ties the chunks mixed to the frame
that is emulated: none is left out or mixed ahead. `Sided` says which of the two
buffers each thread works on and that the other one is empty unless the main
thread holds it. `Contents` says that what was queued, what the main thread
holds and what the active buffer holds are consecutive chunks. These two hold until
a buffer is handed over in the middle of a mix (`raced`), which is the condition of
`SoundIsInOrder`. That a buffer does not fill up cannot rest on them, since it is
claimed after a race too: `Emptied` says, of each buffer by itself, that it is empty
until it is active again unless it is in `undone`; and `Room` that, once active, it holds
no more than was produced since, which is what belongs to the frame that waits for the
screen and to the one that is emulated (`Left` counts the frames whose sound the
buffer has nothing of, `Put` the chunks that may be in it). From these:
`TwoFramesOfSoundAreEnough`, for any number of races.

**`StorageCommands_proofs`.** Assumed: there are slots and streams, a sector has
bytes, `NULL` is no stream, and no directory has a name twice. `SlotsHoldOpenStreams`
is nearly inductive by itself; `StreamsAreRead` adds that an open stream has not moved
past the bytes it reads, without which a read could answer fewer bytes than it moves
by. From it: `SlotsHoldOpen`, and as action properties `ReadsMove`, which also leaves
every other stream where it was, and `HandlesStay`.
The last rests on the first: a close frees the stream of its
own slot only because no two slots hold the same one. `ListingsAreOrdered` says of
listings of any length that a guest gets the entries the code keeps, all of them, and in order.
It is about the recursive function that picks the entries (`Picked`): `PicksExist` and
`PickedInOrder` each take the least position that would not fit, which is how
induction over the listing is done without the induction theorems.

**`Chroni_proofs`, the display list.** Assumed: a list is not empty, ends with an END, and its
instructions are made of bytes, with windows that contain their own position.
`InEffect` says that the registers are those of an instruction that is in effect
and `dl_pos` is behind it. `ScanlinesAreCounted` balances the books of a frame:
the scanlines so far with what the current section still has are the sum of what
the list gives to all sections up to it; the sums are a recursive function,
whose defining equation is proved from the least length that would have none.
`RowIsOfTheLine` has `row`, `dl_row_wrap` and
`dl_mode_scanline` as quotients and remainders of the number of lines drawn, which
stays true although a disabled Chroni takes scanlines and draws nothing.
Its bound on `drawn` is why no counter of 16 bits wraps within a section. From it:
`SectionsKeepLines` and the half of `LinesFollow` about rows. The half about
columns is about one line: `UnitsStartOver` says what the loops of the drawing
routines have fetched after any number of turns, and again takes the least turn
that would not. They are theorems of `DisplayList`, and `ListIsDrawn` is that
`Chroni` implements it.

**`Chroni_proofs`, the registers.** Assumed: a store goes to one of the registers
with a byte, nothing else; the number of accesses is any. `MachinesAgree` speaks of memories, so
it needs to be told that the addresses are the same: `PointersAgree` has every
field that is not `apart`, by itself, because a pointer is set in parts. That a
store leaves the same in the fields it replaces, and the others as they were, is `SameFields`:
masks and shifts against bit ranges, on the sums of the four fields. That fields which agree
make the same address is `SamePointer`. `EntriesAgree` ties the palette's half-written
entry to the states of the FPGA, and says that a complete entry only waits
while `cpu_wr_en` is high: an access is its rising edge, so the entry is
always written before the next one (`NoEntryWaits`). Without it a store could take the place of the
write of an entry. From these: `RegistersAgree`.

**`Loading_proofs`.** Assumed: a sector has bytes, as many as the base of the two
bytes of `SIZE` (which `StorageBlock` takes to be one number); a block of the upload
has at most 253 bytes of the file, and the ring of the emulator has room for a block. For the block read,
`DiskInv` adds up what was read and what is left of `SIZE`, and says that `dest`
holds the bytes between the two positions of the stream: `BlockReadIsWhole`, which says of
SIZE that it is their count when the call succeeds and what was left when it fails. For
the upload, `Turns` is the protocol that no code states: either nobody uses the
link (`Idle`), or the request is in the FIFO (`Asking`), or the tool has it
(`Answering`), or a block is under way (`Coming`). What holds back each end is a
different thing in each of these, so an invariant without this distinction is not
inductive. `BytesUnderWay` says where each byte of the block is: in the memory of
the machine, in the ring or in the FIFO, in this order. `BlockInMemory` says that
the rest of a block that was read to its end is what follows in the file, and that
after a block that does not end the file the tool will answer again. Together they
are inductive: the loader asks only when the ring is empty, so a byte is never
stored over one that was not read. From it: `UploadIsWhole`. It also holds when a
request has crossed the tool's wait: the machine then hangs, but with no wrong byte.

**`Timers`.** Assumed: at least one step in a scanline. `Quietness` says that two
scanlines after the last expiry nothing is pending; `StrayInterrupts` follows for
any number of timers, although each of them may be set, enabled or acknowledged
at any instruction.

**`MameDevices_proofs`, the timers.** Assumed: no time that is asked for comes near `TIME_NEVER`, and
no program frees the tag of the timer that refreshes. `TimersKeep` states
`TimersKeepTheirTime` for any number of timers. Its parts are not inductive alone.
`Consistent` keeps `NoneLost` and `Sorted` together with two facts: the refreshing timer
stays in the list, so that there is always a first one, and a timer expires in the
time of the world at what was asked, or never. `CallbackTimer` says what a callback may
have done to its own timer by the time the loop goes on: removed it only if it is temporary,
and given it another time only if `callback_timer_modified` says so. `Punctual` is why
nobody is late: the slice ends before the first timer, and the loop before it began
left none that is overdue. `InsertedInOrder` and the lemmas on `Without` say
what the list has after a timer is put in or any are taken out, by least counterexample.
`Punctual` was first tried for each timer that had not itself been enabled without a new
time; that is not inductive, because one that becomes first in that way delays those
set after it, and TLC found the state with five operations.

**`MameDevices_proofs`, the Pokeys.** Assumed: a call has samples, and a write goes to one of
16 registers with a byte. `PokeysSound` states `SoundsAsClocked` for any songs and writes,
any noise, any clock, and calls of any number and length. The plain chip is ahead of the
other by up to an event, so an invariant has to say what the other would be by then.
`CountersAgree` does: a channel is as far as the plain one but for the clocks between them,
or is due and has been reloaded there already. That the reload comes out the same is
`PolynomialsFit` (a polynomial's counter with `Poly_adjust` is the clock, modulo its size),
and that nothing was passed over on the way is `AheadInTime`. `PeriodsFit` says that each channel
has the period its registers give, although a write works out some channels only: what a write
leaves out has not changed (`MaskCovers`). `OutputFits` says that the output that was
followed change by change is the sum of the channels, and a byte, so that nothing is clipped;
`BuffersFit` and `SoundIsSame` carry it through the buffers to the mix. `PaceFits` keeps the books
of `Samp_n_cnt`: what a chip has played in a call is what its samples take, but for what the counter held
before and holds now, and the counter stays in 0 to 255 above a sample's clocks whenever one is due. Two
statements were false as first written. That the chips stay within a clock of each other over all
calls holds in short runs only, as the differences of a clock add up; `ChipsKeepPace`
is about one call. And the invariant was not inductive at a channel that does not
count, which comes to its end in the end: hence `overslept`.

Only model-checked: the processor of the FPGA, the Z80 and the AY-3-8910, which use
recursive operators or the bit operators that the prover does not have;
the monitor, which is built on the same 6502;
the Chroni of the FPGA, whose invariant would have to say for every clock of two
domains what is in each stage on the way to the monitor, and is not attempted; all
liveness (fairness and ENABLED are out of the prover's reach); what the other recursive
functions compute (no induction over data but by a least counterexample, as above).

The types of `StoragePort` and `Machine`, and `PostedIsWhole` of the screen buffers, are
proved and no longer checked by a run.

## Not modelled

Real time: `usleep` is a step that changes nothing. Reordering by the hardware:
the loads and stores are those of an x86. Start-up and shut-down beyond the
closing of the window. The guest's programs, except its drivers.

- Keyboard: two threads on a bit for each key and the code of the last one
  (`keyboard.c:152`: any key that goes up clears it); the table of scan codes is
  read one past its end (`keyboard.c:125`).
- The source listing of the monitor, its dumps and displays, the prompt while the
  window closes, and the loader of xex files (`utils.c`).
- The daisy chain of the Z80, the YM chips that share `ay8910.c`, their volumes and
  streams, FM synthesis and the mixer: arithmetic, or called by nothing.
- On the FPGA: the cache and controller of the SDRAM (a test bench, and another
  project's), the buttons and digits of the board, the key of the video mode, the
  sync pulses and interrupts of Chroni.
- In Chroni: sprites, colours, the narrow screen, modes 6 to 14 (the tables are read
  past their ends, `chroni.c:809`).

Hazards that are not in `PROJECT.json` because nothing models them: an interrupt
scanline of 240, whose interrupt is lost in the blank (`chroni.c:771`); a timer
index stored by a handler between two stores of a program (`system.c:26`) and
VSTATUS changed by both (`interrupts.asm:73`); the frame buffers freed while the
emulator thread may copy into one (`frontend.c:225`); the fast path of the SDRAM
cache after a write that missed (`cache.v:138`).

## Plan

What is left, in the order of what it would show:

1. `Chroni` of the FPGA on the bus of `FpgaCpuRun`, with its interrupts and the key
   of the video mode.
2. `Keyboard`, the key bits and the last key between two threads.
3. `SdramCache` against a plain memory.
