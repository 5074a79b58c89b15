------------------------------- MODULE FpgaCpu ------------------------------
(***************************************************************************)
(* The 6502 of the FPGA (rtl/common/m6502), clock by clock.  The design is *)
(* a set of always blocks that all run at each clock edge: the registers   *)
(* of a block are the fields of one variable, and an operator named for    *)
(* the block gives their next values from the values before the edge.  In  *)
(* such a value the part on the left of @@ is the later assignment of the  *)
(* source, which wins.                                                     *)
(***************************************************************************)
EXTENDS M6502, Sequences

CONSTANT SignedOffset   (* what synthesis makes of `$signed(reg_m) : 1'b0` *)

ASSUME FpgaCpuAssumption == SignedOffset \in BOOLEAN

VARIABLES
  reset_n, irq_n, nmi_n,  (* the inputs                                      *)
  interrupts,             (* cpu_interrupts and the edge detectors           *)
  fetch,                  (* cpu_fetch                                       *)
  decode,                 (* cpu_decode                                      *)
  mode,                   (* cpu_set_addr_mode                               *)
  misc,                   (* exec_misc_ops                                   *)
  bus,                    (* bus_access                                      *)
  load,                   (* cpu_load_store_decode                           *)
  stack,                  (* stack_ops                                       *)
  alu,                    (* m6502_alu                                       *)
  board                   (* the bus of system.v: clk_en, ready, and what    *)
                          (* the memories and registers put out              *)

cpuVars == <<interrupts, fetch, decode, mode, misc, bus, load, stack, alu>>

RST_VEC == 65532
Unchanged == [r \in {} |-> 0]   (* a block that assigns nothing *)
If(condition, values) == IF condition THEN values ELSE Unchanged
Inc(v, k) == (v + k) % 65536

\* Registers are zero when the FPGA has been configured.
Init ==
  /\ reset_n = FALSE /\ irq_n = TRUE /\ nmi_n = TRUE
  /\ interrupts = [irq_prev |-> TRUE, nmi_prev |-> TRUE, pending_irq |-> FALSE,
                   pending_nmi |-> FALSE]
  /\ fetch = [state |-> "WAIT", cpu_reset |-> FALSE, rd_req |-> FALSE, rd_addr |-> 0,
              hold |-> FALSE, irq_ack |-> FALSE, nmi_ack |-> FALSE, cpu_irq |-> FALSE,
              cpu_nmi |-> FALSE, reg_i |-> 0, pc_op |-> 0]
  /\ decode = [op |-> "NOP", prepare |-> "IDLE", do |-> "NOTHING", branch |-> 0,
               single |-> FALSE, inst_done |-> FALSE, pc |-> 0, a |-> 0, x |-> 0,
               y |-> 0, write |-> 0, wait_for_reset |-> FALSE]
  /\ mode = [now |-> "IDLE", use_a |-> FALSE, finish |-> FALSE, pc_delta |-> 0,
             ndx |-> 0, ndx_pre |-> 0, ndx_post |-> 0, op_addr |-> 0,
             op_rd_req |-> FALSE]
  /\ misc = [flags |-> Unchanged, flag_i |-> 0, sp_next |-> 0, sp_update |-> FALSE,
             do_pop |-> FALSE, do_push |-> FALSE, do_push_back |-> FALSE,
             complete |-> FALSE, rd_req |-> FALSE, addr |-> 0, stack_state |-> "IDLE",
             stack_next |-> "IDLE", push_state |-> "IDLE", push_next |-> "IDLE",
             vector |-> "IDLE", ret_addr |-> 0, jmp_l |-> 0, jmp_h |-> 0, wr_value |-> 0]
  /\ bus = [addr |-> 0, rd_req |-> FALSE, wr_en |-> FALSE, wr_data |-> 0,
            store_complete |-> FALSE]
  /\ load = [load_store |-> "NOTHING", data_addr |-> 0, tmp_addr |-> 0, next |-> "IDLE",
             complete |-> FALSE, finish |-> FALSE, alu_proceed |-> FALSE,
             alu_wait |-> FALSE, in_a |-> 0, in_b |-> 0, alu_op |-> "NOP",
             write_from_alu |-> FALSE, do_branch |-> FALSE, reg_m |-> 0]
  /\ stack = [op_done |-> FALSE, rd_req |-> FALSE, wr_req |-> FALSE,
              finish_on_push |-> FALSE, addr |-> 0, sp |-> 0, pop_wait |-> FALSE,
              push_wait |-> FALSE, rd_value |-> 0]
  /\ alu = [proceed_prev |-> FALSE, result |-> 0, ov |-> 0, op_post |-> "NOP",
            next_c |-> 0, n |-> 0, v |-> 0, d |-> 0, z |-> 0, c |-> 0]
-----------------------------------------------------------------------------
(* The wires. *)

clk_en  == board.clk_en
alu_out == alu.result % 256
reg_sr  == 128 * alu.n + 64 * alu.v + 8 * alu.d + 4 * misc.flag_i + 2 * alu.z + alu.c
bus_rd_data ==
  CASE board.cs = "ram" -> board.ram
    [] board.cs = "sys" -> board.sys
    [] board.cs = "rom" -> board.rom
interrupted == fetch.cpu_irq \/ fetch.cpu_nmi
\* A mutant: a store does not end its instruction.
load_store_complete_ForgetsStores == load.complete \/ misc.complete
load_store_complete == load.complete \/ bus.store_complete \/ misc.complete
pending_rd_req ==
  \/ bus.rd_req \/ fetch.rd_req \/ misc.rd_req \/ mode.op_rd_req \/ stack.rd_req
  \/ load.load_store # "NOTHING"
cpu_exec == board.ready /\ ~pending_rd_req /\ fetch.state = "EXECUTE_WAIT"
-----------------------------------------------------------------------------
\* A mutant: either acknowledge clears both.
cpu_interrupts_OneAck ==
  LET ack == fetch.irq_ack \/ fetch.nmi_ack
      Pending(prev, in, pending) == reset_n /\ ~ack /\ ((prev /\ ~in) \/ pending)
  IN  [irq_prev |-> ~reset_n \/ irq_n, nmi_prev |-> ~reset_n \/ nmi_n,
       pending_irq |-> Pending(interrupts.irq_prev, irq_n, interrupts.pending_irq),
       pending_nmi |-> Pending(interrupts.nmi_prev, nmi_n, interrupts.pending_nmi)]
cpu_interrupts ==
  LET Pending(ack, prev, in, pending) == ~ack /\ ((prev /\ ~in) \/ pending)
  IN  [irq_prev |-> ~reset_n \/ irq_n, nmi_prev |-> ~reset_n \/ nmi_n,
       pending_irq |-> reset_n /\ Pending(fetch.irq_ack, interrupts.irq_prev, irq_n,
                                          interrupts.pending_irq),
       pending_nmi |-> reset_n /\ Pending(fetch.nmi_ack, interrupts.nmi_prev, nmi_n,
                                          interrupts.pending_nmi)]

cpu_fetch ==
  LET pulses == [cpu_reset |-> FALSE, rd_req |-> FALSE, hold |-> FALSE,
                 irq_ack |-> FALSE, nmi_ack |-> FALSE]
      taken == [cpu_irq |-> FALSE, cpu_nmi |-> FALSE]
      next ==
        CASE ~reset_n -> [state |-> "WAIT"]
          [] reset_n /\ fetch.state = "WAIT" -> [state |-> "RESET"]
          [] reset_n /\ fetch.state = "RESET" -> [cpu_reset |-> TRUE, state |-> "EXECUTE"]
          [] reset_n /\ fetch.state = "FETCH" ->
               If(board.ready /\ ~pending_rd_req,
                  [reg_i |-> bus_rd_data, state |-> "EXECUTE"]) @@ [hold |-> TRUE]
          [] reset_n /\ fetch.state = "EXECUTE" -> [state |-> "EXECUTE_WAIT"]
          [] reset_n /\ fetch.state = "EXECUTE_WAIT" ->
               IF ~decode.inst_done THEN Unchanged
               ELSE IF interrupts.pending_nmi
               THEN [cpu_nmi |-> TRUE, state |-> "EXECUTE", nmi_ack |-> TRUE] @@ taken
               ELSE IF interrupts.pending_irq /\ misc.flag_i = 0
               THEN [cpu_irq |-> TRUE, state |-> "EXECUTE", irq_ack |-> TRUE] @@ taken
               ELSE [rd_addr |-> decode.pc, rd_req |-> TRUE, pc_op |-> Inc(decode.pc, 1),
                     state |-> "FETCH", hold |-> TRUE] @@ taken
  IN  next @@ pulses @@ fetch

\* The instruction in reg_i, by its fields aaabbbcc.
aaa == fetch.reg_i \div 32
bbb == (fetch.reg_i \div 4) % 8
cc  == fetch.reg_i % 4
Insn(op, prepare, do) == [op |-> op, prepare |-> prepare, do |-> do]
ByRow(ops)      == ops[aaa + 1]
ByColumn(modes) == modes[bbb + 1]
LoadOrStore == IF aaa = 4 THEN "STORE" ELSE "LOAD"

DecodedControl ==
  CASE bbb = 4 -> Insn("BRANCH", "IMM", "NOTHING")
    [] bbb = 6 ->
         Insn(ByRow(<<"CLC", "SEC", "CLI", "SEI", "TYA", "CLV", "CLD", "SED">>), "SINGLE",
              "NOTHING")
    [] bbb = 2 ->
         Insn(ByRow(<<"PHP", "PLP", "PHA", "PLA", "DEY", "TAY", "INY", "INX">>), "SINGLE",
              "NOTHING")
    [] bbb = 0 /\ aaa < 4 ->
         Insn(ByRow(<<"BRK", "JSR", "RTI", "RTS">>),
              ByRow(<<"BRK", "ABS", "SINGLE", "SINGLE">>), "NOTHING")
    [] bbb = 3 /\ aaa \in {2, 3} -> Insn("JMP", IF aaa = 2 THEN "ABS" ELSE "IND_ABS", "NOTHING")
    [] OTHER ->
         Insn(ByRow(<<"", "BIT", "", "", "STY", "LDY", "CPY", "CPX">>),
              ByColumn(<<"IMM", "Z", "", "ABS", "", "Z_X", "", "ABS_X">>), LoadOrStore)

DecodedArithmetic ==
  Insn(ByRow(<<"ORA", "AND", "EOR", "ADC", "STA", "LDA", "CMP", "SBC">>),
       ByColumn(<<"IND_X", "Z", "IMM", "ABS", "IND_Y", "Z_X", "ABS_Y", "ABS_X">>), LoadOrStore)

DecodedShiftsAndX ==
  CASE aaa < 4 ->
         Insn(ByRow(<<"ASL", "ROL", "LSR", "ROR">>),
              ByColumn(<<"", "Z", "A", "ABS", "", "Z_X", "", "ABS_Y">>), "LOAD")
    [] aaa >= 4 /\ bbb = 2 -> Insn(<<"TXA", "TAX", "DEX", "NOP">>[aaa - 3], "SINGLE", "NOTHING")
    [] aaa >= 4 /\ bbb = 6 -> Insn(<<"TXS", "TSX", "NOP", "NOP">>[aaa - 3], "SINGLE", "NOTHING")
    [] OTHER ->
         Insn(<<"STX", "LDX", "DEC", "INC">>[aaa - 3],
              ByColumn(IF aaa < 6 THEN <<"IMM", "Z", "", "ABS", "", "Z_Y", "", "ABS_Y">>
                 ELSE <<"", "Z", "", "ABS", "", "Z_X", "", "ABS_X">>),
              IF bbb = 0 THEN "NOTHING" ELSE LoadOrStore)

Decoded == <<DecodedControl, DecodedArithmetic, DecodedShiftsAndX>>[cc + 1]

Singles == {"CLC", "SEC", "CLI", "SEI", "CLV", "CLD", "SED", "NOP"}

\* Where the instruction that ends leaves the ALU's output.
Target(op) ==
  CASE op \in {"ORA", "AND", "EOR", "ADC", "LDA", "SBC", "ASL", "ROL", "LSR", "ROR",
               "PLA", "TXA", "TYA"} -> [a |-> alu_out]
    [] op \in {"LDX", "TAX", "INX", "DEX", "TSX"} -> [x |-> alu_out]
    [] op \in {"LDY", "INY", "DEY", "TAY"} -> [y |-> alu_out]
    [] OTHER -> Unchanged

\* The offset of a branch is cast to a signed number, but in an expression that
\* is unsigned, as its other parts are: by the rules of Verilog it loses its sign
\* there, and a branch goes forward only.  SignedOffset is what the loops of
\* every program for the board rely on.
Offset(v) == IF SignedOffset THEN Signed(v) ELSE v
NextPc(op) ==
  CASE op = "BRANCH" ->
         Inc(decode.pc, 2 + (IF load.do_branch THEN Offset(load.reg_m) ELSE 0))
    [] op \in {"BRK", "JMP", "JSR", "RTS", "RTI"} -> Word(misc.jmp_l, misc.jmp_h)
    [] OTHER -> Inc(decode.pc, mode.pc_delta)

cpu_decode ==
  LET pulses == [prepare |-> "IDLE", inst_done |-> FALSE]
      store == CASE Decoded.op = "STY" -> [write |-> decode.y]
                 [] Decoded.op = "STA" -> [write |-> decode.a]
                 [] Decoded.op \in {"STX", "TXA", "TXS"} -> [write |-> decode.x]
                 [] OTHER -> Unchanged
      next ==
        IF ~reset_n THEN [wait_for_reset |-> FALSE]
        ELSE IF fetch.state = "EXECUTE"
        THEN (IF fetch.cpu_reset
              THEN [a |-> 0, x |-> 0, y |-> 0, op |-> "NOP", prepare |-> "RESET",
                    wait_for_reset |-> TRUE]
              ELSE IF interrupted THEN [op |-> "BRK", prepare |-> "BRK"]
              ELSE [single |-> Decoded.op \in Singles, branch |-> fetch.reg_i \div 32]
                   @@ Decoded @@ store)
             @@ [do |-> "NOTHING", single |-> FALSE]
        ELSE IF fetch.state = "EXECUTE_WAIT" /\ ~decode.inst_done /\ load_store_complete
        THEN IF decode.wait_for_reset
             THEN [pc |-> Word(misc.jmp_l, misc.jmp_h), inst_done |-> TRUE,
                   wait_for_reset |-> FALSE]
             ELSE [inst_done |-> TRUE, pc |-> NextPc(decode.op), op |-> "NOP"]
                  @@ Target(decode.op)
        ELSE Unchanged
  IN  next @@ pulses @@ decode

Indexed(prepare) ==
  CASE prepare \in {"Z", "ABS"} -> [ndx |-> 0]
    [] prepare \in {"Z_X", "ABS_X"} -> [ndx |-> decode.x]
    [] prepare \in {"Z_Y", "ABS_Y"} -> [ndx |-> decode.y]
    [] prepare = "IND_X" -> [ndx_pre |-> decode.x, ndx_post |-> 0]
    [] prepare = "IND_Y" -> [ndx_pre |-> 0, ndx_post |-> decode.y]
    [] OTHER -> Unchanged

cpu_set_addr_mode ==
  LET p == decode.prepare
      prepared ==
        CASE p \in {"A", "SINGLE", "IMM"} ->
               [now |-> IF p = "SINGLE" THEN "SINGLE" ELSE "IDLE", use_a |-> p = "A",
                pc_delta |-> IF p = "IMM" THEN 2 ELSE 1, finish |-> TRUE]
          [] p \in {"Z", "Z_X", "Z_Y"} -> [now |-> "Z", pc_delta |-> 2]
          [] p \in {"IND_X", "IND_Y"} -> [now |-> "IND_Z", pc_delta |-> 2]
          [] p \in {"ABS", "ABS_X", "ABS_Y"} -> [now |-> "ABS", pc_delta |-> 3]
          [] p = "IND_ABS" -> [now |-> "IND_ABS", pc_delta |-> 3]
          [] OTHER -> Unchanged
      request ==
        CASE p \in {"IDLE", "A", "SINGLE"} -> Unchanged
          [] p = "RESET" -> [op_addr |-> RST_VEC, op_rd_req |-> TRUE]
          [] p = "BRK" -> [op_addr |-> IF fetch.cpu_nmi THEN NMI_VEC ELSE IRQ_VEC,
                           op_rd_req |-> TRUE]
          [] OTHER -> [op_addr |-> fetch.pc_op, op_rd_req |-> TRUE]
  IN  If(cpu_exec, request @@ prepared @@ Indexed(p)
                   @@ [now |-> "IDLE", use_a |-> FALSE, finish |-> FALSE])
      @@ [op_rd_req |-> FALSE] @@ mode

\* The pushes, pops and jumps, and the instructions on flags.
StartsStackOp(op) ==
  CASE op = "RTS" -> [do_pop |-> TRUE, stack_next |-> "RTS1"]
    [] op = "RTI" -> [do_pop |-> TRUE, stack_next |-> "RTI"]
    [] op = "PLA" -> [do_pop |-> TRUE, stack_next |-> "PLA"]
    [] op = "PLP" -> [do_pop |-> TRUE, stack_next |-> "PLP"]
    [] op = "PHA" -> [do_push |-> TRUE, wr_value |-> decode.a]
    [] op = "PHP" -> [do_push |-> TRUE, wr_value |-> reg_sr + 16]
    [] op = "TXS" -> [sp_next |-> decode.x, sp_update |-> TRUE]
    [] OTHER -> Unchanged

PushesAddress ==
  IF (decode.op = "JSR" /\ load.next = "ABS") \/ (~decode.wait_for_reset /\ misc.vector = "L")
  THEN [wr_value |-> misc.ret_addr \div 256, do_push_back |-> TRUE, push_next |-> "ADDRL"]
  ELSE IF misc.push_state = "ADDRL"
  THEN LET jsr == decode.op = "JSR"
       IN  [wr_value |-> misc.ret_addr % 256, do_push |-> jsr, do_push_back |-> ~jsr,
            push_next |-> IF jsr THEN "IDLE" ELSE "SR"]
  ELSE IF misc.push_state = "SR"
  THEN [flags |-> [d |-> 0], flag_i |-> 1, do_push |-> TRUE,
        wr_value |-> reg_sr + (IF interrupted THEN 0 ELSE 16)]
  ELSE Unchanged

Pops ==
  LET v == stack.rd_value
      s == misc.stack_state
  IN  CASE s = "RTS1" -> [jmp_l |-> v, do_pop |-> TRUE, stack_next |-> "RTS2"]
        [] s = "RTS2" -> [jmp_h |-> v, complete |-> TRUE]
        [] s \in {"RTI", "PLP"} ->
             [flags |-> [n |-> Bit(v, 7), v |-> Bit(v, 6), d |-> Bit(v, 3),
                         z |-> Bit(v, 1), c |-> Bit(v, 0)], flag_i |-> Bit(v, 2)]
             @@ (IF s = "RTI" THEN [do_pop |-> TRUE, stack_next |-> "RTS1"]
                 ELSE [complete |-> TRUE])
        [] OTHER -> Unchanged

FetchesVector ==
  CASE misc.vector = "H" ->
         [jmp_l |-> bus_rd_data, rd_req |-> TRUE, vector |-> "L",
          addr |-> 1 + (IF decode.wait_for_reset THEN RST_VEC
                        ELSE IF fetch.cpu_nmi THEN NMI_VEC ELSE IRQ_VEC)]
    [] misc.vector = "L" ->
         [jmp_h |-> bus_rd_data, complete |-> decode.wait_for_reset, vector |-> "IDLE"]
    [] OTHER -> Unchanged

SetsFlag(op) ==
  CASE op = "CLI" -> [flag_i |-> 0]
    [] op = "SEI" -> [flag_i |-> 1]
    [] op \in DOMAIN FlagSets \ {"CLI", "SEI"} ->
         [flags |-> FlagSets[op][1] :> FlagSets[op][2]]
    [] OTHER -> Unchanged

exec_misc_ops ==
  LET op == decode.op
      single == decode.prepare = "SINGLE"
      pulses == [flags |-> Unchanged, do_pop |-> FALSE, do_push |-> FALSE,
                 do_push_back |-> FALSE, sp_update |-> FALSE, complete |-> FALSE,
                 rd_req |-> FALSE]
      idle == [stack_state |-> "IDLE", push_state |-> "IDLE"]
      starts == If(single, StartsStackOp(op)
                           @@ [complete |-> op = "TXS" \/ decode.single])
      vector == If(decode.prepare \in {"BRK", "RESET"}, [vector |-> "H"])
      returns == IF op = "JSR" THEN [ret_addr |-> Inc(decode.pc, 3)]
                 ELSE If(decode.prepare = "BRK",
                         [ret_addr |-> Inc(decode.pc, IF interrupted THEN 0 ELSE 2)])
      jumps == If(op \in {"JSR", "JMP"} /\ load.next \in {"ABS", "IND_ABS_DONE"},
                  [jmp_l |-> load.tmp_addr, jmp_h |-> bus_rd_data, complete |-> op = "JMP"])
      stacked == If(stack.op_done,
                    [stack_state |-> misc.stack_next, push_state |-> misc.push_next,
                     stack_next |-> "IDLE", push_next |-> "IDLE"])
  IN  (IF ~reset_n
       THEN [stack_next |-> "IDLE", push_next |-> "IDLE", vector |-> "IDLE"] @@ idle
       ELSE If(cpu_exec, stacked @@ SetsFlag(op) @@ FetchesVector @@ Pops @@ jumps
                         @@ PushesAddress @@ returns @@ vector @@ starts @@ idle))
      @@ pulses @@ misc

\* The only block, with the ALU, that does not wait for clk_en.
bus_access ==
  LET stacks == stack.rd_req \/ stack.wr_req
      stores == load.write_from_alu \/ load.load_store = "STORE"
  IN  [rd_req |-> \/ fetch.rd_req \/ misc.rd_req \/ mode.op_rd_req \/ stack.rd_req
                  \/ load.load_store = "LOAD",
       wr_en |-> stack.wr_req \/ stores,
       wr_data |-> IF stacks THEN misc.wr_value
                   ELSE IF load.write_from_alu THEN alu_out ELSE decode.write,
       store_complete |-> (stack.wr_req /\ stack.finish_on_push) \/ stores,
       addr |-> IF fetch.hold THEN fetch.rd_addr
                ELSE IF misc.rd_req THEN misc.addr
                ELSE IF mode.op_rd_req THEN mode.op_addr
                ELSE IF stacks THEN 256 + stack.addr
                ELSE IF load.load_store # "NOTHING" THEN load.data_addr ELSE bus.addr]

\* The addresses of an operand, one read after the other.
Reads ==
  LET Read(addr, next) == [data_addr |-> addr, load_store |-> "LOAD", next |-> next]
      Access(addr) == [data_addr |-> addr, load_store |-> decode.do, finish |-> TRUE]
      low == [tmp_addr |-> bus_rd_data]
      address == Word(load.tmp_addr, bus_rd_data)
  IN  (CASE load.next = "ABS" ->
              If(decode.do # "NOTHING", Access(Inc(address, mode.ndx)))
         [] load.next = "IND_ABS1" -> Read(address, "IND_ABS2")
         [] load.next = "IND_ABS2" -> low @@ Read(Inc(load.data_addr, 1), "IND_ABS_DONE")
         [] load.next = "IND_Z1" -> low @@ Read(Inc(load.data_addr, 1), "IND_Z2")
         [] load.next = "IND_Z2" -> Access(Inc(address, mode.ndx_post))
         [] OTHER -> Unchanged)
      @@ (CASE mode.now = "Z" -> Access(bus_rd_data + mode.ndx)
            [] mode.now = "ABS" -> low @@ Read(Inc(fetch.pc_op, 1), "ABS")
            [] mode.now = "IND_ABS" -> low @@ Read(Inc(fetch.pc_op, 1), "IND_ABS1")
            [] mode.now = "IND_Z" -> Read(bus_rd_data + mode.ndx_pre, "IND_Z1")
            [] OTHER -> Unchanged)

\* The inputs of the ALU; an instruction that changes memory waits for its
\* output to write it.
Computes(op) ==
  LET In(alu_op, a) == [alu_proceed |-> TRUE, alu_op |-> alu_op, in_a |-> a]
      With(b) == [in_b |-> b]
      Changes(alu_op) ==
        IF load.alu_wait THEN [write_from_alu |-> TRUE]
        ELSE [alu_wait |-> TRUE] @@ In(alu_op, bus_rd_data)
      m == bus_rd_data
  IN  CASE op \in {"AND", "ADC", "EOR", "CMP"} -> In(op, decode.a) @@ With(m)
        [] op = "ORA" -> In("OR", decode.a) @@ With(m)
        [] op = "SBC" -> In("ADC", decode.a) @@ With(255 - m)
        [] op = "CPX" -> In("CMP", decode.x) @@ With(m)
        [] op = "CPY" -> In("CMP", decode.y) @@ With(m)
        [] op = "BIT" -> In("BIT", m) @@ With(decode.a)
        [] op \in {"LDA", "LDX", "LDY"} -> In("UPDATE", m)
        [] op = "TYA" -> In("UPDATE", decode.y)
        [] op = "TXA" -> In("UPDATE", decode.x)
        [] op \in {"TAY", "TAX"} -> In("UPDATE", decode.a)
        [] op = "TSX" -> In("UPDATE", stack.sp)
        [] op = "INX" -> In("INC", decode.x)
        [] op = "INY" -> In("INC", decode.y)
        [] op = "DEX" -> In("DEC", decode.x)
        [] op = "DEY" -> In("DEC", decode.y)
        [] op \in {"ASL", "ROL", "LSR", "ROR"} ->
             IF mode.use_a THEN In(op, decode.a) ELSE Changes(op)
        [] op \in {"INC", "DEC"} -> Changes(op)
        [] op = "BRANCH" ->
             [reg_m |-> m, complete |-> TRUE,
              do_branch |-> LET flag == <<alu.n, alu.v, alu.c, alu.z>>[decode.branch \div 2 + 1]
                            IN  flag = decode.branch % 2]
        [] OTHER -> Unchanged

cpu_load_store_decode ==
  LET pulses == [alu_proceed |-> FALSE, alu_wait |-> FALSE, write_from_alu |-> FALSE,
                 do_branch |-> FALSE, load_store |-> "NOTHING"]
      computes == IF load.alu_proceed /\ ~load.alu_wait THEN [complete |-> TRUE]
                  ELSE If(mode.finish \/ load.finish \/ load.alu_wait, Computes(decode.op))
      pulled == If(misc.stack_state = "PLA", [in_a |-> stack.rd_value, alu_proceed |-> TRUE])
  IN  (IF ~reset_n THEN [next |-> "IDLE", complete |-> FALSE]
       ELSE If(cpu_exec, computes @@ pulled @@ Reads
                         @@ [complete |-> FALSE, finish |-> FALSE, next |-> "IDLE"]))
      @@ pulses @@ load

stack_ops ==
  LET pulses == [op_done |-> FALSE, rd_req |-> FALSE, wr_req |-> FALSE]
      idle == [pop_wait |-> FALSE, push_wait |-> FALSE]
      up == (stack.sp + 1) % 256
      pops == IF stack.pop_wait THEN [rd_value |-> bus_rd_data, op_done |-> TRUE]
              ELSE If(misc.do_pop, [rd_req |-> TRUE, addr |-> up, sp |-> up, pop_wait |-> TRUE])
      pushes == IF stack.push_wait THEN [op_done |-> TRUE]
                ELSE If(misc.do_push \/ misc.do_push_back,
                        [wr_req |-> TRUE, addr |-> stack.sp, sp |-> (stack.sp + 255) % 256,
                         push_wait |-> TRUE, finish_on_push |-> misc.do_push])
  IN  (IF ~reset_n THEN [sp |-> 255] @@ idle
       ELSE If(cpu_exec, If(misc.sp_update, [sp |-> misc.sp_next]) @@ pushes @@ pops @@ idle))
      @@ pulses @@ stack
-----------------------------------------------------------------------------
(* m6502_alu: it computes when `proceed` rises, and the flags follow. *)

Result(op, a, b) ==
  CASE op = "UPDATE" -> a
    [] op = "AND" -> a & b
    [] op = "OR"  -> a | b
    [] op = "EOR" -> a ^^ b
    [] op = "INC" -> a + 1
    [] op = "DEC" -> (a + 511) % 512
    [] op = "CMP" -> (a - b + 512) % 512
    [] op = "ADC" -> a + b + alu.c
    [] op = "ASL" -> 2 * a
    [] op = "LSR" -> a \div 2
    [] op = "ROL" -> 2 * (a % 128) + alu.c
    [] op = "ROR" -> 128 * alu.c + (a \div 2)
    [] op = "BIT" -> a & b
    [] OTHER -> alu.result

\* Only these operations change more flags than N and Z: not CMP, although
\* update_flags has a case for it.
Post(op, a, b) ==
  CASE op = "ADC" -> [op_post |-> "ADC", ov |-> (a % 128) + (b % 128) + alu.c]
    [] op \in {"ASL", "ROL"} -> [op_post |-> "UPDATE_C", next_c |-> Bit(a, 7)]
    [] op \in {"LSR", "ROR"} -> [op_post |-> "UPDATE_C", next_c |-> Bit(a, 0)]
    [] op = "BIT" -> [op_post |-> "BIT"]
    [] OTHER -> [op_post |-> "UPDATE"]

update_flags ==
  LET a == load.in_a
      b == load.in_b
      nz == If(alu.op_post # "NOP",
               [z |-> IF alu_out = 0 THEN 1 ELSE 0, n |-> Bit(alu_out, 7)])
      others ==
        CASE alu.op_post = "ADC" ->
               [c |-> alu.result \div 256,
                v |-> IF Bit(alu.ov, 7) = 1 /\ Bit(a, 7) = Bit(b, 7) THEN 1 ELSE 0]
          [] alu.op_post = "UPDATE_C" -> [c |-> alu.next_c]
          [] alu.op_post = "BIT" -> [n |-> Bit(a, 7), v |-> Bit(a, 6)]
          [] OTHER -> Unchanged
  IN  IF ~reset_n THEN [n |-> 0, v |-> 0, d |-> 0, z |-> 0, c |-> 0]
      ELSE others @@ nz @@ misc.flags

m6502_alu ==
  update_flags
  @@ If(load.alu_proceed /\ ~alu.proceed_prev,
        [result |-> Result(load.alu_op, load.in_a, load.in_b)]
        @@ Post(load.alu_op, load.in_a, load.in_b))
  @@ [op_post |-> "NOP", proceed_prev |-> load.alu_proceed] @@ alu
-----------------------------------------------------------------------------
\* One edge of the clock; the inputs change after it.
Clock ==
  /\ interrupts' = cpu_interrupts
  /\ fetch'  = IF clk_en THEN cpu_fetch ELSE fetch
  /\ decode' = IF clk_en THEN cpu_decode ELSE decode
  /\ mode'   = IF clk_en THEN cpu_set_addr_mode ELSE mode
  /\ misc'   = IF clk_en THEN exec_misc_ops ELSE misc
  /\ load'   = IF clk_en THEN cpu_load_store_decode ELSE load
  /\ stack'  = IF clk_en THEN stack_ops ELSE stack
  /\ bus'    = bus_access
  /\ alu'    = m6502_alu
=============================================================================
