------------------------------ MODULE Processor -------------------------------
(* The branching processor of lab01: components that see nothing of one       *)
(* another but the buses between their pins, and a control unit that clocks   *)
(* them one after the other. A bus is named for the variable that holds it in *)
(* Processor.                                                                 *)
EXTENDS Integers, Sequences, FiniteSets, Bitwise

CONSTANTS
    Width,      \* of a register and a bus: 32 in the code
    Depth,      \* INSTRUCTION_STORE_DEPTH
    MaxTime,    \* MAX_EXECUTE_TIME
    Behind,     \* what may lie in memory behind the instruction store
    Inputs      \* what the processor is run with: the lines of two files

ASSUME ProcessorAssumption ==
    /\ Width \in 14 .. 30 /\ Depth \in Nat \ {0} /\ MaxTime \in Nat \ {0, 1}
    /\ Behind \subseteq 0 .. 2 ^ Width - 1

VARIABLES
    input,          \* the files
    imemory,        \* is->imemory
    rfmem,          \* rf->rfmem
    bus,
    unit,           \* the component whose turn it is; "done" when run returns
    t

processorVars == <<input, imemory, rfmem, bus, unit, t>>

Word == 2 ^ Width
NUM_REGISTERS == 8
NoNumber == -1      \* on a line
DONE == 15
BNZ == 10

-----------------------------------------------------------------------------
(* What the components do *)

\* The files hold a number or something else on a line, which is skipped.
Load(lines, size) ==
    LET values == SelectSeq(lines, LAMBDA l : l # NoNumber)
    IN  [slot \in 0 .. size - 1 |-> IF slot < Len(values) THEN values[slot + 1] ELSE 0]

\* Takes the negative for it.
inverse_by_sign(A) == (Word - A) % Word

inverse(A) == Word - 1 - A

alu(op, A, B) ==
    LET mask == IF A >= Word \div 2 THEN Word \div 2 ELSE 0
    IN  CASE op = 0 -> (A + B) % Word
          [] op = 1 -> inverse(A)
          [] op = 2 -> (A - B) % Word
          [] op = 3 -> A ^^ B
          [] op = 4 -> A | B
          [] op = 5 -> (A + 1) % Word
          [] op = 8 -> A & B
          [] op = 11 -> (A \div 2) | mask
          [] op = 12 -> A \div 2
          [] op \in {13, 14} -> (2 * A) % Word
          [] OTHER -> 0

Bits(instr, position, size) == (instr \div 2 ^ position) % 2 ^ size

-----------------------------------------------------------------------------
(* clock(), a component at a time *)

\* The result is written before it has been computed.
clocked_early == [ifetch |-> "idecode", idecode |-> "rf_read", rf_read |-> "branch_test",
                  branch_test |-> "rf_write", rf_write |-> "alu_eval", alu_eval |-> "nextPC"]

clocked == [ifetch |-> "idecode", idecode |-> "rf_read", rf_read |-> "branch_test",
            branch_test |-> "alu_eval", alu_eval |-> "rf_write", rf_write |-> "nextPC"]

Clock(u) == unit = u /\ unit' = clocked[u] /\ UNCHANGED <<input, imemory, t>>

\* The array is read at the address on the bus, whatever that is.
ifetch == /\ Clock("ifetch")
          /\ \E instr \in (IF bus.pc < Depth THEN {imemory[bus.pc]} ELSE Behind) :
                 bus' = [bus EXCEPT !.instr = instr]
          /\ UNCHANGED rfmem

idecode == /\ Clock("idecode")
           /\ bus' = [bus EXCEPT !.aluop = Bits(bus.instr, 10, 4),
                                 !.write = Bits(bus.instr, 9, 1),
                                 !.src1 = Bits(bus.instr, 6, 3),
                                 !.src2 = Bits(bus.instr, 3, 3),
                                 !.dst = Bits(bus.instr, 0, 3),
                                 !.branch_addr = Bits(bus.instr, 0, 6)]
           /\ UNCHANGED rfmem

rf_read == /\ Clock("rf_read")
           /\ bus' = [bus EXCEPT !.rf1 = rfmem[bus.src1], !.rf2 = rfmem[bus.src2]]
           /\ UNCHANGED rfmem

branch_test == /\ Clock("branch_test")
               /\ bus' = [bus EXCEPT !.branch = IF bus.aluop = BNZ /\ bus.rf1 # 0 THEN 1 ELSE 0]
               /\ UNCHANGED rfmem

alu_eval == /\ Clock("alu_eval")
            /\ bus' = [bus EXCEPT !.aluout = alu(bus.aluop, bus.rf1, bus.rf2)]
            /\ UNCHANGED rfmem

rf_write == /\ Clock("rf_write")
            /\ rfmem' = IF bus.write = 1 THEN [rfmem EXCEPT ![bus.dst] = bus.aluout] ELSE rfmem
            /\ UNCHANGED bus

next_pc == IF bus.branch = 1 THEN bus.branch_addr ELSE bus.pc + 1

\* And the end of the loop in run(): DONE has been executed, or the time is up.
nextPC == /\ unit = "nextPC"
          /\ bus' = [bus EXCEPT !.pc = next_pc]
          /\ t' = IF bus.aluop = DONE THEN t ELSE t + 1
          /\ unit' = IF bus.aluop = DONE \/ t + 1 = MaxTime THEN "done" ELSE "ifetch"
          /\ UNCHANGED <<input, imemory, rfmem>>

\* build_processor, and main up to run. Buses come from malloc: only pc is set.
ProcessorInit ==
    /\ input \in Inputs
    /\ imemory = Load(input.instructions, Depth)
    /\ rfmem = Load(input.registers, NUM_REGISTERS)
    /\ \E v \in Behind : bus = [pc |-> 0, instr |-> v, aluop |-> v, write |-> v, src1 |-> v,
           src2 |-> v, dst |-> v, rf1 |-> v, rf2 |-> v, aluout |-> v, branch |-> v, branch_addr |-> v]
    /\ unit = "ifetch"
    /\ t = 1

ProcessorNext == ifetch \/ idecode \/ rf_read \/ branch_test \/ alu_eval \/ rf_write \/ nextPC

ProcessorSpec == ProcessorInit /\ [][ProcessorNext]_processorVars

-----------------------------------------------------------------------------
(* Properties *)

\* When the registers have been written the instruction has been executed, though pc is to come.
Written == unit = "nextPC"
Over == unit = "done" \/ (Written /\ (bus.aluop = DONE \/ t + 1 = MaxTime))

Programs == INSTANCE InstructionSet WITH
    memory <- imemory,
    regs <- rfmem,
    pc <- IF Written THEN next_pc ELSE bus.pc,
    time <- IF Written /\ bus.aluop # DONE THEN t + 1 ELSE t,
    status <- IF ~Over THEN "running" ELSE IF bus.aluop = DONE THEN "terminated" ELSE "timeout"

(* The components, clocked in this order, execute the instruction set: no one *)
(* of them uses what a pin still has from the cycle before. A branch tests    *)
(* the register as it was read, and the last instruction still writes.        *)
IsInstructionSet == Programs!Spec

(* The programs that come with the processor compute what their comments say: *)
(* ifib leaves a Fibonacci number in R2, and the divider leaves quotient and  *)
(* remainder in R6 and R7, with the divisor as it was.                        *)
ProgramsCompute ==
    unit = "done" /\ bus.aluop = DONE =>
        LET in == input.registers
            Fib[n \in Nat] == IF n < 2 THEN 1 ELSE Fib[n - 1] + Fib[n - 2]
        IN  /\ input.name = "ifib" => rfmem[2] = Fib[in[2]]
            /\ input.name = "divider" => /\ rfmem[6] = in[1] \div in[2]
                                         /\ rfmem[7] = in[1] % in[2]
                                         /\ rfmem[1] = in[2]
=============================================================================
