---------------------------- MODULE InstructionSet ----------------------------
(* What a program of the branching processor of lab01 means: an instruction   *)
(* is one step, without buses and components.                                 *)
EXTENDS Integers, FiniteSetsExt

CONSTANTS
    Width,              \* of a register
    Depth,              \* INSTRUCTION_STORE_DEPTH
    Behind,             \* what may lie in memory behind the instruction store
    MaxTime             \* MAX_EXECUTE_TIME

VARIABLES memory, pc, regs, time, status

vars == <<memory, pc, regs, time, status>>

Field(w, position, size) == (w \div 2 ^ position) % 2 ^ size

\* The bits of a and b that are one in both.
Both(a, b) == SumSet({2 ^ i : i \in {j \in 0 .. Width - 1 : Field(a, j, 1) + Field(b, j, 1) = 2}})

\* The number a stands for in two's complement.
Signed(a) == IF 2 * a < 2 ^ Width THEN a ELSE a - 2 ^ Width

\* What an operation makes of two operands, in numbers; SLA and SLL double.
Result(op, a, b) ==
    CASE op = 0 -> a + b
      [] op = 1 -> -a - 1
      [] op = 2 -> a - b
      [] op = 3 -> a + b - 2 * Both(a, b)
      [] op = 4 -> a + b - Both(a, b)
      [] op = 5 -> a + 1
      [] op = 8 -> Both(a, b)
      [] op = 11 -> Signed(a) \div 2
      [] op = 12 -> a \div 2
      [] op \in {13, 14} -> 2 * a
      [] OTHER -> 0

Fetched == IF pc < Depth THEN {memory[pc]} ELSE Behind

\* A branch looks at its first operand as it was before the instruction wrote.
Execute(w) ==
    LET op == Field(w, 10, 4)
        a == regs[Field(w, 6, 3)]
        b == regs[Field(w, 3, 3)]
    IN  /\ regs' = IF Field(w, 9, 1) = 1 THEN [regs EXCEPT ![Field(w, 0, 3)] = Result(op, a, b) % 2 ^ Width]
                  ELSE regs
        /\ pc' = IF op = 10 /\ a # 0 THEN Field(w, 0, 6) ELSE pc + 1
        /\ time' = IF op = 15 THEN time ELSE time + 1
        /\ status' = IF op = 15 THEN "terminated" ELSE IF time + 1 = MaxTime THEN "timeout" ELSE "running"

Init == /\ pc = 0
        /\ time = 1
        /\ status = "running"

Next == /\ status = "running"
        /\ \E w \in Fetched : Execute(w)
        /\ UNCHANGED memory

Spec == Init /\ [][Next]_vars
=============================================================================
