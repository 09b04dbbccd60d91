------------------------------ MODULE Machine ------------------------------
(***************************************************************************)
(* The environment of the generated module, as far as codegen.cpp relies   *)
(* on it: LLVM's instructions, printf(), malloc() and free(), and the C    *)
(* main() of embedded_wain.hpp that calls wain().  One instruction is a    *)
(* step.                                                                   *)
(*                                                                         *)
(* An int has the values -Half .. Half - 1 and four bytes; a pointer is    *)
(* the number of a cell that can hold an int or a pointer, 0 is null.      *)
(* A cell of a variable is not used again when its call has returned; what *)
(* was freed can be, if nothing behind it is in use.  What LLVM or C leave *)
(* undefined ends the run in "undefined".                                  *)
(***************************************************************************)
EXTENDS Integers, Sequences, FiniteSetsExt, TLC

CONSTANTS
  Half,    \* 2^31
  Pairs,   \* what may be entered for wain(int, int)
  Arrays   \* what may be entered for wain(int*, int)

VARIABLES
  blocks, functions, symbols,  \* the module that was generated
  input,    \* what was entered
  calls,    \* the active calls, the latest last
  memory,   \* the contents of the cells that may be used
  objects,  \* the sizes of what is allocated, by its first cell
  output,   \* what was printed
  status,   \* "idle", "running", or how the program ended
  result    \* what wain() returned

machineVars == << input, calls, memory, objects, output, status, result >>

MachineInit ==
  /\ input = << >>
  /\ calls = << >>
  /\ memory = << >>
  /\ objects = << >>
  /\ output = << >>
  /\ status = "idle"
  /\ result = 0

-----------------------------------------------------------------------------
(* Values.                                                                 *)

\* What a cell holds that nothing was stored in: no int, no pointer.
Undef == -Half - 1

Wrap(n) == ((n + Half) % (2 * Half)) - Half

Abs(n) == IF n < 0 THEN -n ELSE n

\* The quotient is cut off towards zero.
Quotient(x, y) == (IF (x < 0) = (y < 0) THEN 1 ELSE -1) * (Abs(x) \div Abs(y))

\* One cell is left free after each object: a pointer past its end is to that.
FirstFree == 1 + Max({0} \cup { o + objects[o] : o \in DOMAIN objects })

Within(p, q) == \E o \in DOMAIN objects : {p, q} \subseteq o .. o + objects[o]

\* What an operator may give; nothing if that is undefined.
Results(op, x, y) ==
  LET If(defined, value) == IF defined THEN {value} ELSE {}
      divides == y # 0 /\ ~ (x = -Half /\ y = -1)
  IN  CASE op = "add"  -> {Wrap(x + y)}
        [] op = "sub"  -> {Wrap(x - y)}
        [] op = "mul"  -> {Wrap(x * y)}
        [] op = "sdiv" -> If(divides, Quotient(x, y))
        [] op = "srem" -> If(divides, x - y * Quotient(x, y))
        [] op = "exact sdiv" -> If(divides /\ x % Abs(y) = 0, Quotient(x, y))
        [] op = "gep"  -> If(Within(x, x + y) \/ (x = 0 /\ y = 0), x + y)
        [] op = "eq"   -> {x = y}
        [] op = "ne"   -> {x # y}
        [] op = "slt"  -> {x < y}
        [] op = "sle"  -> {x <= y}
        [] op = "sge"  -> {x >= y}
        [] op = "sgt"  -> {x > y}

Operators ==
  {"add", "sub", "mul", "sdiv", "srem", "exact sdiv", "gep", "eq", "ne", "slt", "sle", "sge", "sgt"}

-----------------------------------------------------------------------------
(* Instructions.                                                           *)

Current == calls[Len(calls)]

Instruction == blocks[Current.block].code[Current.ip]

Value(v) == IF v.reg = 0 THEN v.const ELSE Current.regs[v.reg]

Operand(n) == Value(Instruction.args[n])

Is(ops) == status = "running" /\ Instruction.op \in ops

Allocate(size, contents) ==
  /\ objects' = (FirstFree :> size) @@ objects
  /\ memory' = [c \in FirstFree .. (FirstFree + size - 1) |-> contents[c - FirstFree + 1]] @@ memory

Become(call) == calls' = [calls EXCEPT ![Len(calls)] = call]

\* The register of the instruction gets the value, and the next one is run.
Finished(call, value) ==
  LET instr == blocks[call.block].code[call.ip]
  IN  [call EXCEPT !.ip = @ + 1, !.regs = (instr.result :> value) @@ @]

Give(value) == Become(Finished(Current, value)) /\ UNCHANGED << input, status, result >>

Skip == Become([Current EXCEPT !.ip = @ + 1]) /\ UNCHANGED << input, status, result >>

Alloca == Is({"alloca"}) /\ Allocate(1, << Undef >>) /\ Give(FirstFree) /\ UNCHANGED output

\* The size is the number of bytes in 32 bits, without a sign.
Malloc ==
  /\ Is({"malloc"})
  /\ LET size == (Operand(1) % (2 * Half)) \div 4
     IN  Allocate(size, [n \in 1 .. size |-> Undef])
  /\ Give(FirstFree)
  /\ UNCHANGED output

Usable(p) == p \in DOMAIN memory

Load ==
  /\ Is({"load"})
  /\ Usable(Operand(1)) /\ memory[Operand(1)] # Undef
  /\ Give(memory[Operand(1)])
  /\ UNCHANGED << memory, objects, output >>

Store ==
  /\ Is({"store"})
  /\ Usable(Operand(2))
  /\ memory' = [memory EXCEPT ![Operand(2)] = Operand(1)]
  /\ Skip
  /\ UNCHANGED << objects, output >>

CanFree(p) == p = 0 \/ p \in DOMAIN objects

Free ==
  /\ Is({"free"})
  /\ CanFree(Operand(1))
  /\ LET gone == IF Operand(1) = 0 THEN {} ELSE Operand(1) .. (Operand(1) + objects[Operand(1)] - 1)
     IN  memory' = [c \in DOMAIN memory \ gone |-> memory[c]]
  /\ objects' = [o \in DOMAIN objects \ {Operand(1)} |-> objects[o]]
  /\ Skip
  /\ UNCHANGED output

Operate ==
  /\ Is(Operators)
  /\ \E r \in Results(Instruction.op, Operand(1), Operand(2)) : Give(r)
  /\ UNCHANGED << memory, objects, output >>

\* Of an i32 it is the value itself.
PtrToInt ==
  /\ Is({"ptrtoint"})
  /\ Give(IF Instruction.args[1].type = "i32" THEN Operand(1) ELSE Wrap(4 * Operand(1)))
  /\ UNCHANGED << memory, objects, output >>

PrintInt ==
  /\ Is({"print"})
  /\ output' = Append(output, Operand(1))
  /\ Skip
  /\ UNCHANGED << memory, objects >>

Jump ==
  /\ Is({"br", "condbr"})
  /\ LET n == IF Instruction.op = "br" \/ Operand(1) THEN 1 ELSE 2
     IN  Become([Current EXCEPT !.block = Instruction.to[n], !.ip = 1])
  /\ UNCHANGED << input, memory, objects, output, status, result >>

Activation(func, args) ==
  [block |-> func.entry, ip |-> 1, regs |-> [r \in {func.first + n : n \in DOMAIN args} |-> args[r - func.first]]]

CallFunction ==
  /\ Is({"call"})
  /\ calls' = Append(calls, Activation(functions[Instruction.name],
                                       [n \in DOMAIN Instruction.args |-> Operand(n)]))
  /\ UNCHANGED << input, memory, objects, output, status, result >>

Ret ==
  /\ Is({"ret"})
  /\ IF Len(calls) = 1
     THEN /\ calls' = << >>
          /\ status' = "exit"
          /\ result' = Operand(1)
     ELSE /\ calls' = [n \in 1 .. (Len(calls) - 1) |->
                         IF n = Len(calls) - 1 THEN Finished(calls[n], Operand(1)) ELSE calls[n]]
          /\ UNCHANGED << status, result >>
  /\ UNCHANGED << input, memory, objects, output >>

Undefined ==
  /\ \/ Is({"load"}) /\ ~ (Usable(Operand(1)) /\ memory[Operand(1)] # Undef)
     \/ Is({"store"}) /\ ~ Usable(Operand(2))
     \/ Is({"free"}) /\ ~ CanFree(Operand(1))
     \/ Is(Operators) /\ Results(Instruction.op, Operand(1), Operand(2)) = {}
  /\ status' = "undefined"
  /\ UNCHANGED << input, calls, memory, objects, output, result >>

-----------------------------------------------------------------------------
(* The C program that prog.o is linked to.                                 *)

CNames == {"main", "printf", "scanf", "malloc", "free"}

\* A procedure has a name that the C program has or uses.
Clash ==
  /\ status = "idle"
  /\ \E name \in CNames \cap DOMAIN symbols : symbols[name] = "procedure"
  /\ status' = "clash"
  /\ UNCHANGED << input, calls, memory, objects, output, result >>

\* main(): wain() is called with two numbers, or with an array and its length.
Start ==
  /\ status = "idle"
  /\ \A name \in CNames \cap DOMAIN symbols : symbols[name] = "library"
  /\ \/ /\ functions["wain"].types[1] = "i32"
        /\ input' \in Pairs
        /\ calls' = << Activation(functions["wain"], input') >>
        /\ UNCHANGED << memory, objects >>
     \/ /\ functions["wain"].types[1] = "i32*"
        /\ input' \in Arrays
        /\ calls' = << Activation(functions["wain"], << FirstFree, Len(input') >>) >>
        /\ Allocate(Len(input'), input')
  /\ status' = "running"
  /\ UNCHANGED << output, result >>

Run ==
  \/ Clash \/ Start \/ Alloca \/ Malloc \/ Load \/ Store \/ Free \/ Operate \/ PtrToInt
  \/ PrintInt \/ Jump \/ CallFunction \/ Ret \/ Undefined
=============================================================================
