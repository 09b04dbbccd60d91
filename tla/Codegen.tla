------------------------------ MODULE Codegen ------------------------------
(***************************************************************************)
(* The code generator of src/codegen.cpp and the loop of main() that calls *)
(* it.  The codegen() functions call one another along the trees; stack    *)
(* holds the calls that have not returned, the latest last, each with its  *)
(* local variables.  A step is what a call does up to its next call of     *)
(* codegen(), or its return.                                               *)
(*                                                                         *)
(* What LLVM does is modelled as far as the code depends on it: a value is *)
(* a constant or the register of an instruction, and has a type; an        *)
(* instruction whose operands have types LLVM does not allow is an         *)
(* assertion or worse, and stops the model in "ill".  An exception stops   *)
(* it in "error".                                                          *)
(***************************************************************************)
EXTENDS SyntaxTree, Integers, Sequences

CONSTANTS
  Trees,     \* the trees of the programs and all that they consist of
  Programs,  \* the procedures that the parser may leave in State, in order
  Number     \* std::stoi(): what the numerals stand for

VARIABLES
  program,         \* STATE.procedures()
  k,               \* how many of them main() has come to
  stack,           \* the calls of codegen() that have not returned
  blocks,          \* the module's basic blocks in the order they were made
  at,              \* where Builder inserts: the end of this block
  count,           \* how many registers there are
  dclSymbolTable,  \* the addresses of the variables of procedure k
  functions,       \* procedures by name
  symbols,         \* who has a name in the module: "procedure" or "library"
  phase

genVars == << program, k, stack, blocks, at, count, dclSymbolTable, functions, symbols, phase >>

-----------------------------------------------------------------------------
(* The trees, as the classes of src/include/ast hold them.                 *)

Factors    == {"ID", "NUM", "NULL", "PAREN", "NEW", "AMP", "DEREF", "CALL"}
Terms      == {"STAR", "SLASH", "PCT"}
Exprs      == {"PLUS", "MINUS"}
Valued     == Factors \cup Terms \cup Exprs
Lvalues    == {"ID", "DEREF", "PAREN"}
Tests      == {"EQ", "NE", "LT", "LE", "GE", "GT"}
Statements == {"ASSIGN", "IF", "WHILE", "PRINTLN", "DELETE"}

HasKids(ast, classes) ==
  /\ Len(ast.kids) = Len(classes)
  /\ \A n \in DOMAIN classes : ast.kids[n].form \in classes[n]

HasOnly(ast, class) == \A n \in DOMAIN ast.kids : ast.kids[n].form \in class

IsFactor(ast) ==
  /\ ast.form \in {"ID", "NUM", "NULL"} => HasKids(ast, << >>)
  /\ ast.form = "NUM" => ast.name \in DOMAIN Number
  /\ ast.form \in {"PAREN", "NEW"} => HasKids(ast, << Valued >>)
  /\ ast.form = "AMP" => HasKids(ast, << Lvalues >>)
  /\ ast.form = "DEREF" => HasKids(ast, << Factors >>)

IsArglist(ast) == ast.form = "CALL" => HasOnly(ast, Valued)

IsTerm(ast) == ast.form \in Terms => HasKids(ast, << Valued, Valued >>)

IsExpr(ast) == ast.form \in Exprs => HasKids(ast, << Valued, Valued >>)

IsTest(ast) == ast.form \in Tests => HasKids(ast, << Valued, Valued >>)

IsStatement(ast) ==
  /\ ast.form = "ASSIGN" => HasKids(ast, << Lvalues, Valued >>)
  /\ ast.form \in {"PRINTLN", "DELETE"} => HasKids(ast, << Valued >>)
  /\ ast.form = "WHILE" => HasKids(ast, << Tests, {"BLOCK"} >>)
  /\ ast.form = "IF" => HasKids(ast, << Tests, {"BLOCK"}, {"BLOCK"} >>)
  /\ ast.form = "BLOCK" => HasOnly(ast, Statements)

IsTree(ast) ==
  /\ ast.form \in Valued \cup Tests \cup Statements \cup {"BLOCK"}
  /\ IsFactor(ast) /\ IsArglist(ast) /\ IsTerm(ast) /\ IsExpr(ast)
  /\ IsTest(ast) /\ IsStatement(ast)

Dcls == [id : STRING, type : {"INT", "INT_STAR"}, value : STRING]

TreesOf(forms) == { ast \in Trees : ast.form \in forms }

Procedures ==
  [name : STRING, params : Seq(Dcls), dcls : Seq(Dcls),
   stmts : Seq(TreesOf(Statements)), ret : [{1} -> TreesOf(Valued)]]

ASSUME TreeAssumption ==
  /\ \A ast \in Trees : ast.kids \in Seq(Trees) /\ IsTree(ast)
  /\ Programs \subseteq Seq(Procedures)
  /\ Number \in [DOMAIN Number -> Int]

\* parse() throws where a procedure is redeclared.
ASSUME NamesAssumption ==
  \A parsed \in Programs : \A m, n \in DOMAIN parsed : parsed[m].name = parsed[n].name => m = n

\* typeForDcl() of a variable of procedure k.
TypeForDcl(id) ==
  LET dcls == program[k].params \o program[k].dcls
  IN  dcls[CHOOSE n \in DOMAIN dcls : dcls[n].id = id].type

\* type()
type[ast \in Trees] ==
  CASE ast.form = "ID" -> TypeForDcl(ast.name)
    [] ast.form \in {"NUM", "DEREF", "CALL"} -> "INT"
    [] ast.form \in {"NULL", "NEW", "AMP"} -> "INT_STAR"
    [] ast.form = "PAREN" -> type[ast.kids[1]]
    [] ast.form \in Terms -> TermType(type[ast.kids[1]], type[ast.kids[2]])
    [] ast.form = "PLUS" -> PlusType(type[ast.kids[1]], type[ast.kids[2]])
    [] ast.form = "MINUS" -> MinusType(type[ast.kids[1]], type[ast.kids[2]])
    [] OTHER -> "INVALID"

-----------------------------------------------------------------------------
(* The module that is being built.                                         *)

LLVMType(dclType) == IF dclType = "INT" THEN "i32" ELSE "i32*"

PointerTo(t) == IF t = "i32" THEN "i32*" ELSE "i32**"

\* A value: the register of an instruction, or a constant and no register.
Reg(t, n)   == [type |-> t, reg |-> n, const |-> 0]
Const(t, c) == [type |-> t, reg |-> 0, const |-> c]

\* An instruction: its operands, its register, and the blocks that it goes to.
Instr(op, args, result) == [op |-> op, name |-> "", args |-> args, result |-> result, to |-> << >>]
CallOf(name, args, result) == [Instr("call", args, result) EXCEPT !.name = name]
Br(b) == [Instr("br", << >>, 0) EXCEPT !.to = << b >>]
CondBr(test, b, c) == [Instr("condbr", << test >>, 0) EXCEPT !.to = << b, c >>]

\* The instruction that Create...() makes of a tree.
OpOf ==
  [STAR |-> "mul", SLASH |-> "sdiv", PCT |-> "srem", PLUS |-> "add", MINUS |-> "sub",
   EQ |-> "eq", NE |-> "ne", LT |-> "slt", LE |-> "sle", GE |-> "sge", GT |-> "sgt"]

\* A basic block and the function that it belongs to.
BasicBlock(func, code) == [func |-> func, code |-> code]

Extended(block, instrs) == BasicBlock(block.func, block.code \o instrs)

NewBB == Len(blocks) + 1

EmptyBB == BasicBlock(blocks[at].func, << >>)

\* Instructions at the insertion point; those with a result are numbered on
\* from count.
Insert(instrs) ==
  /\ blocks' = [blocks EXCEPT ![at] = Extended(@, instrs)]
  /\ count' = count + Len(instrs)

\* getFunction(), and Function::Create() of a library function that is not there.
\* A name that is taken stays with who has it.
Declared(name, who) ==
  [x \in DOMAIN symbols \cup {name} |-> IF x \in DOMAIN symbols THEN symbols[x] ELSE who]

IsLibrary(name) == name \in DOMAIN symbols => symbols[name] = "library"

-----------------------------------------------------------------------------
(* The calls of codegen().  A call is of a procedure, of a statement, of   *)
(* what has a value (Test, Expr, Term, Factor) or of an Lvalue, which      *)
(* gives an address.  done holds the values that the calls it made for its *)
(* operands have returned, stmts the list that it loops over, n the index  *)
(* of the last call in either.                                             *)

Frame(of, ast) ==
  [of |-> of, ast |-> ast, pc |-> IF ast.form \in {"IF", "WHILE"} THEN "test" ELSE "operands",
   done |-> [n \in {} |-> 0], stmts |-> << >>, n |-> 0,
   BB |-> 0, bodyBB |-> 0, lastTrueBB |-> 0, falseBB |-> 0]

ProcedureFrame(p) == [Frame("procedure", p.ret[1]) EXCEPT !.pc = "link", !.stmts = p.stmts]

Top == stack[Len(stack)]

At(pc) == phase = "generating" /\ stack # << >> /\ Top.pc = pc

Become(frame) == stack' = [stack EXCEPT ![Len(stack)] = frame]

Call(frame, callee) == stack' = Append([stack EXCEPT ![Len(stack)] = frame], callee)

ReturnVoid == stack' = SubSeq(stack, 1, Len(stack) - 1)

\* The caller keeps the value as that of its operand n.
Received(frame, value) ==
  [frame EXCEPT !.done = [m \in DOMAIN @ \cup {frame.n} |-> IF m = frame.n THEN value ELSE @[m]]]

Return(value) ==
  stack' = [m \in 1 .. (Len(stack) - 1) |->
              IF m = Len(stack) - 1 THEN Received(stack[m], value) ELSE stack[m]]

Throw(how) ==
  /\ phase' = how
  /\ UNCHANGED << program, k, stack, blocks, at, count, dclSymbolTable, functions, symbols >>

-----------------------------------------------------------------------------
(* Operands.                                                               *)

\* Which operand a call generates next.  Term and Expr begin with the right
\* one, Arglist with the first; Test and LvalueStatement generate theirs as
\* arguments of one call, which C++ evaluates in any order.
Due(frame) ==
  LET missing == DOMAIN frame.ast.kids \ DOMAIN frame.done
      form    == frame.ast.form
  IN  { n \in missing :
          \/ form \in Tests \cup {"ASSIGN"}
          \/ form \in Terms \cup Exprs /\ \A m \in missing : m <= n
          \/ form \notin Terms \cup Exprs /\ \A m \in missing : n <= m }

\* Lvalue hands on the value of a pointer as its address.
OperandKind(frame, n) ==
  IF \/ frame.of = "address" /\ frame.ast.form = "PAREN"
     \/ frame.ast.form = "AMP"
     \/ frame.ast.form = "ASSIGN" /\ n = 1
  THEN "address" ELSE "value"

LibraryOf == [PRINTLN |-> "printf", DELETE |-> "free"]

GenerateOperand ==
  /\ At("operands")
  /\ \E n \in Due(Top) :
       Call([Top EXCEPT !.n = n], Frame(OperandKind(Top, n), Top.ast.kids[n]))
  /\ symbols' = IF Top.ast.form \in DOMAIN LibraryOf
                THEN Declared(LibraryOf[Top.ast.form], "library") ELSE symbols
  /\ UNCHANGED << program, k, blocks, at, count, dclSymbolTable, functions, phase >>

\* All operands of the call on top are there.
Ready(forms) ==
  /\ At("operands")
  /\ Top.ast.form \in forms
  /\ DOMAIN Top.done = DOMAIN Top.ast.kids

Arg(n) == Top.done[n]

ArgTypes == [n \in DOMAIN Top.ast.kids |-> Arg(n).type]

\* The two operands of pointer arithmetic.
Pointer == IF type[Top.ast.kids[1]] = "INT" THEN Arg(2) ELSE Arg(1)
Offset  == IF type[Top.ast.kids[1]] = "INT" THEN Arg(1) ELSE Arg(2)

IsPointerArithmetic == type[Top.ast] = "INT_STAR"

IsDifference ==
  /\ Top.ast.form = "MINUS"
  /\ type[Top.ast.kids[1]] = "INT_STAR"
  /\ type[Top.ast.kids[2]] = "INT_STAR"

\* LLVM has the instruction for operands of these types, and the variable an
\* address.
WellTyped ==
  LET form == Top.ast.form
  IN  /\ form = "ID" => Top.ast.name \in DOMAIN dclSymbolTable
      /\ form = "AMP" \/ (form = "DEREF" /\ Top.of = "value") => Arg(1).type \in {"i32*", "i32**"}
      /\ form = "NEW" => Arg(1).type = "i32" /\ IsLibrary("malloc")
      /\ form = "CALL" =>
           /\ Top.ast.name \in DOMAIN functions
           /\ ArgTypes = functions[Top.ast.name].types
      /\ form \in Terms => Arg(1).type = "i32" /\ Arg(2).type = "i32"
      /\ form \in Exprs =>
           IF IsPointerArithmetic THEN Pointer.type = "i32*" /\ Offset.type = "i32"
           ELSE IF IsDifference THEN Arg(1).type \in {"i32", "i32*"} /\ Arg(2).type \in {"i32", "i32*"}
           ELSE Arg(1).type = "i32" /\ Arg(2).type = "i32"
      /\ form \in Tests => Arg(1).type = Arg(2).type
      /\ form = "ASSIGN" => Arg(1).type = PointerTo(Arg(2).type)
      /\ form = "PRINTLN" => Arg(1).type = "i32" /\ IsLibrary("printf")
      /\ form = "DELETE" => Arg(1).type = "i32*" /\ IsLibrary("free")

IllTyped ==
  /\ Ready(Factors \cup Terms \cup Exprs \cup Tests \cup Statements)
  /\ ~ WellTyped
  /\ Throw("ill")

-----------------------------------------------------------------------------
(* Lvalue, Factor, Term, Expr, Test.                                       *)

CanCreate(forms) == Ready(forms) /\ Top.of # "address" /\ WellTyped

\* The value of the last of instrs is returned.
Create(instrs, t) ==
  /\ Insert(instrs)
  /\ Return(Reg(t, count + Len(instrs)))
  /\ UNCHANGED << program, k, at, dclSymbolTable, functions, phase >>

\* What is returned without an instruction.
HandBack(value) ==
  /\ Return(value)
  /\ UNCHANGED << program, k, blocks, at, count, dclSymbolTable, functions, symbols, phase >>

Address ==
  /\ Ready({"ID"})
  /\ Top.of = "address"
  /\ WellTyped
  /\ HandBack(dclSymbolTable[Top.ast.name])

AddressOfOperand == Ready({"PAREN", "DEREF"}) /\ Top.of = "address" /\ HandBack(Arg(1))

Parentheses == Ready({"PAREN"}) /\ Top.of = "value" /\ HandBack(Arg(1))

Literal ==
  \/ Ready({"NUM"}) /\ HandBack(Const("i32", Number[Top.ast.name]))
  \/ Ready({"NULL"}) /\ HandBack(Const("i32*", 0))

\* CreateLoad() from an address: what is there.
Load(address) ==
  Create(<< Instr("load", << address >>, count + 1) >>, IF address.type = "i32**" THEN "i32*" ELSE "i32")

LoadVariable ==
  /\ CanCreate({"ID"})
  /\ Load(dclSymbolTable[Top.ast.name])
  /\ UNCHANGED symbols

\* factor -> AMP lvalue loads, as does factor -> STAR factor.
LoadOperand ==
  /\ CanCreate({"AMP", "DEREF"})
  /\ Load(Arg(1))
  /\ UNCHANGED symbols

\* The size is computed in 32 bits; the call stands for the bitcast as well.
NewArray ==
  /\ CanCreate({"NEW"})
  /\ Create(<< Instr("mul", << Arg(1), Const("i32", 4) >>, count + 1),
               Instr("malloc", << Reg("i32", count + 1) >>, count + 2) >>, "i32*")
  /\ symbols' = Declared("malloc", "library")

CallProcedure ==
  /\ CanCreate({"CALL"})
  /\ Create(<< CallOf(Top.ast.name, [n \in 1 .. Len(Top.ast.kids) |-> Arg(n)], count + 1) >>, "i32")
  /\ UNCHANGED symbols

Compute(t) == Create(<< Instr(OpOf[Top.ast.form], << Arg(1), Arg(2) >>, count + 1) >>, t)

Multiply == CanCreate(Terms) /\ Compute("i32") /\ UNCHANGED symbols

Add ==
  /\ CanCreate(Exprs)
  /\ ~ IsPointerArithmetic /\ ~ IsDifference
  /\ Compute("i32")
  /\ UNCHANGED symbols

AddToPointer ==
  /\ CanCreate({"PLUS"})
  /\ IsPointerArithmetic
  /\ Create(<< Instr("gep", << Pointer, Offset >>, count + 1) >>, "i32*")
  /\ UNCHANGED symbols

\* Mutant: the offset is not negated.
SubtractFromPointer_Adds ==
  /\ CanCreate({"MINUS"})
  /\ IsPointerArithmetic
  /\ Create(<< Instr("gep", << Pointer, Offset >>, count + 1) >>, "i32*")
  /\ UNCHANGED symbols

SubtractFromPointer ==
  /\ CanCreate({"MINUS"})
  /\ IsPointerArithmetic
  /\ Create(<< Instr("sub", << Const("i32", 0), Offset >>, count + 1),
               Instr("gep", << Pointer, Reg("i32", count + 1) >>, count + 2) >>, "i32*")
  /\ UNCHANGED symbols

\* Two pointers are not subtracted: one is divided by the other.
SubtractPointers ==
  /\ CanCreate({"MINUS"})
  /\ IsDifference
  /\ Create(<< Instr("ptrtoint", << Arg(2) >>, count + 1),
               Instr("ptrtoint", << Arg(1) >>, count + 2),
               Instr("exact sdiv", << Reg("i32", count + 2), Reg("i32", count + 1) >>, count + 3) >>,
             "i32")
  /\ UNCHANGED symbols

Compare == CanCreate(Tests) /\ Compute("i1") /\ UNCHANGED symbols

-----------------------------------------------------------------------------
(* Statements without a block of their own.                                *)

CreateVoid(op, args) ==
  /\ Insert(<< Instr(op, args, 0) >>)
  /\ ReturnVoid
  /\ UNCHANGED << program, k, at, dclSymbolTable, functions, symbols, phase >>

LvalueStatement == CanCreate({"ASSIGN"}) /\ CreateVoid("store", << Arg(2), Arg(1) >>)

PrintlnStatement == CanCreate({"PRINTLN"}) /\ CreateVoid("print", << Arg(1) >>)

DeleteStatement == CanCreate({"DELETE"}) /\ CreateVoid("free", << Arg(1) >>)

-----------------------------------------------------------------------------
(* Lists of statements.  In a procedure a new block comes before each, and *)
(* one more at the end; elsewhere one comes after each.                    *)

\* The next block is made and reached from the insertion point.
Link ==
  /\ At("link")
  /\ blocks' = Append([blocks EXCEPT ![at] = Extended(@, << Br(NewBB) >>)], EmptyBB)
  /\ at' = NewBB
  /\ Become([Top EXCEPT !.pc = "statements"])
  /\ UNCHANGED << program, k, count, dclSymbolTable, functions, symbols, phase >>

\* Mutant: no block is begun between two statements.
NextStatement_SameBlock ==
  /\ At("statements")
  /\ Top.n < Len(Top.stmts)
  /\ Call([Top EXCEPT !.n = @ + 1], Frame("statement", Top.stmts[Top.n + 1]))
  /\ UNCHANGED << program, k, blocks, at, count, dclSymbolTable, functions, symbols, phase >>

NextStatement ==
  /\ At("statements")
  /\ Top.n < Len(Top.stmts)
  /\ Call([Top EXCEPT !.pc = "link", !.n = @ + 1], Frame("statement", Top.stmts[Top.n + 1]))
  /\ UNCHANGED << program, k, blocks, at, count, dclSymbolTable, functions, symbols, phase >>

\* The list has been generated.
AtEnd == At("statements") /\ Top.n = Len(Top.stmts)

-----------------------------------------------------------------------------
(* IfStatement and WhileStatement.                                         *)

\* BB is the block of the test, left open until the end.
GenerateTest ==
  /\ At("test")
  /\ Call([Top EXCEPT !.pc = "body", !.n = 1, !.BB = at], Frame("value", Top.ast.kids[1]))
  /\ UNCHANGED << program, k, blocks, at, count, dclSymbolTable, functions, symbols, phase >>

\* trueBB or whileBB, and the list of statements in it.
BeginBody ==
  /\ At("body")
  /\ blocks' = Append(blocks, EmptyBB)
  /\ at' = NewBB
  /\ Become([Top EXCEPT !.pc = "statements", !.bodyBB = NewBB, !.stmts = Top.ast.kids[2].kids, !.n = 0])
  /\ UNCHANGED << program, k, count, dclSymbolTable, functions, symbols, phase >>

\* Mutant: the loop counter is not reset.
BeginElse_KeepsCount ==
  /\ AtEnd
  /\ Top.ast.form = "IF"
  /\ Top.falseBB = 0
  /\ blocks' = Append(blocks, EmptyBB)
  /\ at' = NewBB
  /\ Become([Top EXCEPT !.lastTrueBB = at, !.falseBB = NewBB, !.stmts = Top.ast.kids[3].kids])
  /\ UNCHANGED << program, k, count, dclSymbolTable, functions, symbols, phase >>

\* Mutant: the first block of the list is remembered, not the last.
BeginElse_FirstTrueBB ==
  /\ AtEnd
  /\ Top.ast.form = "IF"
  /\ Top.falseBB = 0
  /\ blocks' = Append(blocks, EmptyBB)
  /\ at' = NewBB
  /\ Become([Top EXCEPT !.lastTrueBB = Top.bodyBB, !.falseBB = NewBB, !.stmts = Top.ast.kids[3].kids, !.n = 0])
  /\ UNCHANGED << program, k, count, dclSymbolTable, functions, symbols, phase >>

\* The other list of an IfStatement.  Where the first one ended is left open.
BeginElse ==
  /\ AtEnd
  /\ Top.ast.form = "IF"
  /\ Top.falseBB = 0
  /\ blocks' = Append(blocks, EmptyBB)
  /\ at' = NewBB
  /\ Become([Top EXCEPT !.lastTrueBB = at, !.falseBB = NewBB, !.stmts = Top.ast.kids[3].kids, !.n = 0])
  /\ UNCHANGED << program, k, count, dclSymbolTable, functions, symbols, phase >>

\* Builder goes back to what was left open, then on to the exit.
EndIf ==
  /\ AtEnd
  /\ Top.ast.form = "IF"
  /\ Top.falseBB # 0
  /\ blocks' =
       Append([b \in DOMAIN blocks |->
                 CASE b = Top.BB -> Extended(blocks[b], << CondBr(Top.done[1], Top.bodyBB, Top.falseBB) >>)
                   [] b \in {Top.lastTrueBB, at} -> Extended(blocks[b], << Br(NewBB) >>)
                   [] OTHER -> blocks[b]],
              EmptyBB)
  /\ at' = NewBB
  /\ ReturnVoid
  /\ UNCHANGED << program, k, count, dclSymbolTable, functions, symbols, phase >>

\* Mutant: the branch back goes to the body.
EndWhile_ToBody ==
  /\ AtEnd
  /\ Top.ast.form = "WHILE"
  /\ blocks' =
       Append([b \in DOMAIN blocks |->
                 CASE b = Top.BB -> Extended(blocks[b], << CondBr(Top.done[1], Top.bodyBB, NewBB) >>)
                   [] b = at -> Extended(blocks[b], << Br(Top.bodyBB) >>)
                   [] OTHER -> blocks[b]],
              EmptyBB)
  /\ at' = NewBB
  /\ ReturnVoid
  /\ UNCHANGED << program, k, count, dclSymbolTable, functions, symbols, phase >>

\* The branch back goes to the block of the test, which therefore has to hold
\* nothing else.
EndWhile ==
  /\ AtEnd
  /\ Top.ast.form = "WHILE"
  /\ blocks' =
       Append([b \in DOMAIN blocks |->
                 CASE b = Top.BB -> Extended(blocks[b], << CondBr(Top.done[1], Top.bodyBB, NewBB) >>)
                   [] b = at -> Extended(blocks[b], << Br(Top.BB) >>)
                   [] OTHER -> blocks[b]],
              EmptyBB)
  /\ at' = NewBB
  /\ ReturnVoid
  /\ UNCHANGED << program, k, count, dclSymbolTable, functions, symbols, phase >>

-----------------------------------------------------------------------------
(* Procedure.                                                              *)

AtProcedure == phase = "generating" /\ stack = << >> /\ k < Len(program)

BadValue(dcl) == dcl.type = "INT" /\ dcl.value \notin DOMAIN Number

\* std::stoi() in the list of declarations throws.
BadDcl ==
  /\ AtProcedure
  /\ \E n \in DOMAIN program[k + 1].dcls : BadValue(program[k + 1].dcls[n])
  /\ Throw("error")

\* An int is initialised with its number, an int* with null, whatever it says.
InitialValue(dcl) == IF dcl.type = "INT" THEN Const("i32", Number[dcl.value]) ELSE Const("i32*", 0)

\* Mutant: the stores come first.
EntryCode_StoresFirst(p) ==
  LET args == Len(p.params)
      all  == p.params \o p.dcls
      Alloca(n) == Instr("alloca", << >>, count + args + n)
      Initial(n) == IF n <= args THEN Reg(LLVMType(all[n].type), count + n)
                                 ELSE InitialValue(all[n])
      Store(n) == Instr("store", << Initial(n), Reg(PointerTo(LLVMType(all[n].type)), count + args + n) >>, 0)
  IN  [n \in 1 .. Len(all) |-> Store(n)] \o [n \in 1 .. Len(all) |-> Alloca(n)]

\* The entry block: an alloca for each variable, those of the parameters first;
\* then a store of each argument and of each initial value.  Register count + n
\* is that of argument n, the allocas' follow.
EntryCode(p) ==
  LET args == Len(p.params)
      all  == p.params \o p.dcls
      Alloca(n) == Instr("alloca", << >>, count + args + n)
      Initial(n) == IF n <= args THEN Reg(LLVMType(all[n].type), count + n)
                                 ELSE InitialValue(all[n])
      Store(n) == Instr("store", << Initial(n), Reg(PointerTo(LLVMType(all[n].type)), count + args + n) >>, 0)
  IN  [n \in 1 .. Len(all) |-> Alloca(n)] \o [n \in 1 .. Len(all) |-> Store(n)]

Procedure ==
  /\ AtProcedure
  /\ LET p    == program[k + 1]
         args == Len(p.params)
         all  == p.params \o p.dcls
         func == [entry |-> NewBB, first |-> count,
                  types |-> [n \in 1 .. args |-> LLVMType(p.params[n].type)]]
     IN  /\ \A n \in DOMAIN p.dcls : ~ BadValue(p.dcls[n])
         /\ functions' = [f \in DOMAIN functions \cup {p.name} |-> IF f = p.name THEN func ELSE functions[f]]
         /\ symbols' = Declared(p.name, "procedure")
         /\ blocks' = Append(blocks, BasicBlock(p.name, EntryCode(p)))
         /\ dclSymbolTable' =
              [id \in { all[n].id : n \in DOMAIN all } |->
                 LET n == CHOOSE m \in DOMAIN all : all[m].id = id
                 IN  Reg(PointerTo(LLVMType(all[n].type)), count + args + n)]
         /\ count' = count + args + Len(all)
         /\ stack' = << ProcedureFrame(p) >>
  /\ at' = NewBB
  /\ k' = k + 1
  /\ UNCHANGED << program, phase >>

GenerateReturnExpr ==
  /\ AtEnd
  /\ Top.of = "procedure"
  /\ Call([Top EXCEPT !.pc = "return", !.n = 1], Frame("value", Top.ast))
  /\ UNCHANGED << program, k, blocks, at, count, dclSymbolTable, functions, symbols, phase >>

CreateRet ==
  /\ At("return")
  /\ Insert(<< Instr("ret", << Arg(1) >>, 0) >>)
  /\ ReturnVoid
  /\ UNCHANGED << program, k, at, dclSymbolTable, functions, symbols, phase >>

-----------------------------------------------------------------------------

CodegenInit ==
  /\ program \in Programs
  /\ k = 0
  /\ stack = << >>
  /\ blocks = << >>
  /\ at = 0
  /\ count = 0
  /\ dclSymbolTable = << >>
  /\ functions = << >>
  /\ symbols = << >>
  /\ phase = "generating"

Generated ==
  /\ phase = "generating"
  /\ stack = << >>
  /\ k = Len(program)
  /\ Throw("generated")

Generate ==
  \/ Procedure \/ BadDcl \/ GenerateReturnExpr \/ CreateRet \/ Generated
  \/ Link \/ NextStatement \/ GenerateTest \/ BeginBody \/ BeginElse \/ EndIf \/ EndWhile
  \/ LvalueStatement \/ PrintlnStatement \/ DeleteStatement
  \/ GenerateOperand \/ IllTyped
  \/ Address \/ AddressOfOperand \/ Parentheses \/ Literal \/ LoadVariable \/ LoadOperand
  \/ NewArray \/ CallProcedure \/ Multiply \/ Add \/ AddToPointer \/ SubtractFromPointer
  \/ SubtractPointers \/ Compare

CodegenSpec == CodegenInit /\ [][Generate]_genVars

-----------------------------------------------------------------------------
(* Properties.                                                             *)

LLVMTypes == {"i1", "i32", "i32*", "i32**"}

Values == [type : LLVMTypes, reg : Nat, const : Int]

Terminators == {"br", "condbr", "ret"}

Opcodes ==
  {"alloca", "load", "store", "malloc", "free", "print", "call", "gep", "ptrtoint", "add", "sub", "mul",
   "sdiv", "exact sdiv", "srem", "eq", "ne", "slt", "sle", "sge", "sgt"} \cup Terminators

\* What is called was generated before.
Instructions ==
  [op : Opcodes, name : {""} \cup DOMAIN functions, args : Seq(Values), result : Nat, to : Seq(Nat)]

Functions == [entry : Nat \ {0}, first : Nat, types : Seq(LLVMTypes)]

\* A loop over a list of statements does not go past its end.
FrameOK(frame) ==
  /\ frame.of \in {"procedure", "statement", "value", "address"}
  /\ frame.ast \in Trees
  /\ frame.pc \in {"operands", "test", "body", "link", "statements", "return"}
  /\ frame.stmts \in Seq(Trees)
  /\ frame.n \in Nat
  /\ frame.pc \in {"link", "statements"} => frame.n <= Len(frame.stmts)
  /\ \A n \in DOMAIN frame.done : frame.done[n] \in Values
  /\ {frame.BB, frame.bodyBB, frame.lastTrueBB, frame.falseBB} \subseteq 0 .. Len(blocks)

\* Types.
TypeOK ==
  /\ program \in Programs
  /\ k \in 0 .. Len(program)
  /\ \A f \in DOMAIN stack : FrameOK(stack[f])
  /\ \A b \in DOMAIN blocks : blocks[b] = BasicBlock(blocks[b].func, blocks[b].code)
                              /\ blocks[b].func \in DOMAIN functions
                              /\ blocks[b].code \in Seq(Instructions)
  /\ at \in 0 .. Len(blocks)
  /\ count \in Nat
  /\ \A id \in DOMAIN dclSymbolTable : dclSymbolTable[id] \in Values
  /\ \A f \in DOMAIN functions : functions[f] \in Functions
  /\ \A name \in DOMAIN symbols : symbols[name] \in {"procedure", "library"}
  /\ phase \in {"generating", "generated", "error", "ill"}

IsTerminator(instr) == instr.op \in Terminators

\* The block at the insertion point, and those that a call will come back to.
OpenBlocks ==
  (IF stack = << >> THEN {} ELSE {at})
    \cup ((UNION { {stack[f].BB, stack[f].lastTrueBB} : f \in DOMAIN stack }) \ {0})

\* The insertion point is moved back and forth between blocks (codegen.cpp
\* 134-143, 188-193).  In the end each has one terminator, its last instruction;
\* until then only those that are still to be closed have none, and every branch
\* goes to a block of the same function that is not its entry.
BlocksWellFormed ==
  \A b \in DOMAIN blocks :
    LET code == blocks[b].code
    IN  /\ \A i \in 1 .. (Len(code) - 1) : ~ IsTerminator(code[i])
        /\ (code # << >> /\ IsTerminator(code[Len(code)])) <=> b \notin OpenBlocks
        /\ \A i \in DOMAIN code : \A n \in DOMAIN code[i].to :
             /\ code[i].to[n] \in DOMAIN blocks
             /\ blocks[code[i].to[n]].func = blocks[b].func
             /\ code[i].to[n] # functions[blocks[b].func].entry

\* WhileStatement takes the block it finds for that of its test (codegen.cpp
\* 174), and IfStatement likewise: whoever generated the statement before must
\* have begun a new one.
StatementsStartBlocks ==
  stack # << >> /\ Top.pc \in {"test", "statements"} => blocks[at].code = << >>

\* A register is defined before it is used: earlier in the block, by the entry
\* block, or as an argument.  Nothing in the code asks LLVM to verify that.
DefinedFirst ==
  \A b \in DOMAIN blocks : \A i \in DOMAIN blocks[b].code : \A n \in DOMAIN blocks[b].code[i].args :
    LET code == blocks[b].code
        func == functions[blocks[b].func]
        reg  == code[i].args[n].reg
    IN  \/ reg = 0
        \/ \E j \in 1 .. (i - 1) : code[j].result = reg
        \/ reg \in func.first + 1 .. func.first + Len(func.types)
        \/ /\ b # func.entry
           /\ \E j \in DOMAIN blocks[func.entry].code : blocks[func.entry].code[j].result = reg
=============================================================================
