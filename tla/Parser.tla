------------------------------- MODULE Parser -------------------------------
(***************************************************************************)
(* The parser of src/parser.cpp.  It never looks at the text again: it     *)
(* walks the final chart from its last element to its first and takes, for *)
(* every symbol of a rule, the nearest complete element with that symbol.  *)
(* It does so twice, first for the symbol table, then for the procedures.  *)
(*                                                                         *)
(* An iteration of one of the two loops of parse() is a step; what it      *)
(* calls is evaluated by recursive functions that take the index to go on  *)
(* from and return a result: the tree, what its type() gives and the index *)
(* after it.  elemIdx is the code's _elemIdx + 1, and the index Fail       *)
(* stands for an exception.                                                *)
(***************************************************************************)
EXTENDS Grammar, SyntaxTree, Integers, SequencesExt

VARIABLES
  tokens,             \* STATE's tokens
  finalChart,         \* STATE.finalChart()
  phase,              \* the loop parse() is in, or how it ended
  elemIdx,            \* _elemIdx + 1
  currProcedureName,  \* _currProcedureName
  procedureNames,     \* in the order of the text
  procedureArgsNum,   \* number of parameters, by procedure name
  dclsMap,            \* STATE._dclsMap: type, by << procedure, variable >>
  proc,               \* the procedure being built, NoProcedure for nullptr
  procedures          \* STATE._procedures

Fail == -1

\* The indices to go on from.
Indices == Fail .. Len(finalChart)

Got(ast, type, at) == [ast |-> ast, type |-> type, at |-> at]

\* Arguments, tests and statements have no type().
Untyped(ast, at) == Got(ast, "INVALID", at)

Failed == Untyped(Node("none", "", << >>), Fail)

\* The result, unless parsing it or the check made on it has thrown.
Require(check, result) == IF result.at # Fail /\ check THEN result ELSE Failed

-----------------------------------------------------------------------------
(* The final chart.                                                        *)

Sym(n) == Lhs(finalChart[n])

RhsOf(n) == Rhs(finalChart[n])

\* The value of the token offset places after the first of element n.
ValueAt(n, offset) == tokens[finalChart[n].start + offset + 1].value

\* gotoCorrectRule()
GotoRule(sym, n) ==
  LET found == { m \in 1 .. n : Sym(m) = sym }
  IN  IF found = {} THEN Fail ELSE Max(found)

-----------------------------------------------------------------------------
(* type() of the trees, in the procedure being parsed, from the types of   *)
(* their parts.                                                            *)

TypeForDcl(name) ==
  IF << currProcedureName, name >> \in DOMAIN dclsMap
  THEN dclsMap[<< currProcedureName, name >>]
  ELSE "INVALID"

ExprType(op, left, right) ==
  IF op = "PLUS" THEN PlusType(left, right) ELSE MinusType(left, right)

\* Factor::type() and Lvalue::type(); inner is the type of what is in parentheses.
FactorType(form, name, inner) ==
  CASE form = "ID" -> TypeForDcl(name)
    [] form \in {"NUM", "CALL", "DEREF"} -> "INT"
    [] form \in {"NULL", "AMP", "NEW"} -> "INT_STAR"
    [] form = "PAREN" -> inner
    [] OTHER -> "INVALID"

-----------------------------------------------------------------------------
(* The parse functions.  They call one another through results, which is   *)
(* the recursive function parse that is defined after them: results[sym, n]*)
(* is what the function for sym gives when elemIdx is n.                   *)

\* Mutant: a procedure may call those that come later.
ValidCall_AnyOrder(callee) ==
  /\ callee \in DOMAIN procedureArgsNum
  /\ ~ (currProcedureName = "wain" /\ callee = "wain")

\* checkValidCall(): the callee exists, and no later than the caller.
ValidCall(callee) ==
  /\ callee \in DOMAIN procedureArgsNum
  /\ ~ (currProcedureName = "wain" /\ callee = "wain")
  /\ \E p \in DOMAIN procedureNames :
       /\ procedureNames[p] = callee
       /\ \A q \in 1 .. (p - 1) : procedureNames[q] # currProcedureName

\* In what follows at is the element that PARSE_BEGIN has found and rhs the
\* right-hand side of its rule.

ParseExpr(results, rhs, at) ==
  LET term == results["term", at - 1]
      left == results["expr", term.at]
      expr == IF Len(rhs) = 1
              THEN term
              ELSE Got(Node(rhs[2], "", << left.ast, term.ast >>),
                       ExprType(rhs[2], left.type, term.type), left.at)
  IN  Require(expr.type # "INVALID", expr)

ParseTerm(results, rhs, at) ==
  LET factor == results["factor", at - 1]
      left   == results["term", factor.at]
      term   == Got(Node(rhs[2], "", << left.ast, factor.ast >>),
                    TermType(left.type, factor.type), left.at)
  IN  IF Len(rhs) = 1 THEN factor ELSE Require(term.type # "INVALID", term)

NoArgs(at) == Untyped(Node("ARGS", "", << >>), at)

ParseCall(results, rhs, at) ==
  LET callee == ValueAt(at, 0)
      args   == IF Len(rhs) = 3 THEN NoArgs(at - 1) ELSE results["arglist", at - 1]
  IN  IF ~ ValidCall(callee) THEN Failed
      ELSE Require(Len(args.ast.kids) = procedureArgsNum[callee],
                   Got(Node("CALL", callee, args.ast.kids), FactorType("CALL", callee, ""), args.at))

\* Mutant: the element is not consumed.
Leaf_Stays(form, name, at) == Got(Node(form, name, << >>), FactorType(form, name, ""), at)

\* What ends the walk down the tree: a token that needs no parsing.
Leaf(form, name, at) == Got(Node(form, name, << >>), FactorType(form, name, ""), at - 1)

\* A prefix operator, or parentheses: result is the operand, which must have
\* one of types.
Operand(form, result, types) ==
  Require(result.type \in types,
          Got(Node(form, "", << result.ast >>), FactorType(form, "", result.type), result.at))

AnyType == {"INT", "INT_STAR", "INVALID"}

ParseFactor(results, rhs, at) ==
  CASE rhs = << "ID" >>     -> Leaf("ID", ValueAt(at, 0), at)
    [] rhs[1] = "ID" /\ Len(rhs) > 1 -> ParseCall(results, rhs, at)
    [] rhs[1] = "NUM"       -> Leaf("NUM", ValueAt(at, 0), at)
    [] rhs[1] = "NULL_S"    -> Leaf("NULL", "", at)
    [] rhs[1] = "LPAREN"    -> Operand("PAREN", results["expr", at - 1], AnyType)
    [] rhs[1] = "AMP"       -> Operand("AMP", results["lvalue", at - 1], {"INT"})
    [] rhs[1] = "STAR"      -> Operand("DEREF", results["factor", at - 1], {"INT_STAR"})
    [] rhs[1] = "NEW"       -> Operand("NEW", results["expr", at - 1], {"INT"})

ParseLvalue(results, rhs, at) ==
  CASE rhs[1] = "ID"     -> Leaf("ID", ValueAt(at, 0), at)
    [] rhs[1] = "STAR"   -> Operand("DEREF", results["factor", at - 1], {"INT_STAR"})
    [] rhs[1] = "LPAREN" -> Operand("PAREN", results["lvalue", at - 1], AnyType)

\* The rest of the arguments come first, the text being walked backwards.
ParseArglist(results, rhs, at) ==
  LET rest  == IF Len(rhs) = 1 THEN NoArgs(at - 1) ELSE results["arglist", at - 1]
      first == results["expr", rest.at]
  IN  Require(TRUE, Untyped(Node("ARGS", "", << first.ast >> \o rest.ast.kids), first.at))

ParseTest(results, rhs, at) ==
  LET right == results["expr", at - 1]
      left  == results["expr", right.at]
  IN  Require(right.type = left.type,
              Untyped(Node(rhs[2], "", << left.ast, right.ast >>), left.at))

\* while (!parseStatements()) addStatement(parseStatement())
ParseBlock(results, rhs, at) ==
  LET last == results["statement", at - 1]
      rest == results["statements", last.at]
  IN  IF rhs = << >> THEN Leaf("BLOCK", "", at)
      ELSE Require(TRUE, Untyped(Node("BLOCK", "", Append(rest.ast.kids, last.ast)), rest.at))

ParseAssign(results, at) ==
  LET expr   == results["expr", at - 1]
      lvalue == results["lvalue", expr.at]
  IN  Require(expr.type = lvalue.type,
              Untyped(Node("ASSIGN", "", << lvalue.ast, expr.ast >>), lvalue.at))

ParseWhile(results, at) ==
  LET block == results["statements", at - 1]
      test  == results["test", block.at]
  IN  Require(TRUE, Untyped(Node("WHILE", "", << test.ast, block.ast >>), test.at))

ParseIf(results, at) ==
  LET false == results["statements", at - 1]
      true  == results["statements", false.at]
      test  == results["test", true.at]
  IN  Require(TRUE, Untyped(Node("IF", "", << test.ast, true.ast, false.ast >>), test.at))

ParseStatement(results, rhs, at) ==
  CASE rhs[1] = "lvalue"  -> ParseAssign(results, at)
    [] rhs[1] = "IF"      -> ParseIf(results, at)
    [] rhs[1] = "WHILE"   -> ParseWhile(results, at)
    [] rhs[1] = "PRINTLN" -> Operand("PRINTLN", results["expr", at - 1], {"INT"})
    [] rhs[1] = "DELETE"  -> Operand("DELETE", results["expr", at - 1], {"INT_STAR"})

ParsedSymbols == {"expr", "term", "factor", "lvalue", "arglist", "test", "statements", "statement"}

\* PARSE_BEGIN: the nearest element for sym, if there is one.
ParseFrom(results, sym, n) ==
  LET at  == GotoRule(sym, n)
      rhs == RhsOf(at)
  IN  CASE at = Fail -> Failed
        [] at # Fail /\ sym = "expr" -> ParseExpr(results, rhs, at)
        [] at # Fail /\ sym = "term" -> ParseTerm(results, rhs, at)
        [] at # Fail /\ sym = "factor" -> ParseFactor(results, rhs, at)
        [] at # Fail /\ sym = "lvalue" -> ParseLvalue(results, rhs, at)
        [] at # Fail /\ sym = "arglist" -> ParseArglist(results, rhs, at)
        [] at # Fail /\ sym = "test" -> ParseTest(results, rhs, at)
        [] at # Fail /\ sym = "statements" -> ParseBlock(results, rhs, at)
        [] at # Fail /\ sym = "statement" -> ParseStatement(results, rhs, at)

parse[at \in ParsedSymbols \X Indices] == ParseFrom(parse, at[1], at[2])

-----------------------------------------------------------------------------
(* Declarations.                                                           *)

\* The declaration of element d.  Its type is taken from the element before,
\* whatever that is; its value is found by the distance from its start, three
\* tokens if it is a NUM and four if it is NULL.
DclAt(d, valueSym) ==
  LET isInt == Len(RhsOf(d - 1)) = 1
  IN  [id    |-> ValueAt(d - 1, IF isInt THEN 1 ELSE 2),
       type  |-> IF isInt THEN "INT" ELSE "INT_STAR",
       value |-> CASE valueSym = "NUM"    -> ValueAt(d, 3)
                   [] valueSym = "NULL_S" -> ValueAt(d, 4)
                   [] OTHER               -> ""]

\* Declarations are collected in the order they are met, the last of the text
\* first.  dcls is what was collected and n the index to go on from.
Dcls(dcls, n) == [dcls |-> dcls, at |-> n]

NoDcls == Dcls(<< >>, Fail)

\* The declaration before n, ahead of what the loop finds before it.
ParseDcl(loop, valueSym, n) ==
  LET d      == GotoRule("dcl", n)
      others == loop[d - 2]
  IN  IF d = Fail \/ others.at = Fail
      THEN NoDcls
      ELSE Dcls(<< DclAt(d, valueSym) >> \o others.dcls, others.at)

\* for (opt = parseDcls(); opt.has_value(); opt = parseDcls()) parseDcl(...)
DclsFrom(loop, n) ==
  LET at == GotoRule("dcls", n)
  IN  CASE at = Fail -> NoDcls
        [] at # Fail /\ RhsOf(at) = << >> -> Dcls(<< >>, at - 1)
        [] at # Fail /\ RhsOf(at) # << >> -> ParseDcl(loop, RhsOf(at)[4], at - 1)

parseDclsLoop[n \in Indices] == DclsFrom(parseDclsLoop, n)

\* while (!parseParams()) parseDcl()
ParamsFrom(loop, n) ==
  LET at == GotoRule("params", n)
  IN  CASE at = Fail -> NoDcls
        [] at # Fail /\ RhsOf(at) = << >> -> Dcls(<< >>, at - 1)
        [] at # Fail /\ RhsOf(at) # << >> -> ParseDcl(loop, "none", at - 1)

parseParamsLoop[n \in Indices] == ParamsFrom(parseParamsLoop, n)

\* The parameters of wain(), the second first; the second must be an int.
ParseWainParams(n) ==
  LET first  == [m \in Indices |-> Dcls(<< >>, m)]
      second == [m \in Indices |-> ParseDcl(first, "none", m)]
      both   == ParseDcl(second, "none", n)
  IN  IF both.at # Fail /\ both.dcls[1].type = "INT" THEN both ELSE NoDcls

\* addDclToProc() for each of dcls.
AddDcls(dcls) ==
  LET Declared(name) == { n \in DOMAIN dcls : dcls[n].id = name }
      keys == { << currProcedureName, dcls[n].id >> : n \in DOMAIN dcls }
  IN  [ key \in keys \cup DOMAIN dclsMap |->
          IF key \in keys THEN dcls[Max(Declared(key[2]))].type ELSE dclsMap[key] ]

-----------------------------------------------------------------------------
(* parse(): first the symbol table.                                        *)

NoProcedure == [name |-> "", params |-> << >>, dcls |-> << >>, stmts |-> << >>, ret |-> << >>]

ParserInit ==
  /\ phase = "idle"
  /\ elemIdx = 0
  /\ currProcedureName = ""
  /\ procedureNames = << >>
  /\ procedureArgsNum = << >>
  /\ dclsMap = << >>
  /\ proc = NoProcedure
  /\ procedures = << >>

Begin ==
  /\ phase = "idle"
  /\ phase' = "symbols"
  /\ elemIdx' = Len(finalChart)
  /\ UNCHANGED << currProcedureName, procedureNames, procedureArgsNum, dclsMap, proc, procedures >>

\* An exception, which main() catches, or a crash: what the handler had changed
\* by then is never read again.
Stop(how) ==
  /\ phase' = how
  /\ UNCHANGED << elemIdx, currProcedureName, procedureNames, procedureArgsNum, dclsMap, proc, procedures >>

\* The iteration of the loop of that phase for a symbol of syms.
At(loop, syms) == phase = loop /\ elemIdx > 0 /\ Sym(elemIdx) \in syms

ProcedureSyms == {"procedure", "main_s"}

\* _procedureArgsNum[name] = count
SetArgsNum(name, count) ==
  procedureArgsNum' = [ p \in {name} \cup DOMAIN procedureArgsNum |->
                          IF p = name THEN count ELSE procedureArgsNum[p] ]

SymbolProcedure ==
  /\ At("symbols", ProcedureSyms)
  /\ LET name == ValueAt(elemIdx, 1)
     IN  IF name \in DOMAIN procedureArgsNum
         THEN Stop("error")
         ELSE /\ currProcedureName' = name
              /\ procedureNames' = << name >> \o procedureNames
              /\ SetArgsNum(name, IF name = "wain" THEN 2 ELSE 0)
              /\ elemIdx' = elemIdx - 1
              /\ UNCHANGED << phase, dclsMap, proc, procedures >>

SymbolDcls ==
  /\ At("symbols", {"dcls"})
  /\ \E dcls \in {parseDclsLoop[elemIdx]} :
         IF dcls.at = Fail
         THEN Stop("error")
         ELSE /\ dclsMap' = AddDcls(dcls.dcls)
              /\ elemIdx' = dcls.at
              /\ UNCHANGED << phase, currProcedureName, procedureNames, procedureArgsNum, proc, procedures >>

SymbolWainParams ==
  /\ At("symbols", {"dcl"})
  /\ currProcedureName = "wain"
  /\ \E dcls \in {ParseWainParams(elemIdx)} :
         IF dcls.at = Fail
         THEN Stop("error")
         ELSE /\ dclsMap' = AddDcls(dcls.dcls)
              /\ elemIdx' = dcls.at
              /\ UNCHANGED << phase, currProcedureName, procedureNames, procedureArgsNum, proc, procedures >>

\* The count of a name that the map does not hold begins with 0.
ArgsNum(name) == IF name \in DOMAIN procedureArgsNum THEN procedureArgsNum[name] ELSE 0

\* Mutant: the count is assigned and not incremented.
SymbolParams_One ==
  /\ At("symbols", {"params"})
  /\ \E dcls \in {parseParamsLoop[elemIdx]} :
         IF dcls.at = Fail
         THEN Stop("error")
         ELSE /\ dclsMap' = AddDcls(dcls.dcls)
              /\ IF dcls.dcls = << >> THEN UNCHANGED procedureArgsNum
                 ELSE SetArgsNum(currProcedureName, 1)
              /\ elemIdx' = dcls.at
              /\ UNCHANGED << phase, currProcedureName, procedureNames, proc, procedures >>

SymbolParams ==
  /\ At("symbols", {"params"})
  /\ \E dcls \in {parseParamsLoop[elemIdx]} :
         IF dcls.at = Fail
         THEN Stop("error")
         ELSE /\ dclsMap' = AddDcls(dcls.dcls)
              /\ IF dcls.dcls = << >> THEN UNCHANGED procedureArgsNum
                 ELSE SetArgsNum(currProcedureName, ArgsNum(currProcedureName) + Len(dcls.dcls))
              /\ elemIdx' = dcls.at
              /\ UNCHANGED << phase, currProcedureName, procedureNames, proc, procedures >>

SymbolSkip ==
  /\ phase = "symbols"
  /\ elemIdx > 0
  /\ Sym(elemIdx) \notin ProcedureSyms \cup {"dcls", "params"}
  /\ ~ (Sym(elemIdx) = "dcl" /\ currProcedureName = "wain")
  /\ elemIdx' = elemIdx - 1
  /\ UNCHANGED << phase, currProcedureName, procedureNames, procedureArgsNum, dclsMap, proc, procedures >>

-----------------------------------------------------------------------------
(* Then the procedures.                                                    *)

\* Mutant: the index of the last element is one too high.
SymbolsDone_PastTheEnd ==
  /\ phase = "symbols"
  /\ elemIdx = 0
  /\ phase' = IF finalChart = << >> THEN "error" ELSE "build"
  /\ elemIdx' = Len(finalChart) + 1
  /\ UNCHANGED << currProcedureName, procedureNames, procedureArgsNum, dclsMap, proc, procedures >>

\* Mutant: the index of the last element is one too low.
SymbolsDone_OneEarly ==
  /\ phase = "symbols"
  /\ elemIdx = 0
  /\ phase' = IF finalChart = << >> THEN "error" ELSE "build"
  /\ elemIdx' = Len(finalChart) - 1
  /\ UNCHANGED << currProcedureName, procedureNames, procedureArgsNum, dclsMap, proc, procedures >>

\* The second loop begins with the last element: at() throws if there is none.
SymbolsDone ==
  /\ phase = "symbols"
  /\ elemIdx = 0
  /\ phase' = IF finalChart = << >> THEN "error" ELSE "build"
  /\ elemIdx' = Len(finalChart)
  /\ UNCHANGED << currProcedureName, procedureNames, procedureArgsNum, dclsMap, proc, procedures >>

\* Mutant: the procedures in the order they are built.
AddProcedure_AtTheBack == procedures' = Append(procedures, proc)

\* proc goes to the front of STATE's list.
AddProcedure == procedures' = << proc >> \o procedures

BuildProcedure ==
  /\ At("build", ProcedureSyms)
  /\ proc' = [NoProcedure EXCEPT !.name = ValueAt(elemIdx, 1)]
  /\ currProcedureName' = ValueAt(elemIdx, 1)
  /\ elemIdx' = elemIdx - 1
  /\ IF proc # NoProcedure THEN AddProcedure ELSE UNCHANGED procedures
  /\ UNCHANGED << phase, procedureNames, procedureArgsNum, dclsMap >>

\* What dereferences proc while it is still null: returnExpr(), isWain(), and
\* adding to it.
NullDeref ==
  /\ proc = NoProcedure
  /\ \/ Sym(elemIdx) \in {"expr", "dcl"}
     \/ Sym(elemIdx) \in {"statements", "dcls", "params"} /\ RhsOf(elemIdx) # << >>

\* Undefined behaviour, on any usual platform a segmentation fault.  The
\* argument of addStatement() may throw before.
NullProcedure ==
  /\ phase = "build"
  /\ elemIdx > 0
  /\ NullDeref
  /\ Stop(IF Sym(elemIdx) = "statements" /\ parse[<< "statement", elemIdx - 1 >>].at = Fail
          THEN "error" ELSE "crash")

\* validateName()
Redeclares(p) ==
  LET all == p.params \o p.dcls
  IN  \E m, n \in DOMAIN all : m # n /\ all[m].id = all[n].id

\* A step that went on to index at and made of proc what built is.
Built(at, built) ==
  IF at = Fail \/ Redeclares(built)
  THEN Stop("error")
  ELSE /\ proc' = built
       /\ elemIdx' = at
       /\ UNCHANGED << phase, currProcedureName, procedureNames, procedureArgsNum, dclsMap, procedures >>

Building(sym) == At("build", {sym}) /\ ~ NullDeref

BuildReturn ==
  /\ Building("expr")
  /\ proc.ret = << >>
  /\ \E expr \in {parse[<< "expr", elemIdx >>]} :
         Built(Require(expr.type = "INT", expr).at, [proc EXCEPT !.ret = << expr.ast >>])

BuildStatements ==
  /\ Building("statements")
  /\ \E block \in {parse[<< "statements", elemIdx >>]} :
         Built(block.at, [proc EXCEPT !.stmts = block.ast.kids \o @])

\* parseDcl() declares again what the first loop declared: dclsMap stays.
BuildDcls ==
  /\ Building("dcls")
  /\ \E dcls \in {parseDclsLoop[elemIdx]} :
         Built(dcls.at, [proc EXCEPT !.dcls = @ \o dcls.dcls])

BuildWainParams ==
  /\ Building("dcl")
  /\ proc.name = "wain"
  /\ \E dcls \in {ParseWainParams(elemIdx)} :
         Built(dcls.at, [proc EXCEPT !.params = @ \o Reverse(dcls.dcls)])

\* addParam() in the order the walk meets the parameters.
BuildParams ==
  /\ Building("params")
  /\ \E dcls \in {parseParamsLoop[elemIdx]} :
         Built(dcls.at, [proc EXCEPT !.params = @ \o dcls.dcls])

BuildSkip ==
  /\ phase = "build"
  /\ elemIdx > 0
  /\ ~ NullDeref
  /\ Sym(elemIdx) \notin ProcedureSyms \cup {"statements", "dcls", "params"}
  /\ ~ (Sym(elemIdx) = "expr" /\ proc.ret = << >>)
  /\ ~ (Sym(elemIdx) = "dcl" /\ proc.name = "wain")
  /\ elemIdx' = elemIdx - 1
  /\ UNCHANGED << phase, currProcedureName, procedureNames, procedureArgsNum, dclsMap, proc, procedures >>

\* The walk is over: the last procedure, or a null one, is added.
BuildDone ==
  /\ phase = "build"
  /\ elemIdx = 0
  /\ AddProcedure
  /\ phase' = "parsed"
  /\ UNCHANGED << elemIdx, currProcedureName, procedureNames, procedureArgsNum, dclsMap, proc >>

Parse ==
  \/ SymbolProcedure \/ SymbolDcls \/ SymbolWainParams \/ SymbolParams \/ SymbolSkip
  \/ SymbolsDone
  \/ BuildProcedure \/ NullProcedure \/ BuildReturn \/ BuildStatements \/ BuildDcls
  \/ BuildWainParams \/ BuildParams \/ BuildSkip
  \/ BuildDone

-----------------------------------------------------------------------------
(* Properties.                                                             *)

\* What is written at the tokens of these kinds.
Names(syms) == { tokens[n].value : n \in { m \in DOMAIN tokens : tokens[m].type \in syms } }

\* The name of a procedure, or none yet.
ProcedureName == {""} \cup Names({"ID", "WAIN"})

\* Types of the variables, the trees apart.
TypeOK ==
  /\ phase \in {"idle", "symbols", "build", "parsed", "error", "crash"}
  /\ elemIdx \in 0 .. Len(finalChart)
  /\ currProcedureName \in ProcedureName
  /\ DOMAIN procedureArgsNum \subseteq ProcedureName
  /\ \A name \in DOMAIN procedureArgsNum : procedureArgsNum[name] \in Nat
  /\ procedureNames \in Seq(DOMAIN procedureArgsNum)
  /\ DOMAIN dclsMap \subseteq ProcedureName \X Names({"ID"})
  /\ \A key \in DOMAIN dclsMap : dclsMap[key] \in {"INT", "INT_STAR"}

\* Where the iteration of either loop at elemIdx goes on, if it parses.
GoesOnFrom ==
  LET sym == Sym(elemIdx)
  IN  CASE sym = "dcls" -> parseDclsLoop[elemIdx].at
        [] sym = "params" -> parseParamsLoop[elemIdx].at
        [] sym = "dcl" /\ currProcedureName = "wain" -> ParseWainParams(elemIdx).at
        [] sym = "expr" /\ phase = "build" -> parse[<< "expr", elemIdx >>].at
        [] sym = "statements" /\ phase = "build" -> parse[<< "statements", elemIdx >>].at
        [] OTHER -> elemIdx - 1

\* What the two loops of parse() call throws or gives back an index before the
\* one it was given: neither loop ever turns on the spot.
MovesOn ==
  phase \in {"symbols", "build"} /\ elemIdx > 0 => GoesOnFrom \in {Fail} \cup 0 .. (elemIdx - 1)
=============================================================================
