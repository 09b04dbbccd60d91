----------------------------- MODULE WLP4Source -----------------------------
(***************************************************************************)
(* WLP4 programs as trees, their text as tokens, and the static semantics  *)
(* that the comments in src/ast state, written over the trees alone.       *)
(* Reference for the front end; for TLC only.                              *)
(***************************************************************************)
EXTENDS SyntaxTree, Naturals, Sequences, SequencesExt

ID(name)   == Node("ID", name, << >>)
NUM(value) == Node("NUM", value, << >>)
NULL       == Node("NULL", "", << >>)
Un(form, operand)      == Node(form, "", << operand >>)
Bin(op, left, right)   == Node(op, "", << left, right >>)
Call(name, args)       == Node("CALL", name, args)
Assign(lvalue, expr)   == Node("ASSIGN", "", << lvalue, expr >>)
Block(stmts)           == Node("BLOCK", "", stmts)
If(test, true, false)  == Node("IF", "", << test, Block(true), Block(false) >>)
While(test, stmts)     == Node("WHILE", "", << test, Block(stmts) >>)
Println(expr)          == Node("PRINTLN", "", << expr >>)
Delete(expr)           == Node("DELETE", "", << expr >>)

Dcl(id, type, value) == [id |-> id, type |-> type, value |-> value]

Procedure(name, params, dcls, stmts, ret) ==
  [name |-> name, params |-> params, dcls |-> dcls, stmts |-> stmts, ret |-> << ret >>]

-----------------------------------------------------------------------------
(* The text.                                                               *)

\* A token whose spelling its type determines.
Fixed(type) == [type |-> type, value |-> type]

Words(types) == [n \in DOMAIN types |-> Fixed(types[n])]

IdToken(name) == << [type |-> "ID", value |-> name] >>

NumToken(value) == << [type |-> "NUM", value |-> value] >>

Join(texts, separator) ==
  FoldLeft(LAMBDA done, text : IF done = << >> THEN text ELSE done \o separator \o text,
           << >>, texts)

RECURSIVE Text(_)
Text(ast) ==
  LET kid(n) == Text(ast.kids[n])
      kids   == [n \in DOMAIN ast.kids |-> Text(ast.kids[n])]
      form   == ast.form
  IN  CASE form = "ID"      -> IdToken(ast.name)
        [] form = "NUM"     -> NumToken(ast.name)
        [] form = "NULL"    -> Words(<< "NULL_S" >>)
        [] form = "PAREN"   -> Words(<< "LPAREN" >>) \o kid(1) \o Words(<< "RPAREN" >>)
        [] form = "AMP"     -> Words(<< "AMP" >>) \o kid(1)
        [] form = "DEREF"   -> Words(<< "STAR" >>) \o kid(1)
        [] form = "NEW"     -> Words(<< "NEW", "INT", "LBRACK" >>) \o kid(1) \o Words(<< "RBRACK" >>)
        [] form = "CALL"    -> IdToken(ast.name) \o Words(<< "LPAREN" >>)
                                 \o Join(kids, Words(<< "COMMA" >>)) \o Words(<< "RPAREN" >>)
        [] form = "ASSIGN"  -> kid(1) \o Words(<< "BECOMES" >>) \o kid(2) \o Words(<< "SEMI" >>)
        [] form = "BLOCK"   -> FlattenSeq(kids)
        [] form = "IF"      -> Words(<< "IF", "LPAREN" >>) \o kid(1) \o Words(<< "RPAREN", "LBRACE" >>)
                                 \o kid(2) \o Words(<< "RBRACE", "ELSE", "LBRACE" >>) \o kid(3)
                                 \o Words(<< "RBRACE" >>)
        [] form = "WHILE"   -> Words(<< "WHILE", "LPAREN" >>) \o kid(1)
                                 \o Words(<< "RPAREN", "LBRACE" >>) \o kid(2) \o Words(<< "RBRACE" >>)
        [] form = "PRINTLN" -> Words(<< "PRINTLN", "LPAREN" >>) \o kid(1) \o Words(<< "RPAREN", "SEMI" >>)
        [] form = "DELETE"  -> Words(<< "DELETE", "LBRACK", "RBRACK" >>) \o kid(1) \o Words(<< "SEMI" >>)
        [] OTHER            -> kid(1) \o Words(<< form >>) \o kid(2)

DclText(dcl) ==
  (IF dcl.type = "INT" THEN Words(<< "INT" >>) ELSE Words(<< "INT", "STAR" >>)) \o IdToken(dcl.id)

DclValueText(dcl) ==
  DclText(dcl) \o Words(<< "BECOMES" >>)
    \o (IF dcl.value = "NULL_S" THEN Words(<< "NULL_S" >>) ELSE NumToken(dcl.value))
    \o Words(<< "SEMI" >>)

ProcedureText(p) ==
  Words(<< "INT" >>)
    \o (IF p.name = "wain" THEN << [type |-> "WAIN", value |-> "wain"] >> ELSE IdToken(p.name))
    \o Words(<< "LPAREN" >>)
    \o Join([n \in DOMAIN p.params |-> DclText(p.params[n])], Words(<< "COMMA" >>))
    \o Words(<< "RPAREN", "LBRACE" >>)
    \o FlattenSeq([n \in DOMAIN p.dcls |-> DclValueText(p.dcls[n])])
    \o Text(Block(p.stmts))
    \o Words(<< "RETURN" >>) \o Text(p.ret[1]) \o Words(<< "SEMI", "RBRACE" >>)

ProgramText(program) ==
  FlattenSeq([n \in DOMAIN program |-> ProcedureText(program[n])])

-----------------------------------------------------------------------------
(* The static semantics.  env is the type of every variable in scope, calls *)
(* the number of parameters of every procedure that may be called.         *)

RECURSIVE Type(_, _, _)
Type(ast, env, calls) ==
  LET type(n) == Type(ast.kids[n], env, calls)
      types   == { type(n) : n \in DOMAIN ast.kids }
      form    == ast.form
      Is(t, condition) == IF condition THEN t ELSE "ILL"
  IN  CASE form = "ID"    -> IF ast.name \in DOMAIN env THEN env[ast.name] ELSE "ILL"
        [] form = "NUM"   -> "INT"
        [] form = "NULL"  -> "INT_STAR"
        [] form = "PAREN" -> type(1)
        [] form = "AMP"   -> Is("INT_STAR", type(1) = "INT")
        [] form = "DEREF" -> Is("INT", type(1) = "INT_STAR")
        [] form = "NEW"   -> Is("INT_STAR", type(1) = "INT")
        [] form = "CALL"  -> Is("INT", /\ ast.name \in DOMAIN calls
                                       /\ Len(ast.kids) = calls[ast.name]
                                       /\ "ILL" \notin types)
        [] form \in {"STAR", "SLASH", "PCT"} -> Is("INT", types = {"INT"})
        [] form = "PLUS"  -> IF types = {"INT"} THEN "INT"
                             ELSE Is("INT_STAR", types = {"INT", "INT_STAR"})
        [] form = "MINUS" -> CASE "ILL" \in types -> "ILL"
                               [] type(1) = type(2) -> "INT"
                               [] OTHER -> Is("INT_STAR", type(1) = "INT_STAR")

RECURSIVE Valid(_, _, _)
Valid(stmt, env, calls) ==
  LET type(n) == Type(stmt.kids[n], env, calls)
      SameTypes(test) ==
        LET left  == Type(test.kids[1], env, calls)
            right == Type(test.kids[2], env, calls)
        IN  left = right /\ left # "ILL"
      ValidBlock(n) == \A s \in DOMAIN stmt.kids[n].kids : Valid(stmt.kids[n].kids[s], env, calls)
  IN  CASE stmt.form = "ASSIGN"  -> SameTypes(stmt)
        [] stmt.form = "PRINTLN" -> type(1) = "INT"
        [] stmt.form = "DELETE"  -> type(1) = "INT_STAR"
        [] stmt.form = "WHILE"   -> SameTypes(stmt.kids[1]) /\ ValidBlock(2)
        [] stmt.form = "IF"      -> SameTypes(stmt.kids[1]) /\ ValidBlock(2) /\ ValidBlock(3)

NoneTwice(dcls) == \A m, n \in DOMAIN dcls : dcls[m].id = dcls[n].id => m = n

\* Procedure k of a program may call those up to itself, wain() excepted.
ValidProcedure(program, k) ==
  LET p     == program[k]
      all   == p.params \o p.dcls
      env   == [ id \in { all[n].id : n \in DOMAIN all } |->
                   all[CHOOSE n \in DOMAIN all : all[n].id = id].type ]
      known == { n \in 1 .. k : program[n].name # "wain" }
      calls == [ name \in { program[n].name : n \in known } |->
                   Len(program[CHOOSE n \in known : program[n].name = name].params) ]
  IN  /\ NoneTwice(all)
      /\ \A n \in DOMAIN p.stmts : Valid(p.stmts[n], env, calls)
      /\ Type(p.ret[1], env, calls) = "INT"
      /\ p.name = "wain" => p.params[2].type = "INT"

ValidProgram(program) ==
  /\ \A m, n \in DOMAIN program : program[m].name = program[n].name => m = n
  /\ \A k \in DOMAIN program : ValidProcedure(program, k)

-----------------------------------------------------------------------------
(* What the parser is to make of it: the trees of the text; but the        *)
(* declarations are the other way round, as are the parameters of others   *)
(* than wain(), and the token taken for the initial value is the wrong one *)
(* if that has not the type of the variable.                               *)

ParsedValue(dcl) ==
  CASE dcl.type = "INT" /\ dcl.value = "NULL_S" -> "SEMI"
    [] dcl.type = "INT_STAR" /\ dcl.value # "NULL_S" -> "BECOMES"
    [] OTHER -> dcl.value

ParsedDcls(dcls) == Reverse([n \in DOMAIN dcls |-> [dcls[n] EXCEPT !.value = ParsedValue(dcls[n])]])

Parsed(p) ==
  [p EXCEPT !.params = IF p.name = "wain" THEN @ ELSE Reverse(@), !.dcls = ParsedDcls(@)]

ParsedProgram(program) == [n \in DOMAIN program |-> Parsed(program[n])]

-----------------------------------------------------------------------------
(* Where calls stand.                                                      *)

\* The text of the tree begins, prefix operators and parentheses apart, with
\* the name of a procedure that is called.
RECURSIVE BeginsWithCall(_)
BeginsWithCall(ast) ==
  \/ ast.form = "CALL"
  \/ ast.kids # << >> /\ BeginsWithCall(ast.kids[1])

Operators == {"PLUS", "MINUS", "STAR", "SLASH", "PCT", "EQ", "NE", "LT", "LE", "GE", "GT"}

\* Some call stands to the right of another operand or argument.
RECURSIVE CallOnTheRight(_)
CallOnTheRight(ast) ==
  \/ /\ ast.form \in Operators \cup {"CALL"}
     /\ \E n \in DOMAIN ast.kids : n > 1 /\ BeginsWithCall(ast.kids[n])
  \/ \E n \in DOMAIN ast.kids : CallOnTheRight(ast.kids[n])

CallsOnTheRight(program) ==
  \E k \in DOMAIN program :
    CallOnTheRight(program[k].ret[1]) \/ CallOnTheRight(Block(program[k].stmts))
=============================================================================
