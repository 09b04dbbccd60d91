------------------------------ MODULE Meaning ------------------------------
(***************************************************************************)
(* What a program means, with WLP4 read as the subset of C++ that it is:   *)
(* an evaluation of the trees, with no instruction, block or register.     *)
(* Where C++ leaves open which operand or argument comes first, all orders *)
(* are followed; what it leaves undefined, or does not compile, makes the  *)
(* outcome one that is not ok.  Reference for the code generator; for TLC  *)
(* only.                                                                   *)
(*                                                                         *)
(* A pointer is << object, offset >>, and an int << -1, value >>, with no  *)
(* object.  A variable is an object of one cell.                           *)
(***************************************************************************)
EXTENDS Integers, Sequences, FiniteSetsExt, TLC

CONSTANTS Half, Number

Integer(n) == << -1, n >>
Null == << 0, 0 >>
Unset == << -2, 0 >>

IsInt(v) == v[1] = -1

\* A value and the state after the evaluation that gave it.
Result(v, st) == [v |-> v, st |-> st]

Undefined(st) == {Result(Null, [st EXCEPT !.ok = FALSE])}

Given(defined, v, st) == IF defined THEN {Result(v, st)} ELSE Undefined(st)

\* What F gives after each of the results.
Then(results, F(_)) == UNION { IF r.st.ok THEN F(r) ELSE {r} : r \in results }

-----------------------------------------------------------------------------
(* Objects.                                                                *)

Created(st, cells, new) == [st EXCEPT !.heap = Append(@, [cells |-> cells, live |-> TRUE, new |-> new])]

Live(st, p) == p[1] \in DOMAIN st.heap /\ st.heap[p[1]].live

HasCell(st, p) == Live(st, p) /\ p[2] \in 0 .. (Len(st.heap[p[1]].cells) - 1)

CellAt(st, p) == st.heap[p[1]].cells[p[2] + 1]

Read(st, p) == Given(HasCell(st, p) /\ CellAt(st, p) # Unset, CellAt(st, p), st)

Write(st, p, v) ==
  Given(HasCell(st, p), Null, [st EXCEPT !.heap[p[1]].cells[p[2] + 1] = v])

Moved(st, p, n) ==
  Given(IF p = Null THEN n = 0 ELSE Live(st, p) /\ p[2] + n \in 0 .. Len(st.heap[p[1]].cells),
        << p[1], p[2] + n >>, st)

Deleted(st, p) ==
  IF p = Null THEN {Result(Null, st)}
  ELSE Given(Live(st, p) /\ p[2] = 0 /\ st.heap[p[1]].new, Null, [st EXCEPT !.heap[p[1]].live = FALSE])

\* An array whose size in bytes is no number of 32 bits makes the outcome big.
NewArray(st, n) ==
  Given(n >= 0, << Len(st.heap) + 1, 0 >>,
        [Created(st, [c \in 1 .. n |-> Unset], TRUE) EXCEPT !.big = @ \/ 4 * n >= 2 * Half])

-----------------------------------------------------------------------------
(* Operators.                                                              *)

\* x divided by y, cut off towards zero: what remains has the sign of x.
Quotient(x, y) ==
  CHOOSE q \in -Half .. Half : \E r \in -Half .. Half : x = q * y + r /\ r * r < y * y /\ r * x >= 0

Arithmetic(form, x, y, st) ==
  LET n == CASE form = "PLUS"  -> x + y
             [] form = "MINUS" -> x - y
             [] form = "STAR"  -> x * y
             [] form = "SLASH" -> Quotient(x, y)
             [] form = "PCT"   -> x - y * Quotient(x, y)
  IN  IF form \in {"SLASH", "PCT"} /\ (y = 0 \/ (x = -Half /\ y = -1)) THEN Undefined(st)
      ELSE Given(n \in -Half .. (Half - 1), Integer(n), st)

Operate(form, x, y, st) ==
  CASE IsInt(x) /\ IsInt(y) -> Arithmetic(form, x[2], y[2], st)
    [] ~ IsInt(x) /\ IsInt(y) -> Moved(st, x, IF form = "PLUS" THEN y[2] ELSE -y[2])
    [] IsInt(x) /\ ~ IsInt(y) -> Moved(st, y, x[2])
    [] OTHER -> Given(x[1] = y[1], Integer(x[2] - y[2]), st)

Order(form, m, n) ==
  CASE form = "LT" -> m < n
    [] form = "LE" -> m <= n
    [] form = "GE" -> m >= n
    [] form = "GT" -> m > n

\* Which of two pointers is less is left open unless they are into one array.
Truths(form, x, y) ==
  CASE form = "EQ" -> {x = y}
    [] form = "NE" -> {x # y}
    [] OTHER -> IF x[1] = y[1] THEN {Order(form, x[2], y[2])} ELSE BOOLEAN

-----------------------------------------------------------------------------
(* Trees.                                                                  *)

RECURSIVE Eval(_, _, _), Place(_, _, _), EvalAll(_, _, _, _), Exec(_, _, _), ExecAll(_, _, _, _),
          Invoke(_, _, _, _)

\* The values of trees that are evaluated in any order; done holds those of some.
EvalAll(prog, asts, done, st) ==
  IF DOMAIN done = DOMAIN asts THEN {Result(done, st)}
  ELSE UNION { Then(Eval(prog, asts[n], st), LAMBDA r : EvalAll(prog, asts, (n :> r.v) @@ done, r.st)) :
                 n \in DOMAIN asts \ DOMAIN done }

Place(prog, ast, st) ==
  CASE ast.form = "ID"    -> {Result(<< st.vars[ast.name], 0 >>, st)}
    [] ast.form = "PAREN" -> Place(prog, ast.kids[1], st)
    [] ast.form = "DEREF" -> Eval(prog, ast.kids[1], st)

Eval(prog, ast, st) ==
  CASE ast.form = "NUM"   -> {Result(Integer(Number[ast.name]), st)}
    [] ast.form = "NULL"  -> {Result(Null, st)}
    [] ast.form = "PAREN" -> Eval(prog, ast.kids[1], st)
    [] ast.form \in {"ID", "DEREF"} -> Then(Place(prog, ast, st), LAMBDA r : Read(r.st, r.v))
    [] ast.form = "AMP"   -> Place(prog, ast.kids[1], st)
    [] ast.form = "NEW"   -> Then(Eval(prog, ast.kids[1], st), LAMBDA r : NewArray(r.st, r.v[2]))
    [] ast.form = "CALL"  -> Then(EvalAll(prog, ast.kids, << >>, st),
                                  LAMBDA r : Invoke(prog, ast.name, r.v, r.st))
    [] OTHER -> Then(EvalAll(prog, ast.kids, << >>, st), LAMBDA r : Operate(ast.form, r.v[1], r.v[2], r.st))

\* The outcomes of a test, as a value that is TRUE or FALSE.
Decide(prog, test, st) ==
  Then(EvalAll(prog, test.kids, << >>, st),
       LAMBDA r : { Result(b, r.st) : b \in Truths(test.form, r.v[1], r.v[2]) })

ExecAll(prog, stmts, n, st) ==
  IF n > Len(stmts) THEN {Result(Null, st)}
  ELSE Then(Exec(prog, stmts[n], st), LAMBDA r : ExecAll(prog, stmts, n + 1, r.st))

Exec(prog, stmt, st) ==
  LET kid(n) == stmt.kids[n]
  IN  CASE stmt.form = "ASSIGN" ->
             Then(Eval(prog, kid(2), st),
                  LAMBDA r : Then(Place(prog, kid(1), r.st), LAMBDA l : Write(l.st, l.v, r.v)))
             \cup Then(Place(prog, kid(1), st),
                       LAMBDA l : Then(Eval(prog, kid(2), l.st), LAMBDA r : Write(r.st, l.v, r.v)))
        [] stmt.form = "PRINTLN" ->
             Then(Eval(prog, kid(1), st),
                  LAMBDA r : {Result(Null, [r.st EXCEPT !.out = Append(@, r.v[2])])})
        [] stmt.form = "DELETE" -> Then(Eval(prog, kid(1), st), LAMBDA r : Deleted(r.st, r.v))
        [] stmt.form = "IF" ->
             Then(Decide(prog, kid(1), st),
                  LAMBDA r : ExecAll(prog, kid(IF r.v THEN 2 ELSE 3).kids, 1, r.st))
        [] stmt.form = "WHILE" ->
             Then(Decide(prog, kid(1), st),
                  LAMBDA r : IF r.v THEN Then(ExecAll(prog, kid(2).kids, 1, r.st),
                                              LAMBDA b : Exec(prog, stmt, b.st))
                             ELSE {Result(Null, r.st)})

\* A value for a variable of that type; C++ converts neither to the other.
Suits(dcl, v) == IsInt(v) = (dcl.type = "INT")

InitialValue(dcl) == IF dcl.value = "NULL_S" THEN Null ELSE Integer(Number[dcl.value])

Invoke(prog, name, args, st) ==
  LET p     == prog[CHOOSE n \in DOMAIN prog : prog[n].name = name]
      dcls  == p.params \o p.dcls
      value(n) == IF n <= Len(p.params) THEN args[n] ELSE InitialValue(dcls[n])
      base  == Len(st.heap)
      Leave(r) == Result(r.v, [r.st EXCEPT
                    !.vars = st.vars,
                    !.heap = [o \in DOMAIN @ |-> IF o \in base + 1 .. base + Len(dcls)
                                                 THEN [@[o] EXCEPT !.live = FALSE] ELSE @[o]]])
      Enter == [st EXCEPT
                  !.vars = [id \in { dcls[n].id : n \in DOMAIN dcls } |->
                              base + (CHOOSE n \in DOMAIN dcls : dcls[n].id = id)],
                  !.heap = @ \o [n \in DOMAIN dcls |-> [cells |-> << value(n) >>, live |-> TRUE, new |-> FALSE]]]
  IN  IF Len(args) = Len(p.params) /\ \A n \in DOMAIN dcls : Suits(dcls[n], value(n))
      THEN { Leave(r) : r \in Then(ExecAll(prog, p.stmts, 1, Enter), LAMBDA r : Eval(prog, p.ret[1], r.st)) }
      ELSE Undefined(st)

Begin == [vars |-> << >>, heap |-> << >>, out |-> << >>, ok |-> TRUE, big |-> FALSE]

\* The outcomes of wain() when it is called with two numbers or an array.
Outcomes(prog, input) ==
  LET wain == prog[Len(prog)]
      results ==
        IF wain.params[1].type = "INT"
        THEN Invoke(prog, "wain", << Integer(input[1]), Integer(input[2]) >>, Begin)
        ELSE Invoke(prog, "wain", << << 1, 0 >>, Integer(Len(input)) >>,
                    Created(Begin, [n \in DOMAIN input |-> Integer(input[n])], TRUE))
  IN  { [ok |-> r.st.ok, big |-> r.st.big, out |-> r.st.out, result |-> r.v[2]] : r \in results }
=============================================================================
