--------------------------- MODULE CodegenSources ---------------------------
(***************************************************************************)
(* Programs for the code generator, as the parser accepts them: no call    *)
(* stands to the right of another operand.  Every form of tree, statements *)
(* nested in each other, and what the code generator gets wrong.           *)
(***************************************************************************)
EXTENDS WLP4Source

a == ID("a")
b == ID("b")
c == ID("c")
p == ID("p")
q == ID("q")
n == ID("n")
Zero == NUM("0")
One == NUM("1")
Two == NUM("2")

IntParam(id) == Dcl(id, "INT", "")
PtrParam(id) == Dcl(id, "INT_STAR", "")
C0 == Dcl("c", "INT", "0")
Q0 == Dcl("q", "INT_STAR", "NULL_S")

Add(l, r) == Bin("PLUS", l, r)
Sub(l, r) == Bin("MINUS", l, r)
Par(e) == Un("PAREN", e)
Deref(e) == Un("DEREF", e)
ElementAt(array, i) == Deref(Par(Add(array, i)))

\* wain() of two numbers, with a local int c, and of an array.
Ints(stmts, ret) ==
  << Procedure("wain", << IntParam("a"), IntParam("b") >>, << C0 >>, stmts, ret) >>

Array(stmts, ret) ==
  << Procedure("wain", << PtrParam("p"), IntParam("n") >>, << C0, Q0 >>, stmts, ret) >>

F(stmts, ret) == << Procedure("f", << IntParam("a") >>, << >>, stmts, ret) >>
G(stmts, ret) == << Procedure("g", << PtrParam("p") >>, << >>, stmts, ret) >>

Increment(v) == Assign(v, Add(v, One))

Computations ==
  { Ints(<< >>, e) :
      e \in {Sub(Sub(a, b), One), Sub(a, Par(Sub(b, One))),
             Add(Bin("STAR", a, b), Bin("PCT", a, b)),
             Bin("SLASH", Par(Sub(Zero, a)), b), Bin("PCT", Par(Sub(Zero, a)), b)} }
    \cup
  { Array(<< >>, e) :
      e \in {ElementAt(p, Par(Sub(n, One))), ElementAt(One, p), Deref(Par(Sub(Par(Add(p, n)), One))),
             Deref(Par(Par(p)))} }

\* Tests, and statements one after the other and within each other.
Flow ==
  { Ints(<< If(Bin(op, a, b), << Println(One), Assign(c, a) >>, << Assign(c, b) >>) >>, c) :
      op \in {"EQ", "NE", "LT", "LE", "GE", "GT"} }
    \cup
  {Ints(<< If(Bin("LT", a, b), << >>, << >>), Println(a) >>, b),
   Ints(<< If(Bin("LT", a, b),
              << If(Bin("LT", a, Zero), << Assign(c, One) >>, << Assign(c, Two) >>), Println(c) >>,
              << Println(b), If(Bin("EQ", b, Two), << >>, << Println(Zero) >>) >>),
           Println(a) >>, c),
   Ints(<< While(Bin("LT", c, b), << Increment(c) >>), Println(c),
           While(Bin("GT", c, Zero), << Assign(c, Sub(c, Two)) >>) >>, c),
   Ints(<< While(Bin("LT", a, b),
              << While(Bin("LT", c, a), << Increment(c) >>), Increment(a) >>) >>, c),
   Ints(<< While(Bin("NE", c, b),
              << If(Bin("EQ", c, One), << Increment(a) >>, << >>), Increment(c) >>) >>, a),
   Ints(<< If(Bin("GE", b, One),
              << While(Bin("LT", c, b), << Increment(c), Increment(a) >>) >>,
              << Assign(Par(a), Zero) >>) >>, a)}

Pointers ==
  {Array(<< While(Bin("LT", c, n), << Assign(ElementAt(p, c), c), Increment(c) >>) >>,
         Deref(p)),
   Array(<< Assign(q, Add(p, One)), Assign(Deref(q), Two), If(Bin("GT", q, p), << Println(Deref(q)) >>, << >>) >>,
         ElementAt(p, One)),
   Array(<< Assign(q, Un("NEW", n)), While(Bin("LT", c, n), << Assign(ElementAt(q, c), c), Increment(c) >>),
            Assign(c, Deref(q)), Delete(q), Delete(NULL) >>, c),
   Array(<< Assign(q, Un("NEW", Two)), Delete(q) >>, Deref(q)),
   Array(<< Assign(q, Un("NEW", Two)) >>, Deref(q)),
   Array(<< Delete(Add(p, One)) >>, n),
   Array(<< If(Bin("EQ", q, NULL), << Assign(q, p) >>, << Assign(q, NULL) >>) >>, Deref(q))}

\* Operands that have effects on each other, and calls that print.
Calls ==
  LET store  == G(<< Assign(Deref(p), Two) >>, One)
      factor == F(<< Println(a) >>, Sub(a, One))
      sum    == Procedure("f", << IntParam("a") >>, << Dcl("c", "INT", "0") >>,
                          << If(Bin("GT", a, Zero), << Assign(c, Add(Call("f", << Sub(a, One) >>), a)) >>, << >>) >>,
                          c)
  IN  {<< sum >> \o Ints(<< >>, Call("f", << Two >>)),
       store \o Array(<< >>, Add(Call("g", << p >>), Deref(p))),
       store \o Array(<< If(Bin("LT", Call("g", << p >>), Deref(p)), << Println(One) >>, << >>) >>, n),
       factor \o G(<< Println(Deref(p)) >>, Zero)
         \o Array(<< Assign(Deref(Par(Add(Call("g", << p >>), p))), Call("f", << n >>)) >>, Deref(p)),
       factor \o Ints(<< While(Bin("GT", Call("f", << b >>), Zero), << Assign(b, Sub(b, One)) >>) >>, b),
       << Procedure("f", << >>, << >>, << >>, One) >> \o Ints(<< >>, Add(Call("f", << >>), a)),
       \* An argument of the wrong type, which the parser lets pass.
       factor \o Array(<< >>, Call("f", << p >>))}

\* Initial values of the wrong type, which the parser lets pass.
Initial ==
  { << Procedure("wain", << IntParam("a"), IntParam("b") >>, << C0, dcl >>, << >>, c) >> :
      dcl \in {Dcl("d", "INT", "NULL_S"), Dcl("d", "INT_STAR", "1")} }

\* The programs whose code is not what they mean: addresses of variables,
\* differences of pointers, several parameters, large arrays, and names that C
\* has a use for.
AddressOf ==
  {Ints(<< >>, Deref(Un("AMP", a))),
   Array(<< Assign(q, Un("AMP", n)) >>, Deref(q)),
   Array(<< If(Bin("NE", Un("AMP", Deref(p)), p), << Println(One) >>, << >>) >>, n),
   Ints(<< If(Bin("EQ", Un("AMP", a), Un("AMP", b)), << Println(a) >>, << >>) >>, Sub(Un("AMP", a), Un("AMP", a)))}

Differences == {Array(<< >>, Sub(p, p)), Array(<< >>, Sub(Par(Add(p, n)), p))}

TwoParams ==
  {<< Procedure("f", << IntParam("a"), IntParam("b") >>, << >>, << >>, Sub(a, b)) >>
     \o Ints(<< >>, Call("f", << a, b >>))}

LargeArrays == {Array(<< Assign(q, Un("NEW", NUM("16"))), Assign(Deref(q), One), Delete(q) >>, Deref(p))}

Named(name) == << Procedure(name, << IntParam("a") >>, << >>, << >>, Add(a, One)) >>

Names ==
  {Named("main") \o Ints(<< >>, Call("main", << a >>)),
   Named("printf") \o Ints(<< Println(a) >>, a),
   Named("malloc") \o Array(<< Assign(q, Un("NEW", One)) >>, n),
   Named("free") \o Array(<< Delete(q) >>, n),
   \* Here printf() is declared by the time, and LLVM gives the procedure another name.
   F(<< Println(a) >>, a) \o Named("printf") \o Ints(<< Println(Two) >>, Add(Call("printf", << a >>), b))}

AllSources ==
  Computations \cup Flow \cup Pointers \cup Calls \cup Initial
    \cup AddressOf \cup Differences \cup TwoParams \cup LargeArrays \cup Names
=============================================================================
