----------------------------- MODULE MCFrontend -----------------------------
(***************************************************************************)
(* The front end on the grammar of WLP4 and on programs that are written   *)
(* as trees: small enough to be run step by step, and between them with    *)
(* every rule of the grammar, every check of the parser both passed and    *)
(* failed, and the shapes in which one symbol's complete elements stand    *)
(* among those of another.                                                 *)
(***************************************************************************)
EXTENDS Frontend, WLP4Grammar, WLP4Source

CONSTANT Sources   \* the programs, as trees

a == ID("a")
b == ID("b")
p == ID("p")
one == NUM("1")

IntParam(id) == Dcl(id, "INT", "")
PtrParam(id) == Dcl(id, "INT_STAR", "")
IntDcl(id) == Dcl(id, "INT", "1")
PtrDcl(id) == Dcl(id, "INT_STAR", "NULL_S")

Wain(dcls, stmts, ret) ==
  Procedure("wain", << PtrParam("p"), IntParam("a") >>, dcls, stmts, ret)

Returning(expr) == << Wain(<< >>, << >>, expr) >>

Doing(stmt) == << Wain(<< >>, << stmt >>, a) >>

\* Expressions, well-typed or not.
Expressions ==
  {a, p, one, ID("undeclared"),
   Un("PAREN", p), Un("DEREF", p), Un("DEREF", a), Un("PAREN", Un("PAREN", a)),
   Un("DEREF", Un("AMP", a)), Un("DEREF", Un("AMP", p)),
   Un("DEREF", Un("PAREN", Bin("PLUS", p, a))),
   Un("DEREF", Un("PAREN", Bin("PLUS", a, p))),
   Un("DEREF", Un("PAREN", Bin("MINUS", p, a))),
   Un("DEREF", Un("PAREN", Bin("MINUS", a, p))),
   Un("DEREF", Un("NEW", a)), Un("DEREF", Un("NEW", p)),
   Bin("MINUS", p, p), Bin("MINUS", Un("AMP", Un("DEREF", p)), NULL),
   Bin("PLUS", p, p), Bin("STAR", a, p), Bin("STAR", a, ID("undeclared")),
   Bin("MINUS", Bin("MINUS", a, one), a),
   Bin("MINUS", a, Un("PAREN", Bin("MINUS", one, a))),
   Bin("PLUS", Bin("STAR", Bin("SLASH", a, one), a), Bin("PCT", a, one)),
   Bin("PCT", Un("PAREN", Bin("PLUS", a, one)), Un("DEREF", p))}

Statements ==
  {Assign(a, one), Assign(p, NULL), Assign(a, p), Assign(ID("undeclared"), one),
   Assign(Un("DEREF", p), a), Assign(Un("DEREF", a), a), Assign(Un("PAREN", a), a),
   Println(a), Println(p), Delete(p), Delete(a),
   While(Bin("NE", a, p), << >>),
   While(Bin("LE", p, p), << Println(p) >>),
   While(Bin("GT", p, NULL), << Println(a), Delete(p) >>),
   If(Bin("GE", a, one), << Println(a) >>, << Println(one) >>),
   If(Bin("EQ", p, NULL), << >>,
      << While(Bin("LT", a, one), << Assign(a, one), Println(a) >>), Delete(p) >>)}

Procedures ==
  LET F(params) == Procedure("f", params, << >>, << >>, one)
      F0 == F(<< >>)
      F1 == F(<< IntParam("a") >>)
      F3 == F(<< IntParam("a"), PtrParam("p"), IntParam("b") >>)
      G(ret) == Procedure("g", << IntParam("b") >>, << >>, << >>, ret)
      Calling(args) == Call("f", args)
  IN  {<< F0 >> \o Returning(Calling(<< >>)),
       << F0 >> \o Returning(Calling(<< a >>)),
       << F1 >> \o Returning(Calling(<< a >>)),
       << F1 >> \o Returning(Calling(<< >>)),
       << F1 >> \o Returning(Bin("PLUS", Calling(<< Calling(<< a >>) >>), a)),
       << F3 >> \o Returning(Calling(<< a, p, one >>)),
       << F3 >> \o Doing(While(Bin("LT", Calling(<< a, p, one >>), a), << >>)),
       << F1 >> \o Returning(Calling(<< ID("undeclared") >>)),
       << F1, F1 >> \o Returning(a),
       << F1, G(Calling(<< b >>)) >> \o Returning(Call("g", << a >>)),
       << G(Calling(<< b >>)), F1 >> \o Returning(a),
       << G(Call("g", << b >>)) >> \o Returning(a),
       << G(a) >> \o Returning(a),
       << F1, G(a) >> \o Doing(Assign(Un("DEREF", Un("PAREN", Bin("PLUS", Call("g", << one >>), p))),
                                      Calling(<< a >>))),
       << F(<< IntParam("a"), PtrParam("a") >>) >> \o Returning(a),
       Returning(Calling(<< >>))}

Declarations ==
  {<< Wain(<< IntDcl("b"), PtrDcl("q") >>, << Assign(b, a), Assign(ID("q"), p) >>, b) >>,
   << Wain(<< PtrDcl("q"), IntDcl("b"), PtrDcl("r") >>, << >>, Bin("MINUS", ID("q"), ID("r"))) >>,
   << Wain(<< Dcl("b", "INT", "NULL_S"), Dcl("q", "INT_STAR", "1") >>, << >>, b) >>,
   << Wain(<< IntDcl("b"), PtrDcl("b") >>, << >>, a) >>,
   << Wain(<< IntDcl("a") >>, << >>, a) >>,
   << Procedure("wain", << IntParam("a"), PtrParam("p") >>, << >>, << >>, a) >>,
   << Procedure("wain", << IntParam("a"), IntParam("b") >>, << >>, << >>, b) >>}

\* Programs to be cut short: one of two procedures, and one with all that can be
\* the last thing read before the cut.
CutSources ==
  {<< Procedure("f", << IntParam("a"), PtrParam("p") >>, << >>, << >>, one) >>
     \o Returning(Call("f", << a, p >>)),
   << Wain(<< IntDcl("b"), PtrDcl("q") >>,
           << While(Bin("EQ", p, NULL), << Delete(p) >>), Println(b) >>, Un("DEREF", p)) >>}

AllSources ==
  { Returning(e) : e \in Expressions } \cup { Doing(s) : s \in Statements }
    \cup Procedures \cup Declarations \cup CutSources

\* Calls that stand after another operand or argument of the same expression.
CallsLater ==
  LET F == Procedure("f", << IntParam("a") >>, << >>, << >>, a)
  IN  { << F >> \o Returning(e) :
          e \in {Bin("PLUS", a, Call("f", << a >>)),
                 Bin("STAR", Call("f", << a >>), Call("f", << one >>))} }

\* A procedure of two parameters, called from wain().
TwoParams ==
  {<< Procedure("f", << IntParam("a"), IntParam("b") >>, << >>, << >>, a) >>
     \o Returning(Call("f", << a, one >>))}

-----------------------------------------------------------------------------

SourceOf ==
  [ text \in { ProgramText(s) : s \in Sources } |->
      CHOOSE s \in Sources : ProgramText(s) = text ]

MCWhole == DOMAIN SourceOf

\* What remains of the programs to be cut short when the end is missing.
MCTruncated ==
  UNION { { SubSeq(ProgramText(s), 1, n) : n \in 0 .. Len(ProgramText(s)) } : s \in CutSources }

MCPrograms == MCWhole \cup MCTruncated

MCLexemes ==
  WLP4Terminals
    \cup {"1", "a", "b", "f", "g", "p", "q", "r", "undeclared", "wain"}

\* The program that is being read, if it is a whole one.
Source == SourceOf[tokens]

IsWhole == tokens \in MCWhole

\* What the parser makes of the final chart.
ReadsAsWritten ==
  IF ValidProgram(Source)
  THEN phase = "parsed" /\ procedures = ParsedProgram(Source)
  ELSE phase = "error"

\* Walking backwards from one complete element to the nearest that has the
\* symbol wanted finds the tree the text was written from, with every check of
\* the static semantics made on it and no other, unless a call stands to the
\* right of another operand or argument.
ReadsAsWrittenButCalls ==
  Stopped /\ IsWhole /\ ~ CallsOnTheRight(Source) => ReadsAsWritten

\* The comments of factor.cpp and expr.cpp give a call the type int wherever
\* it stands.
ReadsCallsAnywhere == Stopped => ReadsAsWritten

\* What is left of a program whose end is missing ends in a crash or a message,
\* or is read as its whole procedures and nothing of the one that was cut.
ReadsWholeProcedures ==
  phase = "parsed" /\ tokens \in MCTruncated =>
    \E s \in CutSources : \E n \in 0 .. Len(s) :
      /\ IsPrefix(tokens, ProgramText(s))
      /\ Len(ProgramText(SubSeq(s, 1, n))) <= Len(tokens)
      /\ n < Len(s) => Len(tokens) < Len(ProgramText(SubSeq(s, 1, n + 1)))
      /\ SelectSeq(procedures, LAMBDA q : q # P!NoProcedure) = ParsedProgram(SubSeq(s, 1, n))

\* Arguments and parameters meet in the order of the text.
ParamsInOrder ==
  phase = "parsed" => \A n \in DOMAIN procedures : procedures[n].params = Source[n].params

\* The symbol table of the first walk counts the parameters of every procedure
\* right, which it can only because every prefix of a list of parameters is
\* itself a complete element.
CountsParams ==
  phase = "build" /\ IsWhole =>
    /\ procedureNames = [n \in DOMAIN Source |-> Source[n].name]
    /\ \A n \in DOMAIN Source : procedureArgsNum[Source[n].name] = Len(Source[n].params)

\* Whatever main() is given ends in a compilation or in a message.
NeverCrashes == phase # "crash"
=============================================================================
