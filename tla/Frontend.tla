------------------------------ MODULE Frontend ------------------------------
(***************************************************************************)
(* Recogniser().recognise() and then Parser().parse(), as main() of        *)
(* wlp4c.cpp calls them: the parser begins once the recogniser has handed  *)
(* its final chart to State, and not at all if it has thrown.              *)
(***************************************************************************)
EXTENDS FinalChart, SequencesExt

\* The grammars that the functions of the parser are written for: how the
\* rules begin by which they choose what to do, and the rules whose names and
\* values they read at an offset.
ASSUME ParserAssumption ==
  /\ {"INT", "ID", "WAIN"} \subseteq Terminals
  /\ \A r \in DOMAIN CFG :
       /\ CFG[r].lhs = "procedure" =>
            Len(CFG[r].rhs) > 1 /\ CFG[r].rhs[1] = "INT" /\ CFG[r].rhs[2] = "ID"
       /\ CFG[r].lhs = "main_s" =>
            Len(CFG[r].rhs) > 1 /\ CFG[r].rhs[1] = "INT" /\ CFG[r].rhs[2] = "WAIN"
       /\ CFG[r].lhs = "dcls" => CFG[r].rhs = << >> \/ Len(CFG[r].rhs) > 3
       /\ CFG[r].lhs = "lvalue" => CFG[r].rhs[1] \in {"ID", "STAR", "LPAREN"}
       /\ CFG[r].lhs = "factor" =>
            /\ CFG[r].rhs[1] \in {"ID", "NUM", "NULL_S", "LPAREN", "AMP", "STAR", "NEW"}
            /\ CFG[r].rhs[1] = "ID" => CFG[r].rhs = << "ID" >> \/ Len(CFG[r].rhs) > 1
       /\ CFG[r].lhs = "statement" =>
            CFG[r].rhs[1] \in {"lvalue", "IF", "WHILE", "PRINTLN", "DELETE"}

VARIABLES phase, elemIdx, currProcedureName, procedureNames, procedureArgsNum,
          dclsMap, proc, procedures

P == INSTANCE Parser

parseVars == << phase, elemIdx, currProcedureName, procedureNames, procedureArgsNum,
                dclsMap, proc, procedures >>

frontVars == << vars, parseVars >>

\* How many braces the first n symbols of a sequence leave open.
Opened(syms, n) ==
  Cardinality({ m \in 1 .. n : syms[m] = "LBRACE" })
    - Cardinality({ m \in 1 .. n : syms[m] = "RBRACE" })

\* What stands in braces, and what ends with the brace of a procedure.
InBraces == {"statements", "statement"}

EndsInBrace == {CFG[1].lhs, "procedures"} \cup P!ProcedureSyms

\* The grammars whose braces enclose the bodies of procedures and the
\* statements in them, and programs in which names are not empty.
ASSUME BracesAssumption ==
  /\ {"LBRACE", "RBRACE"} \subseteq Terminals /\ EndsInBrace \subseteq NonTerminals
  /\ CFG[1].lhs \notin InBraces
  /\ \A r \in DOMAIN CFG : LET rhs == CFG[r].rhs IN
       /\ Opened(rhs, Len(rhs)) = 0
       /\ CFG[r].lhs \in EndsInBrace => rhs # << >> /\ rhs[Len(rhs)] \in {"RBRACE"} \cup EndsInBrace
       /\ \A d \in DOMAIN rhs :
            /\ Opened(rhs, d - 1) >= 0
            /\ rhs[d] \in InBraces /\ CFG[r].lhs \notin InBraces => Opened(rhs, d - 1) > 0
            /\ rhs[d] = "RBRACE" /\ Opened(rhs, d) = 0 /\ CFG[r].lhs \notin InBraces =>
                 d = Len(rhs) /\ CFG[r].lhs \in P!ProcedureSyms

ASSUME NamesAssumption ==
  \A w \in Programs : \A n \in DOMAIN w : w[n].type \in {"ID", "WAIN"} => w[n].value # ""

FrontInit == Init /\ P!ParserInit

Recognise == Step /\ UNCHANGED parseVars

Parse ==
  /\ pc = "accepted"
  /\ P!Begin \/ P!Parse
  /\ UNCHANGED vars

\* How the front end can end; a crash is not something main() can report.
Stopped == pc = "rejected" \/ phase \in {"parsed", "error", "crash"}

FrontTerminated == Stopped /\ UNCHANGED frontVars

FrontNext == Recognise \/ Parse \/ FrontTerminated

FrontSpec == FrontInit /\ [][FrontNext]_frontVars

-----------------------------------------------------------------------------
(* Properties of both.                                                     *)

\* Types of the variables of both.
FrontTypeOK == TypeOK /\ P!TypeOK

\* Parser's MovesOn: both loops of parse() end.
MovesOn == P!MovesOn

\* The text ends with the brace that closes the last one open.
Closed ==
  LET kinds == [n \in DOMAIN tokens |-> tokens[n].type]
  IN  /\ tokens # << >>
      /\ kinds[Len(tokens)] = "RBRACE"
      /\ Opened(kinds, Len(tokens)) = 0

\* A procedure that is null is used by parse(), or is left in the list for main(),
\* which calls codegen() of every one.
UsesNull ==
  \/ phase = "crash"
  \/ phase = "parsed" /\ \E n \in DOMAIN procedures : procedures[n] = P!NoProcedure

\* Only a text that was cut short makes parse() or main() use a procedure that
\* is null: if the braces close, the element parse() begins with is a procedure,
\* although nobody asked if the start rule, or any procedure, is complete.
CrashesOnlyCutShort == UsesNull => ~ Closed
=============================================================================
