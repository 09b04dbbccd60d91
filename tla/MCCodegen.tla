----------------------------- MODULE MCCodegen ------------------------------
(***************************************************************************)
(* The code generator on the programs of CodegenSources, what it generates *)
(* being run with several inputs, against the meaning of the programs.     *)
(***************************************************************************)
EXTENDS Execution, FiniteSetsExt, TLC

CONSTANT Sources   \* the programs, as they are written

S == INSTANCE CodegenSources
R == INSTANCE Meaning

MCNumber == [numeral \in {"0", "1", "2", "16"} |->
               CASE numeral = "0" -> 0 [] numeral = "1" -> 1 [] numeral = "2" -> 2 [] numeral = "16" -> 16]

MCPrograms == { S!ParsedProgram(source) : source \in Sources }

MCAllSources == S!AllSources

MCAddressOf == S!AddressOf

RECURSIVE Subtrees(_)
Subtrees(ast) == {ast} \cup UNION { Subtrees(ast.kids[n]) : n \in DOMAIN ast.kids }

SubtreesOf(source) ==
  UNION { Subtrees(S!Block(source[m].stmts)) \cup Subtrees(source[m].ret[1]) : m \in DOMAIN source }

MCTrees == UNION { SubtreesOf(source) : source \in Sources }

MCPairs == {<< 0, 0 >>, << 1, 3 >>, << -7, 2 >>, << 5, -2 >>}

MCArrays == {<< >>, << 4 >>, << 3, -1, 2 >>}

-----------------------------------------------------------------------------

SourceOf == [ parsed \in MCPrograms |-> CHOOSE s \in Sources : S!ParsedProgram(s) = parsed ]

Source == SourceOf[program]

InputsOf(source) == IF source[Len(source)].params[1].type = "INT" THEN Pairs ELSE Arrays

\* For some outcome, whatever the input, C++ says nothing of the program.
NotCpp(source) == \A in \in InputsOf(source) : \E o \in R!Outcomes(source, in) : ~ o.ok

NullForInt(source) ==
  \E m \in DOMAIN source : \E d \in DOMAIN source[m].dcls :
    source[m].dcls[d].type = "INT" /\ source[m].dcls[d].value = "NULL_S"

\* The run has an outcome that the source allows, where C++ has one.
Allowed ==
  \E o \in R!Outcomes(Source, input) :
    \/ ~ o.ok
    \/ status = "exit" /\ output = o.out /\ result = o.result

\* What is generated does what the program means: README.md has it that WLP4 is
\* a subset of C++.
ComputesAsWritten ==
  Stopped => CASE phase = "error" -> NullForInt(Source)
               [] phase = "ill"   -> NotCpp(Source)
               [] status = "clash" -> FALSE
               [] OTHER -> Allowed

-----------------------------------------------------------------------------
(* Where it does not.                                                      *)

TypesIn(procedure) ==
  LET all == procedure.params \o procedure.dcls
  IN  [ id \in { all[d].id : d \in DOMAIN all } |-> all[CHOOSE d \in DOMAIN all : all[d].id = id].type ]

TakesAddress(source) == \E ast \in SubtreesOf(source) : ast.form = "AMP"

SubtractsPointers(source) ==
  \E m \in DOMAIN source :
    \E ast \in Subtrees(S!Block(source[m].stmts)) \cup Subtrees(source[m].ret[1]) :
      /\ ast.form = "MINUS"
      /\ S!Type(ast.kids[2], TypesIn(source[m]), [f \in {} |-> 0]) = "INT_STAR"

PassesSeveral(source) == \E ast \in SubtreesOf(source) : ast.form = "CALL" /\ Len(ast.kids) > 1

\* A procedure has a name that C uses and the procedures before it do not.
TakesName(source) ==
  LET library == ("PRINTLN" :> "printf") @@ ("DELETE" :> "free") @@ ("NEW" :> "malloc")
      Uses(m, name) == \E ast \in SubtreesOf(<< source[m] >>) :
                         ast.form \in DOMAIN library /\ library[ast.form] = name
  IN  \E m \in DOMAIN source : source[m].name \in M!CNames /\ \A l \in 1 .. (m - 1) : ~ Uses(l, source[m].name)

MakesLargeArray == \E o \in R!Outcomes(Source, input) : o.big

\* The code of a program computes what the program means, in an order of
\* evaluation that C++ allows, unless it takes the address of a variable,
\* subtracts pointers, passes two arguments, whose parameters are reversed, makes
\* an array of 2^32 bytes, or has a procedure with a name of the C library's.
ComputesAsWrittenBut ==
  \/ TakesAddress(Source) \/ SubtractsPointers(Source) \/ PassesSeveral(Source) \/ TakesName(Source)
  \/ status \in {"exit", "undefined"} /\ MakesLargeArray
  \/ ComputesAsWritten
=============================================================================
