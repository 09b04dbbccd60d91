------------------------------ MODULE Grammar ------------------------------
(***************************************************************************)
(* Context-free grammars and the Earley elements over them: the vocabulary *)
(* that Recogniser, the final chart and the Parser share.                  *)
(*                                                                         *)
(* CFG is the sequence of rules that State's constructor pushes (state.cpp)*)
(* and an element is the triple of elem.hpp.  Rules are numbered from 1    *)
(* here, from 0 in the code.                                               *)
(***************************************************************************)
EXTENDS Naturals, Sequences

CONSTANTS
  Terminals,    \* symbols for which isTerminal() returns true
  NonTerminals, \* the others, the dummy start symbol included
  CFG           \* the rules, in the order they are pushed

Symbols == Terminals \cup NonTerminals

Rule == [lhs : NonTerminals, rhs : Seq(Symbols)]

ASSUME GrammarAssumption ==
  /\ Terminals \cap NonTerminals = {}
  /\ CFG \in Seq(Rule)
  /\ Len(CFG) > 0

Elem == [rule : 1 .. Len(CFG), start : Nat, dot : Nat]

Lhs(el) == CFG[el.rule].lhs

Rhs(el) == CFG[el.rule].rhs

IsComplete(el) == el.dot = Len(Rhs(el))

NextSymbol(el) == Rhs(el)[el.dot + 1]

Advance(el) == [el EXCEPT !.dot = @ + 1]

\* The element is incomplete and sym comes after its dot.
Expects(el, sym) == ~ IsComplete(el) /\ NextSymbol(el) = sym

\* _nullable: only a symbol that itself has an empty rule is marked.
Nullable(sym) == \E r \in DOMAIN CFG : CFG[r].lhs = sym /\ CFG[r].rhs = << >>

\* The grammars for which the recogniser is meant.  The start symbol has one
\* rule, the first, since the recogniser starts with no other; a rule that is
\* not empty has a symbol that is not nullable, so that no symbol derives the
\* empty word but by a rule of its own, since no other is ever skipped.
ASSUME StartAssumption == \A r \in DOMAIN CFG : CFG[r].lhs = CFG[1].lhs => r = 1

ASSUME NullableAssumption ==
  \A r \in DOMAIN CFG :
    CFG[r].rhs # << >> => \E d \in DOMAIN CFG[r].rhs : ~ Nullable(CFG[r].rhs[d])
=============================================================================
