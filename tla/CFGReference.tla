---------------------------- MODULE CFGReference ----------------------------
(***************************************************************************)
(* The language of a grammar, computed without items, lists or dots: the   *)
(* least relation between a nonterminal and the spans of the word that it  *)
(* derives.  Reference for the verdict of the Recogniser.                  *)
(*                                                                         *)
(* A span << A, a, b >> says that A derives the tokens after the first a   *)
(* up to the b-th.  Least sets are the stage at which a growing chain of   *)
(* sets stops to grow.                                                     *)
(***************************************************************************)
EXTENDS Recogniser, FiniteSets

RulesOf(A) == { r \in DOMAIN CFG : CFG[r].lhs = A }

LeftSides == { CFG[r].lhs : r \in DOMAIN CFG }

Positions(w) == 0 .. Len(w)

AllSpans(w) == LeftSides \X Positions(w) \X Positions(w)

\* Where a symbol that begins after a tokens can end.
SymbolEnds(w, spans, sym, a) ==
  { b \in Positions(w) : IF sym \in Terminals
                         THEN b = a + 1 /\ w[b].type = sym
                         ELSE << sym, a, b >> \in spans }

\* Where the first n symbols of a right-hand side that begins there can end.
StringEnds(w, spans, rhs, a) ==
  LET ends[n \in Nat] ==
        IF n = 0 THEN {a}
        ELSE UNION { SymbolEnds(w, spans, rhs[n], b) : b \in ends[n - 1] }
  IN  ends

\* What one application of the rules gives.
Derived(w, spans) ==
  UNION { { << CFG[r].lhs, a, b >> :
            b \in StringEnds(w, spans, CFG[r].rhs, a)[Len(CFG[r].rhs)] } :
          r \in DOMAIN CFG, a \in Positions(w) }

SpanStages(w) ==
  LET stage[n \in Nat] == IF n = 0 THEN {} ELSE Derived(w, stage[n - 1])
  IN  stage

\* The stage after which a chain of subsets of T does not grow.
LastStage(stage, T) ==
  stage[CHOOSE n \in 0 .. Cardinality(T) : stage[n + 1] = stage[n]]

Spans(w) == LastStage(SpanStages(w), AllSpans(w))

IsSentence(w) == << CFG[1].lhs, 0, Len(w) >> \in Spans(w)

\* << A, a >>: A can begin after a tokens in a derivation of some word of which
\* w is a prefix, as far as those tokens tell.
AllBegun(w) == LeftSides \X Positions(w)

BegunIn(w, spans, A, a) ==
  UNION { UNION { { << CFG[r].rhs[d], b >> : b \in StringEnds(w, spans, CFG[r].rhs, a)[d - 1] } :
                  d \in { e \in DOMAIN CFG[r].rhs : CFG[r].rhs[e] \in LeftSides } } :
          r \in RulesOf(A) }

Begun(w, spans, begun) ==
  UNION { {p} \cup BegunIn(w, spans, p[1], p[2]) : p \in begun }

BegunStages(w, spans) ==
  LET stage[n \in Nat] ==
        IF n = 0 THEN { << CFG[1].lhs, 0 >> } ELSE Begun(w, spans, stage[n - 1])
  IN  stage

Reach(w, spans) == LastStage(BegunStages(w, spans), AllBegun(w))

\* Some derivation from the start symbol has w as the beginning of its
\* yield (every nonterminal of the grammars checked derives some word).
IsViablePrefix(w) ==
  \E spans \in { Spans(w) } : \E p \in Reach(w, spans) :
    \E r \in RulesOf(p[1]) : \E d \in 0 .. Len(CFG[r].rhs) :
      Len(w) \in StringEnds(w, spans, CFG[r].rhs, p[2])[d]

-----------------------------------------------------------------------------

\* Every sentence of the grammar is accepted: completer(), predictor() and
\* the skipping of nullable symbols together miss nothing, whatever the order
\* in which elements reach a list that is being walked.
AcceptsEverySentence == pc = "rejected" => ~ IsSentence(tokens)

\* Exactly the beginnings of sentences are accepted: the verdict looks at
\* whether the last token could be scanned.
AcceptsViablePrefixes ==
  /\ pc = "accepted" => IsViablePrefix(tokens)
  /\ pc = "rejected" => ~ IsViablePrefix(tokens)
=============================================================================
