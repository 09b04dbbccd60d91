-------------------------- MODULE FinalChartProofs --------------------------
(***************************************************************************)
(* The final chart is what the parser takes it for, for every program and  *)
(* every grammar whose types and declarations are those of WLP4.  A list   *)
(* with a complete type has no other complete element, so that what was    *)
(* added last before a type -> INT STAR is the type -> INT it shadows.     *)
(***************************************************************************)
EXTENDS RecogniserProofs, FinalChart

(* What is in the lists after a type.                                      *)

\* The symbol before the dot.
After(el, sym) == el.dot > 0 /\ Rhs(el)[el.dot] = sym

\* The dot has moved over a terminal.
ByScanner(el) == el.dot > 0 /\ Rhs(el)[el.dot] \in Terminals

\* The k-th token is of this type.
Reads(k, sym) == k > 0 /\ tokens[k].type = sym

\* What is predicted starts in its list.
Fresh(f) == f.el.dot = 0 => f.el.start = f.at

\* What the scanner added was an element of the list before, which expected the token.
ScannedFrom(f) ==
  ByScanner(f.el) =>
    /\ f.at > 0
    /\ \E g \in ChartFacts : /\ g.at + 1 = f.at
                             /\ Expects(g.el, tokens[f.at].type)
                             /\ f.el = Advance(g.el)

\* A type has read its own symbols, where a type was expected.
ReadsType(f) ==
  Lhs(f.el) = "type" =>
    /\ f.at = f.el.start + f.el.dot
    /\ \A d \in 1 .. f.el.dot : tokens[f.el.start + d].type = Rhs(f.el)[d]
    /\ \E g \in ChartFacts : g.at = f.el.start /\ Expects(g.el, "type")

\* A dcl past its type found one complete that starts where it does.
HasType(f) ==
  Lhs(f.el) = "dcl" /\ f.el.dot > 0 =>
    \E g \in ChartFacts :
      /\ Lhs(g.el) = "type" /\ IsComplete(g.el)
      /\ g.el.start = f.el.start /\ g.at + f.el.dot = f.at + 1

\* A list of declarations past its dcl found one complete, and then read the
\* terminals of its rule.
HasDcl(f) ==
  Lhs(f.el) = "dcls" /\ f.el.dot > 1 =>
    /\ \E g \in ChartFacts :
         Lhs(g.el) = "dcl" /\ IsComplete(g.el) /\ g.at + f.el.dot = f.at + 2
    /\ \A d \in 3 .. f.el.dot : tokens[f.at - f.el.dot + d].type = Rhs(f.el)[d]

\* dcl -> type . ID
DeclaresAfterType(el) == Lhs(el) = "dcl" /\ el.dot = 1

\* The only other element in a list after an INT is the declaration of that type,
AfterInt(f) == Reads(f.at, "INT") => After(f.el, "INT") \/ DeclaresAfterType(f.el)

\* and in a list after an INT STAR there is just that type and its declaration.
AfterPointer(f) ==
  f.at > 1 /\ Reads(f.at, "STAR") /\ Reads(f.at - 1, "INT") =>
    (Lhs(f.el) = "type" /\ f.el.dot = 2) \/ DeclaresAfterType(f.el)

\* The first d symbols of the rule are terminals.
Literal(el, d) == \A e \in 1 .. d : Rhs(el)[e] \in Terminals

\* The terminals before the dot that the rule begins with were read one by one.
ReadsLiterals(f) ==
  /\ Literal(f.el, f.el.dot) => f.at = f.el.start + f.el.dot
  /\ \A d \in 1 .. f.el.dot :
       Literal(f.el, d) => f.el.start + d <= f.at /\ tokens[f.el.start + d].type = Rhs(f.el)[d]

Shape(f) ==
  /\ Fresh(f) /\ ScannedFrom(f) /\ ReadsType(f) /\ HasType(f) /\ AfterInt(f) /\ AfterPointer(f)
  /\ ReadsLiterals(f) /\ HasDcl(f)

Shapes == \A f \in ChartFacts : Shape(f)

\* The fields of an element that is a fact of the chart.
LEMMA FactFields ==
  ASSUME IInv, NEW f \in ChartFacts
  PROVE  /\ f.at \in Nat /\ f.at <= Len(tokens) /\ Len(tokens) \in Nat
         /\ f.el \in Elem /\ f.el.rule \in DOMAIN CFG
         /\ f.el.start \in Nat /\ f.el.start <= f.at
         /\ f.el.dot \in Nat /\ f.el.dot <= Len(Rhs(f.el))
         /\ Rhs(f.el) \in Seq(Symbols) /\ Lhs(f.el) \in NonTerminals
         /\ ~ IsComplete(f.el) => f.el.dot + 1 \in DOMAIN Rhs(f.el)
<1>1. Len(tokens) \in Nat
  BY DEF IInv, TypeOK
<1>2. f.at \in Positions(tokens) /\ f.el \in ElemsAt(f.at + 1) /\ f.el.rule \in DOMAIN CFG
  BY FactType DEF IInv
<1>3. f.at \in Nat /\ f.at <= Len(tokens) /\ f.at + 1 \in Nat
  BY <1>1, <1>2 DEF Positions
<1>4. /\ f.el \in Elem /\ f.el.start \in Nat /\ f.el.dot \in Nat /\ f.el.start < f.at + 1
      /\ Rhs(f.el) \in Seq(Symbols) /\ f.el.dot <= Len(Rhs(f.el))
  BY <1>2, <1>3, ElemFields
<1>5. Lhs(f.el) \in NonTerminals
  BY <1>2, RuleLength DEF Lhs
<1>6. ~ IsComplete(f.el) => f.el.dot + 1 \in DOMAIN Rhs(f.el)
  BY <1>4 DEF IsComplete
<1> QED
  BY <1>1, <1>2, <1>3, <1>4, <1>5, <1>6

\* Moving the dot of a fact's element.
LEMMA AdvanceFields ==
  ASSUME IInv, NEW g \in ChartFacts, ~ IsComplete(g.el)
  PROVE  /\ Advance(g.el).rule = g.el.rule
         /\ Advance(g.el).start = g.el.start
         /\ Advance(g.el).dot = g.el.dot + 1
         /\ Lhs(Advance(g.el)) = Lhs(g.el) /\ Rhs(Advance(g.el)) = Rhs(g.el)
         /\ Rhs(g.el)[g.el.dot + 1] = NextSymbol(g.el)
<1>1. g.el \in Elem
  BY FactFields
<1>2. /\ Advance(g.el).rule = g.el.rule /\ Advance(g.el).start = g.el.start
      /\ Advance(g.el).dot = g.el.dot + 1
  BY <1>1 DEF Advance, Elem
<1> QED
  BY <1>2 DEF Lhs, Rhs, NextSymbol

\* The rules by which a fact can follow, read backwards.
LEMMA Inversion ==
  ASSUME IInv, NEW f, f.el \in Elem, f.at \in Nat, Rules!Follows(f)
  PROVE  \/ /\ f.el.dot = 0 /\ f.el.start = f.at
            /\ \E g \in ChartFacts : g.at = f.at /\ Expects(g.el, Lhs(f.el))
         \/ \E g \in ChartFacts :
              /\ g.at + 1 = f.at /\ f.at <= Len(tokens)
              /\ Expects(g.el, tokens[f.at].type) /\ tokens[f.at].type \in Terminals
              /\ f.el = Advance(g.el)
         \/ \E g \in ChartFacts :
              /\ g.at = f.at /\ ~ IsComplete(g.el) /\ f.el = Advance(g.el)
              /\ NextSymbol(g.el) \in NonTerminals /\ Nullable(NextSymbol(g.el))
         \/ \E g, h \in ChartFacts :
              /\ h.at = f.at /\ IsComplete(h.el) /\ h.el.start = g.at
              /\ Expects(g.el, Lhs(h.el)) /\ f.el = Advance(g.el)
<1>1. CASE Rules!Predicted(f)
  BY <1>1 DEF Rules!Predicted, Rules!Expects, Rules!Lhs, Expects, Lhs, Rules!IsComplete,
     IsComplete, Rules!NextSymbol, NextSymbol, Rules!Rhs, Rhs
<1>2. CASE Rules!Scanned(f)
  <2>1. PICK g \in ChartFacts :
          /\ g.at < Len(tokens) /\ f.at = g.at + 1
          /\ Expects(g.el, tokens[f.at].type) /\ f.el = Advance(g.el)
    BY <1>2 DEF Rules!Scanned, Rules!Expects, Rules!Advance, Expects, Advance,
         Rules!IsComplete, IsComplete, Rules!NextSymbol, NextSymbol, Rules!Rhs, Rhs
  <2>2. f.at \in 1 .. Len(tokens) /\ f.at <= Len(tokens)
    BY <2>1, FactFields
  <2>3. tokens[f.at] \in Token
    BY <2>2 DEF IInv, TypeOK
  <2> QED
    BY <2>1, <2>2, <2>3 DEF Token
<1>3. CASE Rules!Skipped(f)
  <2>1. PICK g \in ChartFacts :
          /\ f.at = g.at /\ ~ IsComplete(g.el) /\ Nullable(NextSymbol(g.el))
          /\ f.el = Advance(g.el)
    BY <1>3 DEF Rules!Skipped, Rules!IsComplete, IsComplete, Rules!NextSymbol, NextSymbol,
         Rules!Rhs, Rhs, Rules!Nullable, Nullable, Rules!Advance, Advance
  <2>2. NextSymbol(g.el) \in NonTerminals
    BY <2>1, RuleLength DEF Nullable
  <2> QED
    BY <2>1, <2>2
<1>4. CASE Rules!Completed(f)
  BY <1>4 DEF Rules!Completed, Rules!Expects, Expects, Rules!IsComplete, IsComplete,
     Rules!NextSymbol, NextSymbol, Rules!Rhs, Rhs, Rules!Lhs, Lhs, Rules!Advance, Advance
<1> QED
  BY <1>1, <1>2, <1>3, <1>4 DEF Rules!Follows

-----------------------------------------------------------------------------
(* The rules of types and declarations.                                    *)

\* The symbols of a type are terminals, the first of them an INT.
LEMMA TypeRule ==
  ASSUME NEW el, el.rule \in DOMAIN CFG, Lhs(el) = "type"
  PROVE  /\ Len(Rhs(el)) \in {1, 2}
         /\ DOMAIN Rhs(el) = 1 .. Len(Rhs(el))
         /\ Rhs(el)[1] = "INT"
         /\ Len(Rhs(el)) = 1 => Rhs(el) = << "INT" >>
         /\ Len(Rhs(el)) = 2 => Rhs(el) = << "INT", "STAR" >> /\ Rhs(el)[2] = "STAR"
         /\ \A d \in DOMAIN Rhs(el) : Rhs(el)[d] \in Terminals
<1>1. Rhs(el) = << "INT" >> \/ Rhs(el) = << "INT", "STAR" >>
  BY TypesAssumption DEF Lhs, Rhs
<1>2. "INT" \in Terminals /\ "STAR" \in Terminals
  BY TypesAssumption
<1>3. CASE Rhs(el) = << "INT" >>
  BY <1>2, <1>3
<1>4. CASE Rhs(el) = << "INT", "STAR" >>
  BY <1>2, <1>4
<1> QED
  BY <1>1, <1>3, <1>4

\* A declaration is a type and an ID.
LEMMA DclRule ==
  ASSUME NEW el, el.rule \in DOMAIN CFG, Lhs(el) = "dcl"
  PROVE  /\ Len(Rhs(el)) = 2
         /\ Rhs(el) = << "type", "ID" >>
         /\ Rhs(el)[1] = "type" /\ Rhs(el)[2] = "ID"
<1>1. Rhs(el) = << "type", "ID" >>
  BY TypesAssumption DEF Lhs, Rhs
<1> QED
  BY <1>1

\* A list of declarations that is not empty.
LEMMA DclsRule ==
  ASSUME NEW el, el.rule \in DOMAIN CFG, Lhs(el) = "dcls", Rhs(el) # << >>
  PROVE  /\ Len(Rhs(el)) = 5 /\ DOMAIN Rhs(el) = 1 .. 5
         /\ Rhs(el)[1] = "dcls" /\ Rhs(el)[2] = "dcl" /\ Rhs(el)[3] = "BECOMES"
         /\ Rhs(el)[4] \in {"NUM", "NULL_S"} /\ Rhs(el)[5] = "SEMI"
<1>1. \/ Rhs(el) = << "dcls", "dcl", "BECOMES", "NUM", "SEMI" >>
      \/ Rhs(el) = << "dcls", "dcl", "BECOMES", "NULL_S", "SEMI" >>
  BY DclsAssumption DEF Lhs, Rhs
<1> QED
  BY <1>1

\* Only a declaration has a type in it, and as its first symbol.
LEMMA TypeInRule ==
  ASSUME NEW el, el.rule \in DOMAIN CFG, NEW d \in DOMAIN Rhs(el), Rhs(el)[d] = "type"
  PROVE  Lhs(el) = "dcl" /\ d = 1
<1>1. Lhs(el) = "dcl"
  BY TypesAssumption DEF Lhs, Rhs
<1>2. Rhs(el) = << "type", "ID" >>
  BY <1>1, DclRule
<1> QED
  BY <1>1, <1>2

\* What comes after an INT.
LEMMA IntInRule ==
  ASSUME NEW el, el.rule \in DOMAIN CFG, NEW d \in DOMAIN Rhs(el), Rhs(el)[d] = "INT"
  PROVE  /\ Lhs(el) = "type" => d = 1
         /\ Lhs(el) # "type" => /\ d + 1 < Len(Rhs(el))
                                /\ Rhs(el)[d + 1] \in Terminals
                                /\ Rhs(el)[d + 1] # "STAR"
<1>1. CASE Lhs(el) = "type"
  <2>1. Len(Rhs(el)) = 2 => Rhs(el)[2] = "STAR"
    BY <1>1, TypeRule
  <2>2. d \in 1 .. Len(Rhs(el)) /\ Len(Rhs(el)) \in {1, 2}
    BY <1>1, TypeRule
  <2> QED
    BY <1>1, <2>1, <2>2
<1>2. CASE Lhs(el) # "type"
  BY <1>2, TypesAssumption DEF Lhs, Rhs
<1> QED
  BY <1>1, <1>2

\* The symbols of types and declarations are of one kind each.
LEMMA SymbolKinds ==
  /\ "INT" \in Terminals /\ "STAR" \in Terminals /\ "ID" \in Terminals
  /\ "INT" \notin NonTerminals /\ "STAR" \notin NonTerminals /\ "ID" \notin NonTerminals
  /\ "type" \notin Terminals /\ "dcl" \notin Terminals
  /\ \A sym : sym \in Terminals => sym \notin NonTerminals
BY TypesAssumption, GrammarAssumption

\* Elements of one list that are about the same rule of a type or a declaration
\* and have come as far are the same.
LEMMA SameElem ==
  ASSUME IInv, NEW f \in ChartFacts, NEW g \in ChartFacts,
         Lhs(f.el) \in {"type", "dcl"}, Lhs(g.el) = Lhs(f.el), Rhs(g.el) = Rhs(f.el),
         g.el.start = f.el.start, g.el.dot = f.el.dot
  PROVE  g.el = f.el
<1>1. f.el \in Elem /\ g.el \in Elem /\ f.el.rule \in DOMAIN CFG /\ g.el.rule \in DOMAIN CFG
  BY FactFields
<1>2. CFG[f.el.rule] \in Rule /\ CFG[g.el.rule] \in Rule
  BY <1>1, GrammarAssumption
<1>3. CFG[g.el.rule] = CFG[f.el.rule]
  BY <1>2 DEF Lhs, Rhs, Rule
<1>4. g.el.rule = f.el.rule
  BY <1>1, <1>3, TypesAssumption DEF Lhs
<1> QED
  BY <1>1, <1>4 DEF Elem

-----------------------------------------------------------------------------
(* What follows has the shape of what was there.                           *)

\* The symbol that a fact has read last, and its kind.
LEMMA LastSymbol ==
  ASSUME IInv, NEW g \in ChartFacts, ~ IsComplete(g.el), NEW el, el = Advance(g.el)
  PROVE  /\ el.dot > 0 /\ el.dot \in Nat /\ el.dot = g.el.dot + 1 /\ el.dot \in DOMAIN Rhs(g.el)
         /\ Rhs(el)[el.dot] = NextSymbol(g.el)
         /\ Lhs(el) = Lhs(g.el) /\ Rhs(el) = Rhs(g.el)
         /\ el.start = g.el.start /\ el.rule = g.el.rule /\ g.el.rule \in DOMAIN CFG
BY FactFields, AdvanceFields

\* A fact in a list after an INT that expects something expects a terminal,
\* and a STAR in a type only.
LEMMA ExpectedAfterInt ==
  ASSUME IInv, NEW g \in ChartFacts, AfterInt(g), Reads(g.at, "INT"), ~ IsComplete(g.el)
  PROVE  /\ NextSymbol(g.el) \in Terminals
         /\ NextSymbol(g.el) = "STAR" => Lhs(g.el) = "type" /\ g.el.dot = 1
         /\ NextSymbol(g.el) = "ID" /\ ~ DeclaresAfterType(g.el) => g.el.dot + 1 < Len(Rhs(g.el))
<1>1. After(g.el, "INT") \/ DeclaresAfterType(g.el)
  BY DEF AfterInt
<1>2. /\ g.el.dot \in Nat /\ g.el.dot + 1 \in DOMAIN Rhs(g.el) /\ g.el.rule \in DOMAIN CFG
      /\ Rhs(g.el) \in Seq(Symbols) /\ NextSymbol(g.el) = Rhs(g.el)[g.el.dot + 1]
  BY FactFields, AdvanceFields
<1>3. CASE DeclaresAfterType(g.el)
  <2>1. NextSymbol(g.el) = "ID"
    BY <1>2, <1>3, DclRule DEF DeclaresAfterType
  <2> QED
    BY <1>3, <2>1, SymbolKinds
<1>4. CASE After(g.el, "INT")
  <2> DEFINE d == g.el.dot
  <2>1. d \in DOMAIN Rhs(g.el) /\ Rhs(g.el)[d] = "INT"
    BY <1>2, <1>4 DEF After
  <2>2. CASE Lhs(g.el) = "type"
    <3>1. d = 1
      BY <1>2, <2>1, <2>2, IntInRule
    <3>2. NextSymbol(g.el) = "STAR"
      BY <1>2, <2>2, <3>1, TypeRule
    <3> QED
      BY <2>2, <3>1, <3>2, SymbolKinds
  <2>3. CASE Lhs(g.el) # "type"
    BY <1>2, <2>1, <2>3, IntInRule
  <2> QED
    BY <2>2, <2>3
<1> QED
  BY <1>1, <1>3, <1>4

\* A complete fact in a list after an INT is the type INT.
LEMMA CompleteAfterInt ==
  ASSUME IInv, NEW g \in ChartFacts, AfterInt(g), Reads(g.at, "INT"), IsComplete(g.el)
  PROVE  Lhs(g.el) = "type" /\ Rhs(g.el) = << "INT" >> /\ g.el.dot = 1
<1>1. After(g.el, "INT") \/ DeclaresAfterType(g.el)
  BY DEF AfterInt
<1>2. /\ g.el.dot \in Nat /\ g.el.rule \in DOMAIN CFG /\ Rhs(g.el) \in Seq(Symbols)
      /\ g.el.dot = Len(Rhs(g.el))
  BY FactFields DEF IsComplete
<1>3. ~ DeclaresAfterType(g.el)
  BY <1>2, DclRule DEF DeclaresAfterType
<1> DEFINE d == g.el.dot
<1>4. d \in DOMAIN Rhs(g.el) /\ Rhs(g.el)[d] = "INT"
  BY <1>1, <1>2, <1>3 DEF After
<1>5. Lhs(g.el) = "type" /\ d = 1
  <2>1. Lhs(g.el) # "type" => d + 1 < Len(Rhs(g.el))
    BY <1>2, <1>4, IntInRule
  <2>2. Lhs(g.el) = "type"
    BY <1>2, <2>1
  <2> QED
    BY <1>2, <1>4, <2>2, IntInRule
<1> QED
  BY <1>2, <1>5, TypeRule

\* The same in a list after an INT STAR.
LEMMA CompleteAfterPointer ==
  ASSUME IInv, NEW g \in ChartFacts, AfterPointer(g),
         g.at > 1, Reads(g.at, "STAR"), Reads(g.at - 1, "INT")
  PROVE  /\ IsComplete(g.el) => Lhs(g.el) = "type" /\ Len(Rhs(g.el)) = 2 /\ g.el.dot = 2
         /\ ~ IsComplete(g.el) => DeclaresAfterType(g.el) /\ NextSymbol(g.el) = "ID"
<1>1. (Lhs(g.el) = "type" /\ g.el.dot = 2) \/ DeclaresAfterType(g.el)
  BY DEF AfterPointer
<1>2. /\ g.el.rule \in DOMAIN CFG /\ g.el.dot <= Len(Rhs(g.el)) /\ g.el.dot \in Nat
      /\ Rhs(g.el) \in Seq(Symbols)
  BY FactFields
<1>3. CASE Lhs(g.el) = "type" /\ g.el.dot = 2
  <2>1. Len(Rhs(g.el)) = 1 \/ Len(Rhs(g.el)) = 2
    BY <1>2, <1>3, TypeRule
  <2>2. Len(Rhs(g.el)) # 1
    BY <1>2, <1>3
  <2> QED
    BY <1>3, <2>1, <2>2 DEF IsComplete
<1>4. CASE DeclaresAfterType(g.el)
  <2>1. Len(Rhs(g.el)) = 2 /\ Rhs(g.el)[2] = "ID" /\ g.el.dot = 1
    BY <1>2, <1>4, DclRule DEF DeclaresAfterType
  <2> QED
    BY <1>4, <2>1 DEF IsComplete, NextSymbol
<1> QED
  BY <1>1, <1>3, <1>4

\* The terminals that were read remain when the dot moves on,
LEMMA AdvanceLiterals ==
  ASSUME IInv, NEW f, f.at \in Nat, NEW g \in ChartFacts, ReadsLiterals(g),
         ~ IsComplete(g.el), f.el = Advance(g.el), g.at <= f.at,
         NextSymbol(g.el) \in Terminals =>
           g.at + 1 = f.at /\ tokens[f.at].type = NextSymbol(g.el)
  PROVE  ReadsLiterals(f)
<1>1. /\ f.el.dot \in Nat /\ f.el.dot = g.el.dot + 1
      /\ Rhs(f.el)[f.el.dot] = NextSymbol(g.el)
      /\ Rhs(f.el) = Rhs(g.el) /\ f.el.start = g.el.start
  BY LastSymbol
<1>2. g.el.dot \in Nat /\ g.el.start \in Nat /\ g.at \in Nat
  BY FactFields
<1>3. \A d : Literal(f.el, d) <=> Literal(g.el, d)
  BY <1>1 DEF Literal
<1>4. ASSUME Literal(f.el, f.el.dot)
      PROVE  /\ f.at = f.el.start + f.el.dot
             /\ tokens[f.el.start + f.el.dot].type = Rhs(f.el)[f.el.dot]
  <2>1. f.el.dot \in 1 .. f.el.dot /\ 1 .. g.el.dot \subseteq 1 .. f.el.dot
    BY <1>1, <1>2
  <2>2. NextSymbol(g.el) \in Terminals
    BY <1>1, <1>4, <2>1 DEF Literal
  <2>3. Literal(g.el, g.el.dot)
    BY <1>1, <1>4, <2>1 DEF Literal
  <2>4. g.at = g.el.start + g.el.dot
    BY <2>3 DEF ReadsLiterals
  <2>5. f.at = f.el.start + f.el.dot
    BY <1>1, <1>2, <2>2, <2>4
  <2> QED
    BY <1>1, <2>2, <2>5
<1>5. ASSUME NEW d \in 1 .. f.el.dot, Literal(f.el, d)
      PROVE  f.el.start + d <= f.at /\ tokens[f.el.start + d].type = Rhs(f.el)[d]
  <2>1. CASE d = f.el.dot
    <3>1. f.at = f.el.start + d /\ tokens[f.el.start + d].type = Rhs(f.el)[d]
      BY <1>4, <1>5, <2>1
    <3> QED
      BY <3>1
  <2>2. CASE d # f.el.dot
    <3>1. d \in 1 .. g.el.dot
      BY <1>1, <1>2, <1>5, <2>2
    <3>2. g.el.start + d <= g.at /\ tokens[g.el.start + d].type = Rhs(g.el)[d]
      BY <1>3, <1>5, <3>1 DEF ReadsLiterals
    <3> QED
      BY <1>1, <1>2, <3>1, <3>2
  <2> QED
    BY <2>1, <2>2
<1> QED
  BY <1>4, <1>5 DEF ReadsLiterals

\* and nothing was read by what has just been predicted.
LEMMA PredictLiterals ==
  ASSUME NEW f, f.at \in Nat, f.el.dot = 0, f.el.start = f.at
  PROVE  ReadsLiterals(f)
<1>1. f.at = f.el.start + f.el.dot /\ 1 .. f.el.dot = {}
  OBVIOUS
<1> QED
  BY <1>1 DEF ReadsLiterals

\* What an element is predicted as has the shape.
LEMMA PredictedShape ==
  ASSUME IInv, Shapes, NEW f, f.el \in Elem, f.at \in Nat,
         f.el.dot = 0, f.el.start = f.at,
         NEW g \in ChartFacts, g.at = f.at, Expects(g.el, Lhs(f.el))
  PROVE  Shape(f)
<1>1. f.el.rule \in DOMAIN CFG /\ Lhs(f.el) \in NonTerminals
  BY GrammarAssumption, RuleOf DEF Elem, Lhs
<1>2. ~ IsComplete(g.el) /\ NextSymbol(g.el) \in NonTerminals
  BY <1>1 DEF Expects
<1>3. AfterInt(g) /\ AfterPointer(g)
  BY DEF Shapes, Shape
<1>4. ~ Reads(f.at, "INT")
  BY <1>2, <1>3, ExpectedAfterInt, SymbolKinds
<1>5. ~ (f.at > 1 /\ Reads(f.at, "STAR") /\ Reads(f.at - 1, "INT"))
  BY <1>2, <1>3, CompleteAfterPointer, SymbolKinds
<1>6. ReadsType(f)
  <2>1. 1 .. f.el.dot = {} /\ f.at = f.el.start + f.el.dot
    OBVIOUS
  <2>2. Lhs(f.el) = "type" => \E h \in ChartFacts : h.at = f.el.start /\ Expects(h.el, "type")
    OBVIOUS
  <2> QED
    BY <2>1, <2>2 DEF ReadsType
<1>7. ReadsLiterals(f)
  BY PredictLiterals
<1> QED
  BY <1>4, <1>5, <1>6, <1>7
     DEF Shape, Fresh, ScannedFrom, ByScanner, HasType, HasDcl, AfterInt, AfterPointer

\* What is scanned has the shape.
LEMMA ScannedShape ==
  ASSUME IInv, Shapes, NEW f, f.el \in Elem, f.at \in Nat,
         NEW g \in ChartFacts, g.at + 1 = f.at, Expects(g.el, tokens[f.at].type),
         tokens[f.at].type \in Terminals, f.el = Advance(g.el)
  PROVE  Shape(f)
<1>1. ~ IsComplete(g.el) /\ NextSymbol(g.el) = tokens[f.at].type
  BY DEF Expects
<1>2. /\ f.el.dot > 0 /\ f.el.dot \in Nat /\ f.el.dot = g.el.dot + 1
      /\ f.el.dot \in DOMAIN Rhs(g.el)
      /\ Rhs(f.el)[f.el.dot] = tokens[f.at].type
      /\ Lhs(f.el) = Lhs(g.el) /\ Rhs(f.el) = Rhs(g.el)
      /\ f.el.start = g.el.start /\ g.el.rule \in DOMAIN CFG
  BY <1>1, LastSymbol
<1>3. g.el.dot \in Nat /\ g.el.start \in Nat /\ g.at \in Nat
  BY FactFields
<1>4. ReadsType(g) /\ HasType(g) /\ AfterInt(g) /\ AfterPointer(g)
  BY DEF Shapes, Shape
<1>5. Fresh(f)
  BY <1>2 DEF Fresh
<1>6. ScannedFrom(f)
  BY <1>3 DEF ScannedFrom
<1>7. ReadsType(f)
  <2> SUFFICES ASSUME Lhs(f.el) = "type"
               PROVE  /\ f.at = f.el.start + f.el.dot
                      /\ \A d \in 1 .. f.el.dot : tokens[f.el.start + d].type = Rhs(f.el)[d]
                      /\ \E h \in ChartFacts : h.at = f.el.start /\ Expects(h.el, "type")
    BY DEF ReadsType
  <2>1. /\ g.at = g.el.start + g.el.dot
        /\ \A d \in 1 .. g.el.dot : tokens[g.el.start + d].type = Rhs(g.el)[d]
        /\ \E h \in ChartFacts : h.at = g.el.start /\ Expects(h.el, "type")
    BY <1>2, <1>4 DEF ReadsType
  <2>2. f.at = f.el.start + f.el.dot
    BY <1>2, <1>3, <2>1
  <2>3. ASSUME NEW d \in 1 .. f.el.dot PROVE tokens[f.el.start + d].type = Rhs(f.el)[d]
    <3>1. CASE d = f.el.dot
      BY <1>2, <2>2, <3>1
    <3>2. CASE d # f.el.dot
      <4>1. d \in 1 .. g.el.dot
        BY <1>2, <1>3, <3>2
      <4> QED
        BY <1>2, <2>1, <4>1
    <3> QED
      BY <3>1, <3>2
  <2> QED
    BY <1>2, <2>1, <2>2, <2>3
<1>8. HasType(f)
  <2> SUFFICES ASSUME Lhs(f.el) = "dcl"
               PROVE  \E h \in ChartFacts :
                        /\ Lhs(h.el) = "type" /\ IsComplete(h.el)
                        /\ h.el.start = f.el.start /\ h.at + f.el.dot = f.at + 1
    BY DEF HasType
  <2>1. Len(Rhs(g.el)) = 2 /\ Rhs(g.el)[1] = "type"
    BY <1>2, DclRule
  <2>2. f.el.dot # 1
    BY <1>2, <2>1, SymbolKinds
  <2>3. g.el.dot > 0
    BY <1>2, <1>3, <2>2
  <2>4. PICK h \in ChartFacts :
          /\ Lhs(h.el) = "type" /\ IsComplete(h.el)
          /\ h.el.start = g.el.start /\ h.at + g.el.dot = g.at + 1
    BY <1>2, <1>4, <2>3 DEF HasType
  <2>5. h.at \in Nat
    BY FactFields
  <2>6. h.at + f.el.dot = f.at + 1
    BY <1>2, <1>3, <2>4, <2>5
  <2> QED
    BY <1>2, <2>4, <2>6
<1>9. AfterInt(f)
  BY <1>2 DEF AfterInt, Reads, After
<1>10. AfterPointer(f)
  <2> SUFFICES ASSUME Reads(f.at, "STAR"), Reads(f.at - 1, "INT")
               PROVE  Lhs(f.el) = "type" /\ f.el.dot = 2
    BY DEF AfterPointer
  <2>1. Reads(g.at, "INT")
    <3>1. f.at - 1 = g.at
      BY <1>3
    <3> QED
      BY <3>1
  <2>2. NextSymbol(g.el) = "STAR"
    BY <1>1 DEF Reads
  <2>3. Lhs(g.el) = "type" /\ g.el.dot = 1
    BY <1>1, <1>4, <2>1, <2>2, ExpectedAfterInt
  <2> QED
    BY <1>2, <2>3
<1>11. ReadsLiterals(f)
  <2>1. ReadsLiterals(g) /\ g.at <= f.at
    BY <1>3 DEF Shapes, Shape
  <2> QED
    BY <1>1, <2>1, AdvanceLiterals
<1>12. HasDcl(f)
  <2> SUFFICES ASSUME Lhs(f.el) = "dcls", f.el.dot > 1
               PROVE  /\ \E h \in ChartFacts :
                           Lhs(h.el) = "dcl" /\ IsComplete(h.el) /\ h.at + f.el.dot = f.at + 2
                      /\ \A d \in 3 .. f.el.dot : tokens[f.at - f.el.dot + d].type = Rhs(f.el)[d]
    BY DEF HasDcl
  <2>1. Rhs(g.el) # << >>
    BY <1>2
  <2>2. Rhs(g.el)[2] = "dcl"
    BY <1>2, <2>1, DclsRule
  <2>3. f.el.dot # 2 /\ g.el.dot > 1
    BY <1>2, <1>3, <2>2, SymbolKinds
  <2>4. HasDcl(g)
    BY DEF Shapes, Shape
  <2>5. PICK h \in ChartFacts :
          Lhs(h.el) = "dcl" /\ IsComplete(h.el) /\ h.at + g.el.dot = g.at + 2
    BY <1>2, <2>3, <2>4 DEF HasDcl
  <2>6. h.at + f.el.dot = f.at + 2
    <3>1. h.at \in Nat
      BY FactFields
    <3> QED
      BY <1>2, <1>3, <2>5, <3>1
  <2>7. ASSUME NEW d \in 3 .. f.el.dot PROVE tokens[f.at - f.el.dot + d].type = Rhs(f.el)[d]
    <3>1. CASE d = f.el.dot
      <4>1. f.at - f.el.dot + d = f.at
        BY <1>2, <3>1
      <4> QED
        BY <1>2, <3>1, <4>1
    <3>2. CASE d # f.el.dot
      <4>1. d \in 3 .. g.el.dot /\ f.at - f.el.dot + d = g.at - g.el.dot + d
        BY <1>2, <1>3, <3>2
      <4>2. tokens[g.at - g.el.dot + d].type = Rhs(g.el)[d]
        BY <1>2, <2>3, <2>4, <4>1 DEF HasDcl
      <4> QED
        BY <1>2, <4>1, <4>2
    <3> QED
      BY <3>1, <3>2
  <2> QED
    BY <2>5, <2>6, <2>7
<1> QED
  BY <1>5, <1>6, <1>7, <1>8, <1>9, <1>10, <1>11, <1>12 DEF Shape

\* What has moved over a symbol that is not a terminal has the shape: after a
\* type there is no such symbol but the type itself.
LEMMA AdvancedShape ==
  ASSUME IInv, Shapes, NEW f, f.el \in Elem, f.at \in Nat,
         NEW g \in ChartFacts, ~ IsComplete(g.el), f.el = Advance(g.el),
         NextSymbol(g.el) \in NonTerminals,
         \/ g.at = f.at /\ Nullable(NextSymbol(g.el))
         \/ \E h \in ChartFacts : /\ h.at = f.at /\ IsComplete(h.el) /\ h.el.start = g.at
                                  /\ Lhs(h.el) = NextSymbol(g.el)
  PROVE  Shape(f)
<1>1. /\ f.el.dot > 0 /\ f.el.dot \in Nat /\ f.el.dot = g.el.dot + 1
      /\ f.el.dot \in DOMAIN Rhs(g.el)
      /\ Rhs(f.el)[f.el.dot] = NextSymbol(g.el)
      /\ Lhs(f.el) = Lhs(g.el) /\ Rhs(f.el) = Rhs(g.el)
      /\ f.el.start = g.el.start /\ g.el.rule \in DOMAIN CFG
  BY LastSymbol
<1>2. NextSymbol(g.el) \notin Terminals
  BY SymbolKinds
<1>3. Fresh(f) /\ ScannedFrom(f)
  BY <1>1, <1>2 DEF Fresh, ScannedFrom, ByScanner
<1>4. ReadsType(f)
  <2>1. Lhs(f.el) # "type"
    BY <1>1, <1>2, TypeRule
  <2> QED
    BY <2>1 DEF ReadsType
<1>5. ~ Nullable("type")
  <2>1. << "INT" >> # << >> /\ << "INT", "STAR" >> # << >>
    OBVIOUS
  <2>2. \A r \in DOMAIN CFG : CFG[r].lhs = "type" => CFG[r].rhs # << >>
    <3>1. \A r \in DOMAIN CFG : CFG[r].lhs = "type" => CFG[r].rhs \in {<< "INT" >>, << "INT", "STAR" >>}
      BY TypesAssumption
    <3> QED
      BY <2>1, <3>1
  <2> QED
    BY <2>2 DEF Nullable
<1>6. \A q \in ChartFacts : Fresh(q) /\ AfterInt(q) /\ AfterPointer(q)
  BY DEF Shapes, Shape
<1>7. ASSUME NextSymbol(g.el) = "type"
      PROVE  Lhs(f.el) = "dcl" /\ f.el.dot = 1 /\ g.el.dot = 0
  <2>1. Lhs(g.el) = "dcl" /\ f.el.dot = 1
    BY <1>1, <1>7, TypeInRule
  <2>2. g.el.dot \in Nat
    BY FactFields
  <2> QED
    BY <1>1, <2>1, <2>2
<1>8. HasType(f)
  <2> SUFFICES ASSUME Lhs(f.el) = "dcl"
               PROVE  \E h \in ChartFacts :
                        /\ Lhs(h.el) = "type" /\ IsComplete(h.el)
                        /\ h.el.start = f.el.start /\ h.at + f.el.dot = f.at + 1
    BY DEF HasType
  <2>1. Len(Rhs(g.el)) = 2 /\ Rhs(g.el)[1] = "type" /\ Rhs(g.el)[2] = "ID"
    BY <1>1, DclRule
  <2>2. f.el.dot # 2
    BY <1>1, <1>2, <2>1, SymbolKinds
  <2>3. f.el.dot = 1 \/ f.el.dot = 2
    <3>1. Rhs(g.el) \in Seq(Symbols)
      BY FactFields
    <3> QED
      BY <1>1, <2>1, <3>1
  <2>4. NextSymbol(g.el) = "type"
    BY <1>1, <2>1, <2>2, <2>3
  <2>5. PICK h \in ChartFacts : /\ h.at = f.at /\ IsComplete(h.el) /\ h.el.start = g.at
                                /\ Lhs(h.el) = "type"
    BY <1>5, <2>4
  <2>6. g.el.start = g.at
    BY <1>6, <1>7, <2>4 DEF Fresh
  <2>7. h.at + f.el.dot = f.at + 1
    BY <1>7, <2>4, <2>5
  <2> QED
    BY <1>1, <2>5, <2>6, <2>7
<1>9. AfterInt(f)
  <2> SUFFICES ASSUME Reads(f.at, "INT") PROVE DeclaresAfterType(f.el)
    BY DEF AfterInt
  <2>1. g.at # f.at
    BY <1>2, <1>6, ExpectedAfterInt
  <2>2. PICK h \in ChartFacts : /\ h.at = f.at /\ IsComplete(h.el) /\ Lhs(h.el) = NextSymbol(g.el)
    BY <2>1
  <2>3. Lhs(h.el) = "type"
    BY <1>6, <2>2, CompleteAfterInt
  <2> QED
    BY <1>7, <2>2, <2>3 DEF DeclaresAfterType
<1>10. AfterPointer(f)
  <2> SUFFICES ASSUME f.at > 1, Reads(f.at, "STAR"), Reads(f.at - 1, "INT")
               PROVE  DeclaresAfterType(f.el)
    BY DEF AfterPointer
  <2>1. g.at # f.at
    BY <1>2, <1>6, CompleteAfterPointer, SymbolKinds
  <2>2. PICK h \in ChartFacts : /\ h.at = f.at /\ IsComplete(h.el) /\ Lhs(h.el) = NextSymbol(g.el)
    BY <2>1
  <2>3. Lhs(h.el) = "type"
    BY <1>6, <2>2, CompleteAfterPointer
  <2> QED
    BY <1>7, <2>2, <2>3 DEF DeclaresAfterType
<1>11. ReadsLiterals(f)
  <2>1. ReadsLiterals(g)
    BY DEF Shapes, Shape
  <2>2. g.at <= f.at
    BY FactFields
  <2> QED
    BY <1>2, <2>1, <2>2, AdvanceLiterals
<1>12. HasDcl(f)
  <2> SUFFICES ASSUME Lhs(f.el) = "dcls", f.el.dot > 1
               PROVE  /\ \E h \in ChartFacts :
                           Lhs(h.el) = "dcl" /\ IsComplete(h.el) /\ h.at + f.el.dot = f.at + 2
                      /\ \A d \in 3 .. f.el.dot : tokens[f.at - f.el.dot + d].type = Rhs(f.el)[d]
    BY DEF HasDcl
  <2>1. Rhs(g.el) # << >>
    BY <1>1
  <2>2. /\ DOMAIN Rhs(g.el) = 1 .. 5 /\ Rhs(g.el)[2] = "dcl"
        /\ Rhs(g.el)[3] \in Terminals /\ Rhs(g.el)[4] \in Terminals /\ Rhs(g.el)[5] \in Terminals
    BY <1>1, <2>1, DclsRule, DclsAssumption
  <2>3. f.el.dot = 2
    <3>1. f.el.dot \in 2 .. 5
      BY <1>1, <2>2
    <3> QED
      BY <1>1, <1>2, <2>2, <3>1
  <2>4. NextSymbol(g.el) = "dcl"
    BY <1>1, <2>2, <2>3
  <2>5. ~ Nullable("dcl")
    <3>1. \A r \in DOMAIN CFG : CFG[r].lhs = "dcl" => CFG[r].rhs # << >>
      BY TypesAssumption
    <3> QED
      BY <3>1 DEF Nullable
  <2>6. PICK h \in ChartFacts : h.at = f.at /\ IsComplete(h.el) /\ Lhs(h.el) = "dcl"
    BY <2>4, <2>5
  <2>7. h.at + f.el.dot = f.at + 2 /\ 3 .. f.el.dot = {}
    BY <2>3, <2>6
  <2> QED
    BY <2>6, <2>7
<1> QED
  BY <1>3, <1>4, <1>8, <1>9, <1>10, <1>11, <1>12 DEF Shape

\* What follows by one of Earley's rules from facts with the shape has it.
LEMMA FollowsShape ==
  ASSUME IInv, Shapes, NEW f, f.el \in Elem, f.at \in Nat, Rules!Follows(f)
  PROVE  Shape(f)
<1>1. CASE /\ f.el.dot = 0 /\ f.el.start = f.at
           /\ \E g \in ChartFacts : g.at = f.at /\ Expects(g.el, Lhs(f.el))
  BY <1>1, PredictedShape
<1>2. CASE \E g \in ChartFacts :
             /\ g.at + 1 = f.at /\ f.at <= Len(tokens)
             /\ Expects(g.el, tokens[f.at].type) /\ tokens[f.at].type \in Terminals
             /\ f.el = Advance(g.el)
  BY <1>2, ScannedShape
<1>3. CASE \E g \in ChartFacts :
             /\ g.at = f.at /\ ~ IsComplete(g.el) /\ f.el = Advance(g.el)
             /\ NextSymbol(g.el) \in NonTerminals /\ Nullable(NextSymbol(g.el))
  BY <1>3, AdvancedShape
<1>4. CASE \E g, h \in ChartFacts :
             /\ h.at = f.at /\ IsComplete(h.el) /\ h.el.start = g.at
             /\ Expects(g.el, Lhs(h.el)) /\ f.el = Advance(g.el)
  <2>1. PICK g \in ChartFacts, h \in ChartFacts :
          /\ h.at = f.at /\ IsComplete(h.el) /\ h.el.start = g.at
          /\ Expects(g.el, Lhs(h.el)) /\ f.el = Advance(g.el)
    BY <1>4
  <2>2. ~ IsComplete(g.el) /\ NextSymbol(g.el) = Lhs(h.el) /\ Lhs(h.el) \in NonTerminals
    BY <2>1, FactFields DEF Expects
  <2> QED
    BY <2>1, <2>2, AdvancedShape
<1> QED
  BY <1>1, <1>2, <1>3, <1>4, Inversion

\* The first fact has the shape.
LEMMA InitShapes == Init => Shapes
<1> SUFFICES ASSUME Init PROVE Shapes
  OBVIOUS
<1>1. chart \in Seq(Seq(Elem)) /\ Len(chart) = 1 /\ chart[1] = << StartElem >>
  BY InitChart
<1>2. DOMAIN chart = {1} /\ DOMAIN chart[1] = {1} /\ chart[1][1] = StartElem /\ 1 - 1 = 0
  BY <1>1
<1>3. ChartFacts = {[el |-> StartElem, at |-> 0]}
  BY <1>2 DEF ChartFacts
<1>4. Lhs(StartElem) # "type" /\ Lhs(StartElem) # "dcl"
  BY TypesAssumption DEF Lhs, StartElem
<1>5. StartElem.dot = 0 /\ StartElem.start = 0
  BY DEF StartElem
<1>6. ReadsLiterals([el |-> StartElem, at |-> 0])
  BY <1>5, PredictLiterals
<1> QED
  BY <1>3, <1>4, <1>5, <1>6
     DEF Shapes, Shape, Fresh, ScannedFrom, ByScanner, ReadsType, HasType, HasDcl, AfterInt,
         AfterPointer, Reads

\* Every step keeps the shapes: it adds at most a fact that follows, and the
\* facts that those that were there rest on remain.
LEMMA NextShapes == IInv /\ Shapes /\ [Next]_vars => Shapes'
<1> SUFFICES ASSUME IInv, Shapes, [Next]_vars PROVE Shapes'
  OBVIOUS
<1>1. /\ tokens' = tokens
      /\ \/ UNCHANGED chart
         \/ /\ GoodChart(chart') /\ Extends(chart', chart)
            /\ \A f \in ChartFacts' \ ChartFacts : Rules!Follows(f)
  BY StepFollows
<1>2. ChartFacts \subseteq ChartFacts' /\ \A f \in ChartFacts' : Shape(f)
  <2>1. CASE UNCHANGED chart
    <3>1. ChartFacts' = ChartFacts
      BY <2>1 DEF ChartFacts
    <3> QED
      BY <3>1 DEF Shapes
  <2>2. CASE /\ GoodChart(chart') /\ Extends(chart', chart)
             /\ \A f \in ChartFacts' \ ChartFacts : Rules!Follows(f)
    <3>1. ChartFacts \subseteq ChartFacts'
      <4>1. chart \in Seq(Seq(Elem)) /\ chart' \in Seq(Seq(Elem))
        BY <2>2 DEF IInv, TypeOK, GoodChart
      <4>2. Facts(chart) \subseteq Facts(chart')
        BY <2>2, <4>1, ExtendsFacts
      <4> QED
        BY <4>2 DEF ChartFacts, Facts
    <3>2. ASSUME NEW f \in ChartFacts' PROVE Shape(f)
      <4>1. f \in Facts(chart')
        BY <3>2 DEF ChartFacts, Facts
      <4>2. f.el \in Elem /\ f.at \in Nat
        BY <2>2, <4>1, GoodFacts
      <4>3. CASE f \in ChartFacts
        BY <4>3 DEF Shapes
      <4>4. CASE f \notin ChartFacts
        BY <2>2, <3>2, <4>2, <4>4, FollowsShape
      <4> QED
        BY <4>3, <4>4
    <3> QED
      BY <3>1, <3>2
  <2> QED
    BY <1>1, <2>1, <2>2
<1> SUFFICES ASSUME NEW f \in ChartFacts' PROVE Shape(f)'
  BY DEF Shapes
<1>3. Shape(f)
  BY <1>2
<1>4. Fresh(f)' /\ AfterInt(f)' /\ AfterPointer(f)'
  BY <1>1, <1>3 DEF Shape, Fresh, AfterInt, AfterPointer, Reads, After, DeclaresAfterType, Lhs, Rhs
<1>5. ScannedFrom(f)'
  BY <1>1, <1>2, <1>3
     DEF Shape, ScannedFrom, ByScanner, Expects, Advance, IsComplete, NextSymbol, Rhs
<1>6. ReadsType(f)'
  BY <1>1, <1>2, <1>3 DEF Shape, ReadsType, Expects, IsComplete, NextSymbol, Rhs, Lhs
<1>7. HasType(f)'
  BY <1>1, <1>2, <1>3 DEF Shape, HasType, IsComplete, Rhs, Lhs
<1>8. ReadsLiterals(f)'
  BY <1>1, <1>3 DEF Shape, ReadsLiterals, Literal, Rhs
<1>9. HasDcl(f)'
  BY <1>1, <1>2, <1>3 DEF Shape, HasDcl, IsComplete, Rhs, Lhs
<1> QED
  BY <1>4, <1>5, <1>6, <1>7, <1>8, <1>9 DEF Shape

-----------------------------------------------------------------------------
(* The elements that the scanner adds to a list come before all others.    *)

InOrder(ch) ==
  \A k \in DOMAIN ch : \A n \in DOMAIN ch[k] :
    ByScanner(ch[k][n]) => \A m \in 1 .. (n - 1) : ByScanner(ch[k][m])

AllByScanner(ch, k) == k \in DOMAIN ch => \A n \in DOMAIN ch[k] : ByScanner(ch[k][n])

ScannedFirst == InOrder(chart) /\ (pc \in Walking => AllByScanner(chart, i + 2))

\* addToChart() keeps the order when what it adds was not scanned, or when all
\* that is there was.
LEMMA AddInOrder ==
  ASSUME NEW ch \in Seq(Seq(Elem)), InOrder(ch), NEW el \in Elem, NEW k \in Nat, k <= Len(ch),
         ~ ByScanner(el) \/ AllByScanner(ch, k + 1)
  PROVE  InOrder(AddToChart(ch, el, k))
<1> DEFINE new == AddToChart(ch, el, k)
           l == k + 1
<1>1. /\ new \in Seq(Seq(Elem))
      /\ Len(new) = IF k = Len(ch) THEN l ELSE Len(ch)
      /\ \A m \in 1 .. Len(ch) : m # l => new[m] = ch[m]
      /\ k < Len(ch) => new[l] = ch[l] \/ new[l] = Append(ch[l], el)
      /\ k = Len(ch) => new[l] = << el >>
  BY AddToChartEffect
<1>2. /\ l \in Nat /\ (k < Len(ch) => l \in DOMAIN ch) /\ (k = Len(ch) \/ k < Len(ch))
      /\ DOMAIN ch = 1 .. Len(ch) /\ Len(ch) \in Nat
  OBVIOUS
<1> HIDE DEF new
<1>3. Len(new) = Len(ch) \/ (Len(new) = Len(ch) + 1 /\ l = Len(ch) + 1)
  BY <1>1
<1>4. DOMAIN new = 1 .. Len(new)
  BY <1>1
<1>5. \A q \in DOMAIN new : q = l \/ (q \in DOMAIN ch /\ new[q] = ch[q])
  <2>1. ASSUME NEW q \in DOMAIN new PROVE q = l \/ q \in DOMAIN ch
    <3>1. CASE Len(new) = Len(ch)
      BY <1>2, <1>4, <3>1
    <3>2. CASE Len(new) = Len(ch) + 1 /\ l = Len(ch) + 1
      <4> DEFINE L == Len(ch)
      <4>1. L \in Nat /\ q \in 1 .. (L + 1) /\ l = L + 1 /\ DOMAIN ch = 1 .. L
        BY <1>2, <1>4, <3>2
      <4> HIDE DEF L, l
      <4> QED
        BY <4>1
    <3> QED
      BY <1>3, <3>1, <3>2
  <2> QED
    BY <1>1, <1>2, <2>1
<1>6. ~ ByScanner(el) \/ AllByScanner(ch, l)
  OBVIOUS
<1> HIDE DEF l
<1> SUFFICES ASSUME NEW q \in DOMAIN new, NEW n \in DOMAIN new[q], ByScanner(new[q][n]),
                    NEW m \in 1 .. (n - 1)
             PROVE  ByScanner(new[q][m])
  BY DEF InOrder, new
<1>7. CASE q \in DOMAIN ch /\ new[q] = ch[q]
  BY <1>7 DEF InOrder
<1>8. CASE q = l /\ k < Len(ch) /\ new[l] = Append(ch[l], el)
  <2> DEFINE s == ch[l]
             L == Len(s)
  <2>0. l \in DOMAIN ch
    BY <1>2, <1>8
  <2>1. l \in DOMAIN ch /\ s \in Seq(Elem) /\ L \in Nat /\ DOMAIN s = 1 .. L
    <3>1. s \in Seq(Elem)
      BY <2>0
    <3> HIDE DEF s
    <3> QED
      BY <2>0, <3>1
  <2>2. /\ new[q] \in Seq(Elem) /\ Len(new[q]) = L + 1 /\ new[q][L + 1] = el
        /\ \A o \in 1 .. L : new[q][o] = s[o]
    BY <1>8, <2>1, AppendSeq
  <2>3. InOrder(ch) /\ (AllByScanner(ch, l) => \A o \in DOMAIN s : ByScanner(s[o]))
    BY <2>1 DEF AllByScanner
  <2>4. \A o \in DOMAIN s : ByScanner(s[o]) => \A p \in 1 .. (o - 1) : ByScanner(s[p])
    BY <2>1 DEF InOrder
  <2> HIDE DEF s, L
  <2>5. n \in 1 .. (L + 1)
    BY <2>1, <2>2
  <2>6. m \in 1 .. L /\ m \in DOMAIN s /\ new[q][m] = s[m]
    BY <2>1, <2>2, <2>5
  <2>7. CASE n = L + 1
    BY <1>6, <2>2, <2>3, <2>6, <2>7
  <2>8. CASE n # L + 1
    <3>1. n \in 1 .. L
      BY <2>1, <2>5, <2>8
    <3>2. n \in DOMAIN s /\ new[q][n] = s[n]
      BY <2>1, <2>2, <3>1
    <3> QED
      BY <2>4, <2>6, <3>2
  <2> QED
    BY <2>7, <2>8
<1>9. CASE q = l /\ k = Len(ch)
  <2>1. n = 1
    BY <1>1, <1>9
  <2> QED
    BY <2>1
<1> QED
  BY <1>1, <1>2, <1>5, <1>7, <1>8, <1>9

\* An element whose dot has moved over a symbol that is not a terminal, or not
\* at all, was not scanned.
LEMMA NotScanned ==
  ASSUME NEW k \in Nat, NEW el \in ElemsAt(k), ~ IsComplete(el)
  PROVE  /\ Advance(el) \in Elem
         /\ ByScanner(Advance(el)) <=> NextSymbol(el) \in Terminals
<1>1. el \in Elem /\ el.dot \in Nat
  BY ElemFields
<1>2. Advance(el) \in Elem /\ Advance(el).rule = el.rule /\ Advance(el).dot = el.dot + 1
  BY <1>1 DEF Advance, Elem
<1> QED
  BY <1>1, <1>2 DEF ByScanner, NextSymbol, Rhs

\* What is added to the list that is walked leaves the next one alone.
LEMMA ElsewhereSame ==
  ASSUME chart \in Seq(Seq(Elem)), i \in Nat, Len(chart) \in {i + 1, i + 2}, Grows(i), i' = i
  PROVE  AllByScanner(chart, i + 2)' = AllByScanner(chart, i + 2)
<1>1. i # Len(chart)
  OBVIOUS
<1>2. Len(chart') = Len(chart) /\ \A m \in 1 .. Len(chart) : m # i + 1 => chart'[m] = chart[m]
  BY <1>1 DEF Grows
<1>3. DOMAIN chart' = DOMAIN chart
  BY <1>2 DEF Grows, GoodChart
<1>4. i + 2 \in DOMAIN chart => chart'[i + 2] = chart[i + 2]
  BY <1>2
<1> QED
  BY <1>3, <1>4 DEF AllByScanner, ByScanner, Rhs

\* predictor() keeps the order.
LEMMA PredictRuleOrder ==
  ASSUME IInv, Complete, ScannedFirst, PredictRule
  PROVE  ScannedFirst'
<1>1. /\ GoodChart(chart) /\ chart \in Seq(Seq(Elem))
      /\ i \in Nat /\ Len(chart) \in {i + 1, i + 2} /\ Len(chart) \in Nat
      /\ El \in ElemsAt(i + 1)
  BY InHandler DEF PredictRule, Handlers, El, GoodChart
<1>2. ~ IsComplete(El) /\ NextSymbol(El) \notin Terminals
  BY DEF Complete, CalledFor, PredictRule
<1>3. PICK r \in x .. Len(CFG) :
        LET predicted == AddToChart(chart, [rule |-> r, start |-> i, dot |-> 0], i)
        IN  chart' = IF Nullable(NextSymbol(El))
                     THEN AddToChart(predicted, Advance(El), i)
                     ELSE predicted
  BY DEF PredictRule
<1> DEFINE el == [rule |-> r, start |-> i, dot |-> 0]
           predicted == AddToChart(chart, el, i)
<1>4. el \in ElemsAt(i + 1) /\ el \in Elem /\ ~ ByScanner(el)
  <2>1. x \in Nat \ {0} /\ Len(CFG) \in Nat
    BY GrammarAssumption DEF IInv, TypeOK
  <2>2. r \in 1 .. Len(CFG)
    BY <1>3, <2>1
  <2>3. el \in ElemsAt(i + 1)
    BY <1>1, <2>2, PredictedElem
  <2> QED
    BY <2>3 DEF ElemsAt, ByScanner
<1>5. chart' = IF Nullable(NextSymbol(El)) THEN AddToChart(predicted, Advance(El), i) ELSE predicted
  BY <1>3
<1> HIDE DEF el
<1>6. i <= Len(chart) /\ i # Len(chart)
  BY <1>1
<1>7. InOrder(predicted)
  BY <1>1, <1>4, <1>6, AddInOrder DEF ScannedFirst
<1>8. predicted \in Seq(Seq(Elem)) /\ Len(predicted) = Len(chart)
  BY <1>1, <1>4, <1>6, AddToChartEffect
<1> HIDE DEF predicted
<1>9. InOrder(chart')
  <2>1. Advance(El) \in Elem /\ ~ ByScanner(Advance(El))
    <3>1. i + 1 \in Nat
      BY <1>1
    <3> QED
      BY <1>1, <1>2, <3>1, NotScanned
  <2>2. i <= Len(predicted)
    BY <1>6, <1>8
  <2>3. InOrder(AddToChart(predicted, Advance(El), i))
    BY <1>1, <1>7, <1>8, <2>1, <2>2, AddInOrder
  <2> QED
    BY <1>5, <1>7, <2>3
<1>10. AllByScanner(chart, i + 2)' = AllByScanner(chart, i + 2)
  BY <1>1, PredictRuleGrows, ElsewhereSame DEF PredictRule
<1>11. pc' = pc
  BY DEF PredictRule
<1> QED
  BY <1>9, <1>10, <1>11 DEF ScannedFirst, InOrder, ByScanner, Rhs, Walking, Handlers

\* scanner() keeps the order: the list it adds to has what it added before.
LEMMA ScanElemOrder ==
  ASSUME IInv, Complete, ScannedFirst, ScanElem
  PROVE  ScannedFirst'
<1>1. /\ GoodChart(chart) /\ chart \in Seq(Seq(Elem))
      /\ i \in Nat /\ i < Len(tokens) /\ Len(chart) \in {i + 1, i + 2} /\ Len(chart) \in Nat
      /\ List(i) \in Seq(Elem)
      /\ \A n \in DOMAIN List(i) : List(i)[n] \in ElemsAt(i + 1)
  BY InHandler DEF ScanElem, Handlers, GoodChart
<1>2. PICK n \in x .. Len(List(i)) :
        Scans(n) /\ chart' = AddToChart(chart, Advance(List(i)[n]), i + 1)
  BY DEF ScanElem
<1>3. n \in DOMAIN List(i)
  <2>1. x \in Nat \ {0}
    BY DEF IInv, TypeOK
  <2> QED
    BY <1>1, <1>2, <2>1
<1> DEFINE el == Advance(List(i)[n])
<1>4. el \in Elem /\ ByScanner(el)
  <2>1. ~ IsComplete(List(i)[n]) /\ NextSymbol(List(i)[n]) = tokens[i + 1].type
    BY <1>2 DEF Scans, Expects
  <2>2. tokens[i + 1].type \in Terminals
    <3>1. i + 1 \in 1 .. Len(tokens)
      BY <1>1 DEF IInv, TypeOK
    <3>2. tokens[i + 1] \in Token
      BY <3>1 DEF IInv, TypeOK
    <3> QED
      BY <3>2 DEF Token
  <2>3. List(i)[n] \in ElemsAt(i + 1) /\ i + 1 \in Nat
    BY <1>1, <1>3
  <2> QED
    BY <2>1, <2>2, <2>3, NotScanned
<1> HIDE DEF el
<1> DEFINE k == i + 1
           l == k + 1
<1>5. /\ k \in Nat /\ k <= Len(chart) /\ l = i + 2 /\ l \in Nat
      /\ (k < Len(chart) => l \in DOMAIN chart) /\ (k = Len(chart) \/ k < Len(chart))
  BY <1>1
<1>6. pc \in Walking /\ pc' = pc /\ i' = i
  BY DEF ScanElem, Walking, Handlers
<1>7. AllByScanner(chart, l)
  BY <1>5, <1>6 DEF ScannedFirst
<1>8. chart' = AddToChart(chart, el, k)
  BY <1>2 DEF el
<1>9. InOrder(chart')
  BY <1>1, <1>4, <1>5, <1>7, <1>8, AddInOrder DEF ScannedFirst
<1>10. /\ k < Len(chart) => chart'[l] = chart[l] \/ chart'[l] = Append(chart[l], el)
       /\ k = Len(chart) => chart'[l] = << el >>
  BY <1>1, <1>4, <1>5, <1>8, AddToChartEffect
<1> HIDE DEF k, l
<1>11. ASSUME NEW m \in DOMAIN chart'[l] PROVE ByScanner(chart'[l][m])
  <2>1. CASE k < Len(chart) /\ chart'[l] = chart[l]
    BY <1>5, <1>7, <1>11, <2>1 DEF AllByScanner
  <2>2. CASE k < Len(chart) /\ chart'[l] = Append(chart[l], el)
    <3>1. l \in DOMAIN chart
      BY <1>5, <2>2
    <3>2. chart[l] \in Seq(Elem)
      BY <1>1, <3>1
    <3>3. (m \in DOMAIN chart[l] /\ chart'[l][m] = chart[l][m]) \/ chart'[l][m] = el
      BY <1>4, <1>11, <2>2, <3>2, AppendSeq
    <3> QED
      BY <1>4, <1>7, <3>1, <3>3 DEF AllByScanner
  <2>3. CASE k = Len(chart)
    BY <1>4, <1>10, <1>11, <2>3
  <2> QED
    BY <1>5, <1>10, <2>1, <2>2, <2>3
<1>12. AllByScanner(chart, i + 2)'
  BY <1>5, <1>6, <1>11 DEF AllByScanner, ByScanner, Rhs
<1> QED
  BY <1>9, <1>12 DEF ScannedFirst, InOrder, ByScanner, Rhs

\* completer() keeps the order.
LEMMA CompleteElemOrder ==
  ASSUME IInv, Complete, ScannedFirst, CompleteElem
  PROVE  ScannedFirst'
<1>1. /\ GoodChart(chart) /\ chart \in Seq(Seq(Elem))
      /\ i \in Nat /\ Len(chart) \in {i + 1, i + 2} /\ Len(chart) \in Nat
      /\ \A n \in DOMAIN List(i) : List(i)[n] \in ElemsAt(i + 1)
  BY InHandler DEF CompleteElem, Handlers, GoodChart
<1>2. PICK n \in x .. Len(Origin) : Completes(n) /\ chart' = AddToChart(chart, Advance(Origin[n]), i)
  BY DEF CompleteElem
<1>3. Grows(i) /\ Completed.start + 1 \in DOMAIN chart /\ c \in DOMAIN List(i)
  BY CompleteElemGrows
<1>4. Completed \in ElemsAt(i + 1) /\ Completed.start \in Nat /\ Completed.rule \in 1 .. Len(CFG)
  <2>1. Completed \in ElemsAt(i + 1) /\ i + 1 \in Nat
    BY <1>1, <1>3 DEF Completed
  <2> QED
    BY <2>1, ElemFields
<1>5. Origin \in Seq(Elem) /\ \A m \in DOMAIN Origin : Origin[m] \in ElemsAt(Completed.start + 1)
  BY <1>1, <1>3 DEF GoodChart, Origin, List
<1>6. n \in DOMAIN Origin
  <2>1. x \in Nat \ {0}
    BY DEF IInv, TypeOK
  <2> QED
    BY <1>2, <1>5, <2>1
<1>7. Advance(Origin[n]) \in Elem /\ ~ ByScanner(Advance(Origin[n]))
  <2>1. ~ IsComplete(Origin[n]) /\ NextSymbol(Origin[n]) = Lhs(Completed)
    BY <1>2 DEF Completes, Expects
  <2>2. Lhs(Completed) \in NonTerminals
    BY <1>4, RuleOf DEF Lhs
  <2>3. Origin[n] \in ElemsAt(Completed.start + 1) /\ Completed.start + 1 \in Nat
    BY <1>4, <1>5, <1>6
  <2> QED
    BY <2>1, <2>2, <2>3, NotScanned, SymbolKinds
<1>8. i <= Len(chart) /\ i # Len(chart)
  BY <1>1
<1>9. InOrder(chart')
  BY <1>1, <1>2, <1>7, <1>8, AddInOrder DEF ScannedFirst
<1>10. AllByScanner(chart, i + 2)' = AllByScanner(chart, i + 2)
  BY <1>1, <1>3, ElsewhereSame DEF CompleteElem
<1>11. pc' = pc
  BY DEF CompleteElem
<1> QED
  BY <1>9, <1>10, <1>11 DEF ScannedFirst, InOrder, ByScanner, Rhs, Walking, Handlers

\* The order is there at the beginning.
LEMMA InitOrder == Init => ScannedFirst
<1> SUFFICES ASSUME Init PROVE ScannedFirst
  OBVIOUS
<1>1. chart \in Seq(Seq(Elem)) /\ Len(chart) = 1 /\ chart[1] = << StartElem >>
  BY InitChart
<1>2. DOMAIN chart = {1} /\ DOMAIN chart[1] = {1} /\ chart[1][1] = StartElem
  BY <1>1
<1>3. ~ ByScanner(StartElem)
  BY DEF ByScanner, StartElem
<1>4. pc \notin Walking
  BY DEF Init, Walking, Handlers
<1> QED
  BY <1>2, <1>3, <1>4 DEF ScannedFirst, InOrder

\* Every step keeps the order.
LEMMA NextOrder == IInv /\ Complete /\ ScannedFirst /\ [Next]_vars => ScannedFirst'
<1> SUFFICES ASSUME IInv, Complete, ScannedFirst, [Next]_vars PROVE ScannedFirst'
  OBVIOUS
<1>1. ASSUME UNCHANGED chart, pc' \in Walking => AllByScanner(chart, i' + 2) PROVE ScannedFirst'
  BY <1>1 DEF ScannedFirst, InOrder, AllByScanner, ByScanner, Rhs
<1>2. CASE BeginList
  <2>1. i \in Nat /\ chart \in Seq(Seq(Elem)) /\ Len(chart) \in {i, i + 1}
    BY <1>2 DEF BeginList, IInv, TypeOK, ChartInBounds
  <2>2. i + 2 \notin DOMAIN chart
    BY <2>1
  <2> QED
    BY <1>1, <1>2, <2>2 DEF BeginList, AllByScanner
<1>3. CASE \/ CallCompleter \/ CallScanner \/ CallPredictor
           \/ PredictorReturns \/ ScannerReturns \/ CompleterNext \/ CompleterReturns
           \/ UNCHANGED vars
  BY <1>1, <1>3 DEF ScannedFirst, CallCompleter, CallScanner, CallPredictor, PredictorReturns,
     ScannerReturns, CompleterNext, CompleterReturns, vars, Walking, Handlers
<1>4. CASE \/ InvalidToken \/ EndList \/ Accept \/ InvalidCode \/ PopulateElem
           \/ PopulateNextList \/ PopulateDone
  BY <1>1, <1>4 DEF InvalidToken, EndList, Accept, InvalidCode, PopulateElem, PopulateNextList,
     PopulateDone, Walking, Handlers
<1> QED
  BY <1>2, <1>3, <1>4, PredictRuleOrder, ScanElemOrder, CompleteElemOrder
     DEF Next, Step, Terminated

-----------------------------------------------------------------------------
(* Places and facts.                                                       *)

\* The places, without the union.
LEMMA InPlaces ==
  ASSUME NEW p
  PROVE  p \in Places <=> \E k \in DOMAIN chart : \E n \in DOMAIN chart[k] : p = << k, n >>
<1> DEFINE Of(k) == { << k, n >> : n \in DOMAIN chart[k] }
<1>1. p \in Places <=> \E k \in DOMAIN chart : p \in Of(k)
  BY DEF Places
<1>2. \A k : p \in Of(k) <=> \E n \in DOMAIN chart[k] : p = << k, n >>
  OBVIOUS
<1> QED
  BY <1>1, <1>2, Zenon

\* The element at a place is a fact.
LEMMA PlaceFact ==
  ASSUME IInv, NEW p \in Places
  PROVE  /\ p = << p[1], p[2] >> /\ p[1] \in Nat \ {0} /\ p[2] \in Nat \ {0}
         /\ p[1] \in DOMAIN chart /\ p[2] \in DOMAIN chart[p[1]]
         /\ [el |-> ElemAt(p), at |-> p[1] - 1] \in ChartFacts
<1>1. PICK k \in DOMAIN chart : \E n \in DOMAIN chart[k] : p = << k, n >>
  BY InPlaces
<1>2. PICK n \in DOMAIN chart[k] : p = << k, n >>
  BY <1>1
<1>3. chart \in Seq(Seq(Elem))
  BY DEF IInv, TypeOK
<1>4. k \in Nat \ {0} /\ chart[k] \in Seq(Elem)
  BY <1>3
<1>5. n \in Nat \ {0}
  BY <1>4
<1>6. [el |-> ElemAt(p), at |-> p[1] - 1] \in Facts(chart)
  <2>1. [el |-> ElemAt(p), at |-> p[1] - 1] = [el |-> chart[k][n], at |-> k - 1]
    BY <1>2 DEF ElemAt
  <2> QED
    BY <2>1, InFacts
<1> QED
  BY <1>2, <1>4, <1>5, <1>6, FactsOfChart

\* A fact has a place.
LEMMA FactPlace ==
  ASSUME IInv, NEW f \in ChartFacts
  PROVE  \E p \in Places : ElemAt(p) = f.el /\ p[1] = f.at + 1
<1>1. PICK k \in DOMAIN chart : \E n \in DOMAIN chart[k] : f = [el |-> chart[k][n], at |-> k - 1]
  BY FactsOfChart, InFacts, Zenon
<1>2. PICK n \in DOMAIN chart[k] : f = [el |-> chart[k][n], at |-> k - 1]
  BY <1>1
<1> DEFINE p == << k, n >>
<1>3. p \in Places
  BY InPlaces
<1>4. k \in Nat \ {0}
  BY DEF IInv, TypeOK
<1>5. ElemAt(p) = f.el /\ p[1] = f.at + 1
  BY <1>2, <1>4 DEF ElemAt
<1> HIDE DEF p
<1> QED
  BY <1>3, <1>5

\* An element has one place in a list.
LEMMA OnePlace ==
  ASSUME IInv, NEW p \in Places, NEW q \in Places, q[1] = p[1], ElemAt(q) = ElemAt(p)
  PROVE  q = p
<1>1. /\ p = << p[1], p[2] >> /\ p[1] \in DOMAIN chart /\ p[2] \in DOMAIN chart[p[1]]
      /\ q = << q[1], q[2] >> /\ q[2] \in DOMAIN chart[p[1]]
  BY PlaceFact
<1>2. q[2] = p[2]
  BY <1>1 DEF IInv, NoDuplicates, ElemAt
<1> QED
  BY <1>1, <1>2

-----------------------------------------------------------------------------
(* What is next to a type.                                                 *)

\* Where a complete type ends: after the tokens it has read.
LEMMA TypeEnds ==
  ASSUME IInv, NEW f \in ChartFacts, ReadsType(f), Lhs(f.el) = "type", IsComplete(f.el)
  PROVE  /\ f.at = f.el.start + Len(Rhs(f.el)) /\ f.el.dot = Len(Rhs(f.el))
         /\ Reads(f.el.start + 1, "INT")
         /\ \/ Len(Rhs(f.el)) = 1 /\ Rhs(f.el) = << "INT" >>
            \/ Len(Rhs(f.el)) = 2 /\ Rhs(f.el) = << "INT", "STAR" >> /\ Reads(f.el.start + 2, "STAR")
<1>1. /\ f.at = f.el.start + f.el.dot
      /\ \A d \in 1 .. f.el.dot : tokens[f.el.start + d].type = Rhs(f.el)[d]
      /\ f.el.dot = Len(Rhs(f.el))
  BY DEF ReadsType, IsComplete
<1>2. f.el.rule \in DOMAIN CFG /\ f.el.start \in Nat
  BY FactFields
<1>3. /\ Len(Rhs(f.el)) = 1 \/ Len(Rhs(f.el)) = 2
      /\ Rhs(f.el)[1] = "INT"
      /\ Len(Rhs(f.el)) = 1 => Rhs(f.el) = << "INT" >>
      /\ Len(Rhs(f.el)) = 2 => Rhs(f.el) = << "INT", "STAR" >> /\ Rhs(f.el)[2] = "STAR"
  BY <1>2, TypeRule
<1>4. 1 \in 1 .. f.el.dot /\ (Len(Rhs(f.el)) = 2 => 2 \in 1 .. f.el.dot)
  <2>1. f.el.dot = 1 \/ f.el.dot = 2
    BY <1>1, <1>3
  <2>2. Len(Rhs(f.el)) = 2 => f.el.dot = 2
    BY <1>1
  <2> QED
    BY <2>1, <2>2
<1>5. Reads(f.el.start + 1, "INT")
  BY <1>1, <1>2, <1>3, <1>4 DEF Reads
<1>6. Len(Rhs(f.el)) = 2 => Reads(f.el.start + 2, "STAR")
  BY <1>1, <1>2, <1>3, <1>4 DEF Reads
<1> QED
  BY <1>1, <1>3, <1>5, <1>6

\* A complete type is the only complete element of its list.
LEMMA OnlyType ==
  ASSUME IInv, Shapes, NEW f \in ChartFacts, Lhs(f.el) = "type", IsComplete(f.el),
         NEW g \in ChartFacts, g.at = f.at, IsComplete(g.el)
  PROVE  g.el = f.el
<1>1. /\ ReadsType(f) /\ ReadsType(g) /\ AfterInt(g) /\ AfterPointer(g)
  BY DEF Shapes, Shape
<1>2. f.el.start \in Nat /\ g.el.start \in Nat /\ f.at \in Nat
  BY FactFields
<1>3. CASE Len(Rhs(f.el)) = 1 /\ Rhs(f.el) = << "INT" >>
  <2>1. f.at = f.el.start + 1 /\ Reads(f.at, "INT") /\ f.el.dot = 1
    BY <1>1, <1>3, TypeEnds
  <2>2. Lhs(g.el) = "type" /\ Rhs(g.el) = << "INT" >> /\ g.el.dot = 1
    BY <1>1, <2>1, CompleteAfterInt
  <2>3. g.at = g.el.start + 1
    BY <1>1, <2>2 DEF ReadsType
  <2>4. g.el.start = f.el.start
    BY <1>2, <2>1, <2>3
  <2> QED
    BY <1>3, <2>1, <2>2, <2>4, SameElem
<1>4. CASE Len(Rhs(f.el)) = 2 /\ Rhs(f.el) = << "INT", "STAR" >> /\ Reads(f.el.start + 2, "STAR")
  <2>1. f.at = f.el.start + 2 /\ Reads(f.el.start + 1, "INT") /\ f.el.dot = 2
    BY <1>1, <1>4, TypeEnds
  <2>2. f.at - 1 = f.el.start + 1 /\ f.at > 1
    BY <1>2, <2>1
  <2>3. Lhs(g.el) = "type" /\ Len(Rhs(g.el)) = 2 /\ g.el.dot = 2
    BY <1>1, <1>4, <2>1, <2>2, CompleteAfterPointer
  <2>4. g.at = g.el.start + 2 /\ Rhs(g.el) = << "INT", "STAR" >>
    BY <1>1, <2>3, FactFields, TypeRule DEF ReadsType
  <2>5. g.el.start = f.el.start
    BY <1>2, <2>1, <2>4
  <2> QED
    BY <1>4, <2>1, <2>3, <2>4, <2>5, SameElem
<1> QED
  BY <1>1, <1>3, <1>4, TypeEnds

\* In a list with a complete type, what an ID completes declares that type.
LEMMA OnlyDcl ==
  ASSUME IInv, Shapes, NEW f \in ChartFacts, Lhs(f.el) = "type", IsComplete(f.el),
         NEW g \in ChartFacts, g.at = f.at, Expects(g.el, "ID"), IsComplete(Advance(g.el))
  PROVE  DeclaresAfterType(g.el) /\ g.el.start = f.el.start
<1>1. ReadsType(f) /\ HasType(g) /\ AfterInt(g) /\ AfterPointer(g)
  BY DEF Shapes, Shape
<1>2. f.el.start \in Nat /\ f.at \in Nat
  BY FactFields
<1>3. ~ IsComplete(g.el) /\ NextSymbol(g.el) = "ID"
  BY DEF Expects
<1>4. g.el.dot + 1 = Len(Rhs(g.el))
  BY <1>3, AdvanceFields DEF IsComplete
<1>5. ~ (g.el.dot + 1 < Len(Rhs(g.el)))
  BY <1>4, FactFields
<1>6. DeclaresAfterType(g.el)
  <2>0. /\ f.at = f.el.start + Len(Rhs(f.el))
        /\ Reads(f.el.start + 1, "INT")
        /\ Len(Rhs(f.el)) = 1 \/ (Len(Rhs(f.el)) = 2 /\ Reads(f.el.start + 2, "STAR"))
    BY <1>1, TypeEnds
  <2>1. CASE Len(Rhs(f.el)) = 1
    <3>1. Reads(g.at, "INT")
      BY <2>0, <2>1
    <3> QED
      BY <1>1, <1>3, <1>5, <3>1, ExpectedAfterInt
  <2>2. CASE Len(Rhs(f.el)) = 2 /\ Reads(f.el.start + 2, "STAR")
    <3>1. f.at = f.el.start + 2 /\ Reads(f.el.start + 1, "INT") /\ Reads(f.el.start + 2, "STAR")
      BY <2>0, <2>2
    <3>2. g.at - 1 = f.el.start + 1 /\ g.at > 1 /\ Reads(g.at, "STAR")
      BY <1>2, <3>1
    <3> QED
      BY <1>1, <1>3, <3>1, <3>2, CompleteAfterPointer
  <2> QED
    BY <2>0, <2>1, <2>2
<1>7. PICK h \in ChartFacts :
        /\ Lhs(h.el) = "type" /\ IsComplete(h.el)
        /\ h.el.start = g.el.start /\ h.at + g.el.dot = g.at + 1
  BY <1>1, <1>6 DEF HasType, DeclaresAfterType
<1>8. h.at = f.at
  <2>1. h.at \in Nat /\ g.el.dot = 1
    BY <1>6, FactFields DEF DeclaresAfterType
  <2> QED
    BY <1>2, <1>7, <2>1
<1>9. h.el = f.el
  BY <1>7, <1>8, OnlyType
<1> QED
  BY <1>6, <1>7, <1>9

-----------------------------------------------------------------------------
(* The type of an INT STAR and that of its INT.                            *)

\* All lists but the last have been walked.
Walked == pc \in {"populate", "accepted"} => i >= Len(tokens)

\* populateFinalChart() is called when the loop over the lists is through.
LEMMA InitWalked == Init => Walked
BY DEF Init, Walked

\* Its walk does not go back.
LEMMA NextWalked == IInv /\ Walked /\ [Next]_vars => Walked'
BY DEF IInv, Walked, Next, Step, BeginList, InvalidToken, EndList, CallCompleter, CallScanner,
   CallPredictor, PredictRule, PredictorReturns, ScanElem, ScannerReturns, CompleteElem,
   CompleterNext, CompleterReturns, Accept, InvalidCode, PopulateElem, PopulateNextList,
   PopulateDone, Terminated, vars, Loops

\* What a list has is a fact, and in a list that was walked nothing is owed to it.
LEMMA HasFact ==
  ASSUME IInv, NEW k \in Nat, NEW el
  PROVE  Has(chart, el, k) <=> [el |-> el, at |-> k] \in ChartFacts
<1> DEFINE f == [el |-> el, at |-> k]
<1>1. ASSUME Has(chart, el, k) PROVE f \in ChartFacts
  <2>1. PICK n \in DOMAIN List(k) : List(k)[n] = el
    BY <1>1 DEF Has, ExistsInStateList, List
  <2>2. k + 1 \in DOMAIN chart
    BY <1>1 DEF Has
  <2> QED
    BY <2>1, <2>2, ElemFact
<1>2. ASSUME f \in ChartFacts PROVE Has(chart, el, k)
  <2>0. f.el = el /\ f.at = k
    OBVIOUS
  <2> HIDE DEF f
  <2>1. PICK m \in DOMAIN chart : \E n \in DOMAIN chart[m] : f = [el |-> chart[m][n], at |-> m - 1]
    BY <1>2, FactsOfChart, InFacts, Zenon
  <2>2. PICK n \in DOMAIN chart[m] : f = [el |-> chart[m][n], at |-> m - 1]
    BY <2>1
  <2>3. m \in Nat \ {0}
    BY DEF IInv, TypeOK
  <2>4. k + 1 = m /\ chart[m][n] = el
    BY <2>0, <2>2, <2>3
  <2> QED
    BY <2>1, <2>4 DEF Has, ExistsInStateList
<1> QED
  BY <1>1, <1>2

\* Every element of a list before the last was dealt with.
LEMMA WalkedList ==
  ASSUME IInv, Complete, Walked, pc = "populate", NEW k \in Nat, k < Len(tokens),
         NEW el, Has(chart, el, k)
  PROVE  Processed(chart, tokens, el, k)
<1>1. i \in Nat /\ Len(tokens) \in Nat /\ i >= Len(tokens)
  BY DEF IInv, TypeOK, Walked
<1>2. k \in 0 .. (i - 1)
  BY <1>1
<1>3. PICK n \in DOMAIN List(k) : List(k)[n] = el
  BY DEF Has, ExistsInStateList, List
<1> QED
  BY <1>2, <1>3 DEF Complete, WalkedProcessed

\* Where an INT STAR was read as a type, so was its INT, in the list before.
LEMMA IntOfPointer ==
  ASSUME IInv, Complete, Shapes, Walked, pc = "populate",
         NEW f \in ChartFacts, Lhs(f.el) = "type", Len(Rhs(f.el)) = 2, IsComplete(f.el)
  PROVE  \E g \in ChartFacts :
           /\ Lhs(g.el) = "type" /\ Len(Rhs(g.el)) = 1 /\ IsComplete(g.el)
           /\ g.el.start = f.el.start /\ g.at + 1 = f.at
<1> DEFINE s == f.el.start
<1>1. ReadsType(f)
  BY DEF Shapes, Shape
<1>2. /\ s \in Nat /\ f.at \in Nat /\ f.at <= Len(tokens) /\ Len(tokens) \in Nat
  BY FactFields
<1>3. f.at = s + 2 /\ Reads(s + 1, "INT")
  BY <1>1, TypeEnds
<1>4. PICK e \in ChartFacts : e.at = s /\ Expects(e.el, "type")
  BY <1>1 DEF ReadsType
<1>5. s < Len(tokens) /\ s + 1 < Len(tokens) /\ s + 1 \in Nat
  BY <1>2, <1>3
<1>6. PICK r \in DOMAIN CFG : CFG[r] = [lhs |-> "type", rhs |-> << "INT" >>]
  BY TypesAssumption
<1> DEFINE el == [rule |-> r, start |-> s, dot |-> 0]
           moved == [rule |-> r, start |-> s, dot |-> 1]
<1> HIDE DEF s
<1>7. Has(chart, el, s)
  <2>1. e.el \in Elem /\ e = [el |-> e.el, at |-> s]
    <3>1. \E m \in DOMAIN chart : \E n \in DOMAIN chart[m] : e = [el |-> chart[m][n], at |-> m - 1]
      BY FactsOfChart, InFacts, Zenon
    <3> QED
      BY <1>4, <3>1, FactFields
  <2>2. Has(chart, e.el, s)
    BY <1>2, <2>1, HasFact
  <2>3. Processed(chart, tokens, e.el, s)
    BY <1>2, <1>5, <2>2, WalkedList
  <2>4. ~ IsComplete(e.el) /\ NextSymbol(e.el) = "type"
    BY <1>4 DEF Expects
  <2>5. IsPredicted(chart, e.el, s, r)
    BY <2>3, <2>4, SymbolKinds DEF Processed
  <2> QED
    BY <1>6, <2>4, <2>5 DEF IsPredicted
<1>8. /\ Advance(el) = moved /\ Lhs(moved) = "type" /\ Rhs(moved) = << "INT" >> /\ Len(Rhs(moved)) = 1
      /\ IsComplete(moved) /\ Expects(el, "INT") /\ moved.start = s
  <2>1. Rhs(el) = << "INT" >> /\ Rhs(moved) = << "INT" >> /\ Lhs(moved) = "type"
    BY <1>6 DEF Rhs, Lhs
  <2>2. Advance(el) = moved
    BY DEF Advance
  <2> QED
    BY <2>1, <2>2 DEF IsComplete, Expects, NextSymbol
<1> HIDE DEF el, moved
<1>9. Has(chart, moved, s + 1)
  <2>1. Processed(chart, tokens, el, s)
    BY <1>2, <1>5, <1>7, WalkedList
  <2>2. tokens[s + 1].type = "INT"
    BY <1>3 DEF Reads
  <2> QED
    BY <1>8, <2>1, <2>2 DEF Processed, IsScanned
<1> DEFINE g == [el |-> moved, at |-> s + 1]
<1>10. g \in ChartFacts
  BY <1>5, <1>9, HasFact
<1>11. g.el = moved /\ g.at + 1 = f.at
  BY <1>2, <1>3
<1> HIDE DEF g
<1> QED
  BY <1>8, <1>10, <1>11 DEF s

-----------------------------------------------------------------------------
(* Neighbours of types in the order of the places.                         *)

\* No two complete elements in the list of a complete type.
LEMMA OnlyTypePlace ==
  ASSUME IInv, Shapes, NEW p \in Places, Lhs(ElemAt(p)) = "type", IsComplete(ElemAt(p)),
         NEW q \in Places, q[1] = p[1], IsComplete(ElemAt(q))
  PROVE  q = p
<1> DEFINE f == [el |-> ElemAt(p), at |-> p[1] - 1]
           g == [el |-> ElemAt(q), at |-> q[1] - 1]
<1>1. f \in ChartFacts /\ g \in ChartFacts
  BY PlaceFact
<1>2. f.el = ElemAt(p) /\ g.el = ElemAt(q) /\ g.at = f.at
  OBVIOUS
<1> HIDE DEF f, g
<1>3. g.el = f.el
  BY <1>1, <1>2, OnlyType
<1> QED
  BY <1>2, <1>3, OnePlace

\* The type of an INT STAR comes right after that of its INT.
LEMMA BeforePointer ==
  ASSUME IInv, Complete, Shapes, Walked, pc = "populate",
         NEW p \in Places, IsPointerType(ElemAt(p)), IsComplete(ElemAt(p))
  PROVE  \E q \in Places :
           /\ Lhs(ElemAt(q)) = "type" /\ Len(Rhs(ElemAt(q))) = 1 /\ IsComplete(ElemAt(q))
           /\ ElemAt(q).start = ElemAt(p).start /\ q[1] + 1 = p[1]
<1> DEFINE f == [el |-> ElemAt(p), at |-> p[1] - 1]
<1>1. f \in ChartFacts /\ p[1] \in Nat \ {0}
  BY PlaceFact
<1>2. f.el = ElemAt(p) /\ f.at = p[1] - 1
  OBVIOUS
<1> HIDE DEF f
<1>3. PICK g \in ChartFacts :
        /\ Lhs(g.el) = "type" /\ Len(Rhs(g.el)) = 1 /\ IsComplete(g.el)
        /\ g.el.start = f.el.start /\ g.at + 1 = f.at
  BY <1>1, <1>2, IntOfPointer DEF IsPointerType
<1>4. PICK q \in Places : ElemAt(q) = g.el /\ q[1] = g.at + 1
  BY FactPlace
<1>5. q[1] + 1 = p[1]
  BY <1>1, <1>2, <1>3, <1>4
<1> QED
  BY <1>2, <1>3, <1>4, <1>5

\* A complete type stands in the list that its symbols lead to.
LEMMA TypePlace ==
  ASSUME IInv, Shapes, NEW p \in Places, Lhs(ElemAt(p)) = "type", IsComplete(ElemAt(p))
  PROVE  /\ ElemAt(p).start \in Nat
         /\ p[1] = ElemAt(p).start + 1 + Len(Rhs(ElemAt(p)))
         /\ Len(Rhs(ElemAt(p))) = 1 \/ Len(Rhs(ElemAt(p))) = 2
         /\ Len(Rhs(ElemAt(p))) = 2 => Reads(ElemAt(p).start + 2, "STAR")
<1> DEFINE f == [el |-> ElemAt(p), at |-> p[1] - 1]
<1>1. f \in ChartFacts /\ p[1] \in Nat \ {0}
  BY PlaceFact
<1>2. f.el = ElemAt(p) /\ f.at = p[1] - 1
  OBVIOUS
<1> HIDE DEF f
<1>3. ReadsType(f)
  BY <1>1 DEF Shapes, Shape
<1>4. f.el.start \in Nat
  BY <1>1, FactFields
<1>5. /\ f.at = f.el.start + Len(Rhs(f.el))
      /\ Len(Rhs(f.el)) = 1 \/ (Len(Rhs(f.el)) = 2 /\ Reads(f.el.start + 2, "STAR"))
  BY <1>1, <1>2, <1>3, TypeEnds
<1>6. p[1] = f.el.start + 1 + Len(Rhs(f.el))
  BY <1>1, <1>2, <1>4, <1>5
<1>7. Len(Rhs(f.el)) = 1 \/ Len(Rhs(f.el)) = 2
  BY <1>5
<1>8. Len(Rhs(f.el)) = 2 => Reads(f.el.start + 2, "STAR")
  BY <1>5
<1> QED
  BY <1>2, <1>4, <1>6, <1>7, <1>8

\* The last token of a complete declaration is an ID.
LEMMA IdRead ==
  ASSUME IInv, Shapes, NEW f \in ChartFacts, Lhs(f.el) = "dcl", IsComplete(f.el)
  PROVE  tokens[f.at].type = "ID"
<1>1. f.el.dot = 2 /\ Rhs(f.el)[2] = "ID"
  BY FactFields, DclRule DEF IsComplete
<1>2. ScannedFrom(f)
  BY DEF Shapes, Shape
<1>3. PICK g \in ChartFacts : Expects(g.el, tokens[f.at].type) /\ f.el = Advance(g.el)
  BY <1>1, <1>2, SymbolKinds DEF ScannedFrom, ByScanner
<1>4. ~ IsComplete(g.el) /\ NextSymbol(g.el) = tokens[f.at].type
  BY <1>3 DEF Expects
<1> QED
  BY <1>1, <1>3, <1>4, LastSymbol

\* A declaration is the first complete element of its list, and the only one of
\* the list before, its type, is not shadowed.
LEMMA BeforeDcl ==
  ASSUME IInv, Shapes, ScannedFirst,
         NEW p \in Places, Lhs(ElemAt(p)) = "dcl", IsComplete(ElemAt(p))
  PROVE  \E q \in Places :
           /\ Lhs(ElemAt(q)) = "type" /\ IsComplete(ElemAt(q)) /\ ~ Shadowed(ElemAt(q))
           /\ ElemAt(q).start = ElemAt(p).start /\ q[1] + 1 = p[1]
           /\ \A r \in Places : IsComplete(ElemAt(r)) /\ r[1] = p[1] => p[2] <= r[2]
<1> DEFINE f == [el |-> ElemAt(p), at |-> p[1] - 1]
<1>1. f \in ChartFacts /\ p[1] \in Nat \ {0} /\ p[2] \in Nat \ {0}
  BY PlaceFact
<1>2. f.el = ElemAt(p) /\ f.at = p[1] - 1
  OBVIOUS
<1> HIDE DEF f
<1>3. ScannedFrom(f) /\ HasType(f)
  BY <1>1 DEF Shapes, Shape
<1>4. f.el.dot = 2 /\ Rhs(f.el)[2] = "ID" /\ f.at \in Nat
  BY <1>1, <1>2, FactFields, DclRule DEF IsComplete
<1>5. PICK g \in ChartFacts :
        /\ Lhs(g.el) = "type" /\ IsComplete(g.el)
        /\ g.el.start = f.el.start /\ g.at + f.el.dot = f.at + 1
  BY <1>2, <1>3, <1>4 DEF HasType
<1>6. g.at + 1 = f.at /\ g.at \in Nat
  BY <1>1, <1>4, <1>5, FactFields
<1>7. ByScanner(f.el)
  BY <1>4, SymbolKinds DEF ByScanner
<1>8. tokens[f.at].type = "ID"
  BY <1>1, <1>2, IdRead
<1>9. PICK q \in Places : ElemAt(q) = g.el /\ q[1] = g.at + 1
  BY FactPlace
<1>10. q[1] + 1 = p[1]
  BY <1>1, <1>2, <1>6, <1>9
<1>11. ~ Shadowed(ElemAt(q))
  <2> SUFFICES ASSUME Len(Rhs(ElemAt(q))) = 1, NEW t \in Places, IsComplete(ElemAt(t)),
                      IsPointerType(ElemAt(t)), ElemAt(t).start = ElemAt(q).start
               PROVE  FALSE
    BY DEF Shadowed
  <2>1. ElemAt(q).start \in Nat /\ q[1] = ElemAt(q).start + 1 + 1
    BY <1>5, <1>9, TypePlace
  <2>2. Reads(ElemAt(q).start + 2, "STAR")
    BY TypePlace DEF IsPointerType
  <2>3. f.at = ElemAt(q).start + 2
    BY <1>1, <1>2, <1>10, <2>1
  <2> QED
    BY <1>8, <2>2, <2>3 DEF Reads
<1>12. ASSUME NEW r \in Places, IsComplete(ElemAt(r)), r[1] = p[1] PROVE p[2] <= r[2]
  <2> SUFFICES ASSUME ~ (p[2] <= r[2]) PROVE FALSE
    OBVIOUS
  <2> DEFINE o == [el |-> ElemAt(r), at |-> r[1] - 1]
  <2>1. o \in ChartFacts /\ r[2] \in Nat \ {0}
    BY PlaceFact
  <2>2. o.el = ElemAt(r) /\ o.at = f.at
    BY <1>2, <1>12
  <2> HIDE DEF o
  <2>3. ByScanner(o.el)
    <3>1. r[2] \in 1 .. (p[2] - 1)
      BY <1>1, <2>1
    <3>2. p[1] \in DOMAIN chart /\ p[2] \in DOMAIN chart[p[1]]
      BY PlaceFact
    <3>3. ByScanner(chart[p[1]][p[2]])
      BY <1>2, <1>7 DEF ElemAt
    <3>4. ByScanner(chart[p[1]][r[2]])
      BY <3>1, <3>2, <3>3 DEF ScannedFirst, InOrder
    <3> QED
      BY <1>12, <2>2, <3>4 DEF ElemAt
  <2>4. PICK h \in ChartFacts :
          h.at + 1 = f.at /\ Expects(h.el, "ID") /\ o.el = Advance(h.el)
    BY <1>8, <2>1, <2>2, <2>3 DEF Shapes, Shape, ScannedFrom
  <2>5. h.at = g.at
    BY <1>6, <2>4, FactFields
  <2>6. DeclaresAfterType(h.el) /\ h.el.start = f.el.start
    BY <1>5, <1>12, <2>2, <2>4, <2>5, OnlyDcl
  <2>7. ~ IsComplete(h.el)
    BY <2>4 DEF Expects
  <2>8. /\ Lhs(o.el) = "dcl" /\ o.el.dot = 2 /\ o.el.start = f.el.start
        /\ Rhs(o.el) = Rhs(h.el)
    BY <2>4, <2>6, <2>7, LastSymbol DEF DeclaresAfterType
  <2>9. Rhs(o.el) = << "type", "ID" >> /\ Rhs(f.el) = << "type", "ID" >>
    BY <1>1, <1>2, <2>1, <2>8, FactFields, DclRule
  <2>10. o.el = f.el
    BY <1>1, <1>2, <1>4, <2>1, <2>8, <2>9, SameElem
  <2>11. r = p
    BY <1>2, <1>12, <2>2, <2>10, OnePlace
  <2> QED
    BY <1>1, <2>11
<1> QED
  BY <1>2, <1>5, <1>9, <1>10, <1>11, <1>12

-----------------------------------------------------------------------------
(* Lists of places.                                                        *)

\* The index of the element at p among those at S.
Rank(S, p) == 1 + Cardinality({ q \in S : Before(q, p) })

\* fc lists the elements at S, and nothing else.
Listing(fc, S) ==
  /\ IsFiniteSet(S) /\ S \subseteq Places
  /\ Lists(fc, S)
  /\ \A n \in DOMAIN fc : \E p \in S : n = Rank(S, p)

\* What a listing says.
LEMMA ListingParts ==
  ASSUME NEW fc \in Seq(Elem), NEW S, Listing(fc, S)
  PROVE  /\ IsFiniteSet(S) /\ S \subseteq Places /\ Len(fc) = Cardinality(S) /\ Len(fc) \in Nat
         /\ \A o \in S : fc[Rank(S, o)] = ElemAt(o)
         /\ \A n \in DOMAIN fc : \E o \in S : n = Rank(S, o)
<1>1. /\ IsFiniteSet(S) /\ S \subseteq Places /\ Lists(fc, S)
      /\ \A n \in DOMAIN fc : \E o \in S : n = Rank(S, o)
  BY DEF Listing
<1>2. Len(fc) = Cardinality(S)
  BY <1>1 DEF Lists
<1>3. \A o \in S : fc[Rank(S, o)] = ElemAt(o)
  BY <1>1, Zenon DEF Lists, Rank
<1>4. Len(fc) \in Nat
  OBVIOUS
<1> QED
  BY <1>1, <1>2, <1>3, <1>4

\* The places are ordered.
LEMMA BeforeOrder ==
  ASSUME IInv, NEW p \in Places, NEW q \in Places, Before(p, q)
  PROVE  p # q /\ ~ Before(q, p)
<1>1. /\ p[1] \in Nat /\ p[2] \in Nat /\ q[1] \in Nat /\ q[2] \in Nat
  BY PlaceFact
<1>2. p # q
  BY <1>1 DEF Before
<1>3. ~ Before(q, p)
  BY <1>1 DEF Before
<1> QED
  BY <1>2, <1>3

\* A rank is an index.
LEMMA RankBounds ==
  ASSUME IInv, NEW S, IsFiniteSet(S), S \subseteq Places, NEW p \in S
  PROVE  Rank(S, p) \in 1 .. Cardinality(S)
<1> DEFINE T == { q \in S : Before(q, p) }
<1>1. T \subseteq S \ {p}
  BY BeforeOrder
<1>2. IsFiniteSet(S \ {p}) /\ Cardinality(S \ {p}) = Cardinality(S) - 1
  BY FS_RemoveElement
<1> HIDE DEF T
<1>3. IsFiniteSet(T) /\ Cardinality(T) <= Cardinality(S \ {p})
  BY <1>1, <1>2, FS_Subset
<1>4. Cardinality(T) \in Nat /\ Cardinality(S) \in Nat
  BY <1>3, FS_CardinalityType
<1>5. 1 + Cardinality(T) \in 1 .. Cardinality(S)
  BY <1>2, <1>3, <1>4
<1> QED
  BY <1>5 DEF Rank, T

\* The rank of the last place.
LEMMA LastRank ==
  ASSUME IInv, NEW S, IsFiniteSet(S), S \subseteq Places, NEW p \in S,
         \A q \in S \ {p} : Before(q, p)
  PROVE  Rank(S, p) = Cardinality(S)
<1>1. { q \in S : Before(q, p) } = S \ {p}
  BY BeforeOrder
<1>2. Cardinality(S \ {p}) = Cardinality(S) - 1 /\ Cardinality(S) \in Nat
  BY FS_RemoveElement, FS_CardinalityType
<1> QED
  BY <1>1, <1>2 DEF Rank

\* A last place does not count for the ranks of the others.
LEMMA OtherRank ==
  ASSUME IInv, NEW S, S \subseteq Places, NEW p \in Places, NEW o \in S, Before(o, p)
  PROVE  Rank(S \cup {p}, o) = Rank(S, o) /\ Rank(S \ {p}, o) = Rank(S, o)
<1>1. ~ Before(p, o)
  BY BeforeOrder
<1>2. /\ { q \in S \cup {p} : Before(q, o) } = { q \in S : Before(q, o) }
      /\ { q \in S \ {p} : Before(q, o) } = { q \in S : Before(q, o) }
  BY <1>1
<1> QED
  BY <1>2 DEF Rank

\* Ranks are in the order of the places.
LEMMA RankOrder ==
  ASSUME IInv, NEW S, IsFiniteSet(S), S \subseteq Places, NEW p \in S, NEW q \in S, Before(p, q)
  PROVE  Rank(S, p) < Rank(S, q)
<1> DEFINE P == { r \in S : Before(r, p) }
           Q == { r \in S : Before(r, q) }
<1>1. \A r \in Places : r[1] \in Nat /\ r[2] \in Nat
  BY PlaceFact
<1>2. \A r \in S : Before(r, p) => Before(r, q)
  BY <1>1 DEF Before
<1>3. P \subseteq Q \ {p} /\ p \in Q /\ Q \subseteq S
  BY <1>2, BeforeOrder
<1> HIDE DEF P, Q
<1>4. IsFiniteSet(Q) /\ Cardinality(Q) \in Nat
  BY <1>3, FS_Subset, FS_CardinalityType
<1>5. IsFiniteSet(Q \ {p}) /\ Cardinality(Q \ {p}) = Cardinality(Q) - 1
  BY <1>3, <1>4, FS_RemoveElement
<1>6. IsFiniteSet(P) /\ Cardinality(P) <= Cardinality(Q \ {p})
  BY <1>3, <1>5, FS_Subset
<1>7. Cardinality(P) \in Nat
  BY <1>6, FS_CardinalityType
<1>8. 1 + Cardinality(P) < 1 + Cardinality(Q)
  BY <1>4, <1>5, <1>6, <1>7
<1> QED
  BY <1>8 DEF Rank, P, Q

\* One place is before the other.
LEMMA OneBefore ==
  ASSUME IInv, NEW p \in Places, NEW q \in Places
  PROVE  p = q \/ Before(p, q) \/ Before(q, p)
<1>1. /\ p = << p[1], p[2] >> /\ p[1] \in Nat /\ p[2] \in Nat
      /\ q = << q[1], q[2] >> /\ q[1] \in Nat /\ q[2] \in Nat
  BY PlaceFact
<1> QED
  BY <1>1 DEF Before

\* Appending the element at a later place.
LEMMA ListingGrows ==
  ASSUME IInv, NEW fc \in Seq(Elem), NEW S, Listing(fc, S), NEW p \in Places,
         ElemAt(p) \in Elem, \A q \in S : Before(q, p)
  PROVE  Listing(Append(fc, ElemAt(p)), S \cup {p})
<1> DEFINE T == S \cup {p}
           el == ElemAt(p)
           new == Append(fc, el)
           L == Len(fc)
<1>1. /\ IsFiniteSet(S) /\ S \subseteq Places /\ L = Cardinality(S) /\ L \in Nat
      /\ \A o \in S : fc[Rank(S, o)] = ElemAt(o)
      /\ \A n \in DOMAIN fc : \E o \in S : n = Rank(S, o)
  BY ListingParts
<1>2. p \notin S
  BY <1>1, BeforeOrder
<1>3. IsFiniteSet(T) /\ T \subseteq Places /\ Cardinality(T) = L + 1
  BY <1>1, <1>2, FS_AddElement
<1>4. /\ new \in Seq(Elem) /\ Len(new) = L + 1 /\ new[L + 1] = el
      /\ \A n \in 1 .. L : new[n] = fc[n]
  BY AppendSeq
<1>5. Rank(T, p) = L + 1
  <2>1. p \in T /\ \A q \in T \ {p} : Before(q, p)
    OBVIOUS
  <2> HIDE DEF T
  <2> QED
    BY <1>3, <2>1, LastRank
<1>6. \A o \in S : Rank(T, o) = Rank(S, o) /\ Rank(S, o) \in 1 .. L
  BY <1>1, OtherRank, RankBounds
<1>7. \A o \in T : o \in S \/ o = p
  OBVIOUS
<1>8. DOMAIN new = 1 .. (L + 1) /\ DOMAIN fc = 1 .. L
  BY <1>4
<1>9. S \subseteq T /\ p \in T
  OBVIOUS
<1> HIDE DEF T, new, L, el
<1>10. \A o \in T : new[Rank(T, o)] = ElemAt(o)
  BY <1>1, <1>4, <1>5, <1>6, <1>7 DEF el
<1>11. \A n \in DOMAIN new : \E o \in T : n = Rank(T, o)
  <2> SUFFICES ASSUME NEW n \in DOMAIN new PROVE \E o \in T : n = Rank(T, o)
    OBVIOUS
  <2>1. n = L + 1 \/ n \in DOMAIN fc
    BY <1>1, <1>8
  <2> QED
    BY <1>1, <1>5, <1>6, <1>9, <2>1
<1>12. Listing(new, T)
  BY <1>3, <1>4, <1>10, <1>11 DEF Listing, Lists, Rank
<1> QED
  BY <1>12 DEF new, T, el

\* Dropping the element at the last place.
LEMMA ListingShrinks ==
  ASSUME IInv, NEW fc \in Seq(Elem), NEW S, Listing(fc, S), NEW p \in S,
         \A q \in S \ {p} : Before(q, p)
  PROVE  /\ Listing(SubSeq(fc, 1, Len(fc) - 1), S \ {p})
         /\ SubSeq(fc, 1, Len(fc) - 1) \in Seq(Elem)
<1> DEFINE T == S \ {p}
           L == Len(fc)
           new == SubSeq(fc, 1, L - 1)
<1>1. /\ IsFiniteSet(S) /\ S \subseteq Places /\ L = Cardinality(S) /\ L \in Nat
      /\ \A o \in S : fc[Rank(S, o)] = ElemAt(o)
      /\ \A n \in DOMAIN fc : \E o \in S : n = Rank(S, o)
  BY ListingParts
<1>2. IsFiniteSet(T) /\ T \subseteq Places /\ Cardinality(T) = L - 1
  BY <1>1, FS_RemoveElement
<1>3. L - 1 \in Nat
  BY <1>2, FS_CardinalityType
<1>4. new \in Seq(Elem) /\ Len(new) = L - 1 /\ \A n \in 1 .. (L - 1) : new[n] = fc[n]
  BY <1>1, <1>3
<1>5. Rank(S, p) = L
  BY <1>1, LastRank
<1>6. \A o \in T : Rank(T, o) = Rank(S, o) /\ Rank(T, o) \in 1 .. (L - 1)
  <2> SUFFICES ASSUME NEW o \in T
               PROVE  Rank(T, o) = Rank(S, o) /\ Rank(T, o) \in 1 .. (L - 1)
    OBVIOUS
  <2>1. o \in S /\ Before(o, p) /\ p \in Places
    BY <1>1
  <2>2. Rank(T, o) = Rank(S, o)
    BY <1>1, <2>1, OtherRank
  <2>3. Rank(T, o) \in 1 .. Cardinality(T)
    <3> HIDE DEF T
    <3> QED
      BY <1>2, RankBounds
  <2> QED
    BY <1>2, <2>2, <2>3
<1>7. \A o \in S : o \in T \/ o = p
  OBVIOUS
<1>8. DOMAIN new = 1 .. (L - 1) /\ DOMAIN fc = 1 .. L
  BY <1>4
<1>9. T \subseteq S
  OBVIOUS
<1> HIDE DEF T, new, L
<1>10. \A o \in T : new[Rank(T, o)] = ElemAt(o)
  BY <1>1, <1>4, <1>6, <1>9
<1>11. \A n \in DOMAIN new : \E o \in T : n = Rank(T, o)
  <2> SUFFICES ASSUME NEW n \in DOMAIN new PROVE \E o \in T : n = Rank(T, o)
    OBVIOUS
  <2>1. n \in DOMAIN fc /\ n # L
    BY <1>1, <1>8
  <2>2. PICK o \in S : n = Rank(S, o)
    BY <1>1, <2>1
  <2> QED
    BY <1>5, <1>6, <1>7, <2>1, <2>2
<1>12. Listing(new, T)
  BY <1>2, <1>4, <1>10, <1>11 DEF Listing, Lists, Rank
<1> QED
  BY <1>4, <1>12 DEF new, T, L

-----------------------------------------------------------------------------
(* What populateFinalChart() has kept.                                     *)

\* A type -> INT at the place of a type -> INT STAR among the places S.
ShadowedIn(S, el) ==
  /\ Lhs(el) = "type"
  /\ Len(Rhs(el)) = 1
  /\ \E p \in S :
       /\ IsComplete(ElemAt(p))
       /\ IsPointerType(ElemAt(p))
       /\ ElemAt(p).start = el.start

Kept(S) == { p \in S : IsComplete(ElemAt(p)) /\ ~ ShadowedIn(S, ElemAt(p)) }

\* The places before element n of the list after the k-th.
SeenAt(k, n) == { p \in Places : p[1] <= k \/ (p[1] = k + 1 /\ p[2] < n) }

\* The final chart lists what is to be kept of the places seen so far.
Populating ==
  /\ pc = "populate" => Listing(finalChart, Kept(SeenAt(c, x)))
  /\ pc \notin {"populate", "accepted"} => finalChart = << >>

\* Elements that are not complete make no difference.
LEMMA KeptSkips ==
  ASSUME NEW S, NEW T, S \subseteq T, \A p \in T \ S : ~ IsComplete(ElemAt(p))
  PROVE  Kept(T) = Kept(S)
<1>1. \A el : ShadowedIn(T, el) <=> ShadowedIn(S, el)
  BY DEF ShadowedIn
<1> QED
  BY <1>1 DEF Kept

\* A later element that is not a type -> INT STAR is added.
LEMMA KeptAdds ==
  ASSUME IInv, Shapes, NEW S, S \subseteq Places, NEW p \in Places,
         \A q \in S : Before(q, p), IsComplete(ElemAt(p)), ~ IsPointerType(ElemAt(p))
  PROVE  Kept(S \cup {p}) = Kept(S) \cup {p}
<1>1. \A el : ShadowedIn(S \cup {p}, el) <=> ShadowedIn(S, el)
  BY DEF ShadowedIn
<1>2. ~ ShadowedIn(S, ElemAt(p))
  <2> SUFFICES ASSUME Lhs(ElemAt(p)) = "type", Len(Rhs(ElemAt(p))) = 1, NEW t \in S,
                      IsComplete(ElemAt(t)), IsPointerType(ElemAt(t)),
                      ElemAt(t).start = ElemAt(p).start
               PROVE  FALSE
    BY DEF ShadowedIn
  <2>1. ElemAt(p).start \in Nat /\ p[1] = ElemAt(p).start + 1 + 1
    BY TypePlace
  <2>2. t \in Places /\ Lhs(ElemAt(t)) = "type" /\ Len(Rhs(ElemAt(t))) = 2
    BY DEF IsPointerType
  <2>3. t[1] = ElemAt(p).start + 1 + 2
    BY <2>2, TypePlace
  <2>4. Before(t, p)
    OBVIOUS
  <2> QED
    BY <2>1, <2>3, <2>4 DEF Before
<1> QED
  BY <1>1, <1>2 DEF Kept

\* A later type -> INT STAR takes the place of the type kept last.
LEMMA KeptReplaces ==
  ASSUME IInv, Complete, Shapes, Walked, pc = "populate",
         NEW S, S \subseteq Places, NEW p \in Places,
         \A q \in S : Before(q, p), \A q \in Places : q[1] < p[1] => q \in S,
         IsComplete(ElemAt(p)), IsPointerType(ElemAt(p))
  PROVE  \E q \in Kept(S) :
           /\ Kept(S \cup {p}) = (Kept(S) \ {q}) \cup {p}
           /\ \A r \in Kept(S) \ {q} : Before(r, q)
<1>1. PICK q \in Places :
        /\ Lhs(ElemAt(q)) = "type" /\ Len(Rhs(ElemAt(q))) = 1 /\ IsComplete(ElemAt(q))
        /\ ElemAt(q).start = ElemAt(p).start /\ q[1] + 1 = p[1]
  BY BeforePointer
<1>2. Lhs(ElemAt(p)) = "type" /\ Len(Rhs(ElemAt(p))) = 2
  BY DEF IsPointerType
<1>3. /\ ElemAt(p).start \in Nat /\ p[1] = ElemAt(p).start + 1 + 2
      /\ q[1] = ElemAt(p).start + 1 + 1
  BY <1>1, <1>2, TypePlace
<1>4. q \in S
  BY <1>1, <1>3
<1>5. ASSUME NEW t \in S, t[1] = p[1], IsComplete(ElemAt(t)) PROVE FALSE
  <2>1. t = p
    BY <1>2, <1>5, OnlyTypePlace
  <2>2. t \in Places /\ Before(t, p)
    BY <1>5
  <2> QED
    BY <2>1, <2>2, BeforeOrder
<1>6. \A r \in S : IsComplete(ElemAt(r)) /\ r[1] = q[1] => r = q
  BY <1>1, OnlyTypePlace
<1>7. ~ ShadowedIn(S, ElemAt(q))
  <2> SUFFICES ASSUME NEW t \in S, IsComplete(ElemAt(t)), IsPointerType(ElemAt(t)),
                      ElemAt(t).start = ElemAt(q).start
               PROVE  FALSE
    BY DEF ShadowedIn
  <2>1. t \in Places /\ Lhs(ElemAt(t)) = "type" /\ Len(Rhs(ElemAt(t))) = 2
    BY DEF IsPointerType
  <2>2. t[1] = p[1]
    BY <1>1, <1>3, <2>1, TypePlace
  <2> QED
    BY <1>5, <2>2
<1>8. q \in Kept(S)
  BY <1>1, <1>4, <1>7 DEF Kept
<1>9. ASSUME NEW r \in S, IsComplete(ElemAt(r))
      PROVE  ShadowedIn(S \cup {p}, ElemAt(r)) <=> ShadowedIn(S, ElemAt(r)) \/ r = q
  <2>1. ASSUME Lhs(ElemAt(r)) = "type", Len(Rhs(ElemAt(r))) = 1,
               ElemAt(p).start = ElemAt(r).start
        PROVE  r = q
    <3>1. r \in Places
      BY <1>9
    <3>2. r[1] = ElemAt(r).start + 1 + 1
      BY <1>9, <2>1, <3>1, TypePlace
    <3> QED
      BY <1>3, <1>6, <1>9, <2>1, <3>2
  <2>2. ShadowedIn(S \cup {p}, ElemAt(q))
    BY <1>1 DEF ShadowedIn
  <2>3. ShadowedIn(S, ElemAt(r)) => ShadowedIn(S \cup {p}, ElemAt(r))
    BY DEF ShadowedIn
  <2>4. ShadowedIn(S \cup {p}, ElemAt(r)) /\ ~ ShadowedIn(S, ElemAt(r)) =>
          /\ Lhs(ElemAt(r)) = "type" /\ Len(Rhs(ElemAt(r))) = 1
          /\ ElemAt(p).start = ElemAt(r).start
    BY DEF ShadowedIn
  <2> QED
    BY <2>1, <2>2, <2>3, <2>4
<1>10. ~ ShadowedIn(S \cup {p}, ElemAt(p))
  BY <1>2 DEF ShadowedIn
<1>11. p \notin S
  BY <1>5
<1>12. Kept(S \cup {p}) = (Kept(S) \ {q}) \cup {p}
  BY <1>4, <1>9, <1>10, <1>11 DEF Kept
<1>13. ASSUME NEW r \in Kept(S) \ {q} PROVE Before(r, q)
  <2>1. r \in S /\ IsComplete(ElemAt(r)) /\ r # q /\ r \in Places
    BY <1>13 DEF Kept
  <2>2. r[1] \in Nat /\ p[1] \in Nat /\ q[1] \in Nat
    BY <2>1, PlaceFact
  <2>3. Before(r, p) /\ r[1] # p[1] /\ r[1] # q[1]
    BY <1>5, <1>6, <2>1
  <2>4. r[1] < p[1]
    BY <2>3 DEF Before
  <2> QED
    BY <1>1, <2>2, <2>3, <2>4 DEF Before
<1> QED
  BY <1>8, <1>12, <1>13

\* One call of addToFinalChart().
LEMMA AddListing ==
  ASSUME IInv, Complete, Shapes, Walked, pc = "populate",
         NEW S, S \subseteq Places, NEW p \in Places,
         \A q \in S : Before(q, p), \A q \in Places : q[1] < p[1] => q \in S,
         IsComplete(ElemAt(p)), Listing(finalChart, Kept(S))
  PROVE  Listing(AddToFinalChart(finalChart, ElemAt(p)), Kept(S \cup {p}))
<1> DEFINE K == Kept(S)
<1>1. finalChart \in Seq(Elem) /\ ElemAt(p) \in Elem
  <2>1. [el |-> ElemAt(p), at |-> p[1] - 1] \in ChartFacts
    BY PlaceFact
  <2>2. ElemAt(p) \in Elem
    BY <2>1, FactFields
  <2> QED
    BY <2>2 DEF IInv, TypeOK
<1>2. Listing(finalChart, K) /\ \A q \in K : Before(q, p)
  BY DEF Kept
<1>3. CASE ~ IsPointerType(ElemAt(p))
  <2>1. Kept(S \cup {p}) = K \cup {p}
    BY <1>3, KeptAdds
  <2>2. AddToFinalChart(finalChart, ElemAt(p)) = Append(finalChart, ElemAt(p))
    BY <1>3 DEF AddToFinalChart
  <2> HIDE DEF K
  <2>3. Listing(Append(finalChart, ElemAt(p)), K \cup {p})
    BY <1>1, <1>2, ListingGrows
  <2> QED
    BY <2>1, <2>2, <2>3
<1>4. CASE IsPointerType(ElemAt(p))
  <2>1. PICK q \in K :
          /\ Kept(S \cup {p}) = (K \ {q}) \cup {p}
          /\ \A r \in K \ {q} : Before(r, q)
    BY <1>4, KeptReplaces
  <2> DEFINE fc == SubSeq(finalChart, 1, Len(finalChart) - 1)
             R == K \ {q}
  <2>2. AddToFinalChart(finalChart, ElemAt(p)) = Append(fc, ElemAt(p))
    BY <1>4 DEF AddToFinalChart
  <2> HIDE DEF K
  <2>3. Listing(fc, R) /\ fc \in Seq(Elem)
    BY <1>1, <1>2, <2>1, ListingShrinks
  <2>4. \A r \in R : Before(r, p)
    BY <1>2
  <2> HIDE DEF fc, R
  <2>5. Listing(Append(fc, ElemAt(p)), R \cup {p})
    BY <1>1, <2>3, <2>4, ListingGrows
  <2> QED
    BY <2>1, <2>2, <2>5 DEF R
<1> QED
  BY <1>3, <1>4

\* Only the chart and the final chart matter.
LEMMA SameListing ==
  ASSUME chart' = chart
  PROVE  (Listing(finalChart, Kept(SeenAt(c, x))))' <=> Listing(finalChart', Kept(SeenAt(c', x')))
BY DEF Listing, Lists, Rank, Kept, ShadowedIn, SeenAt, Places, ElemAt

\* Nothing has been seen at first.
LEMMA AcceptPopulates == IInv /\ Populating /\ Accept => Populating'
<1> SUFFICES ASSUME IInv, Populating, Accept PROVE Populating'
  OBVIOUS
<1>1. chart' = chart /\ c' = 0 /\ x' = 1 /\ pc' = "populate" /\ finalChart' = << >>
  BY DEF Populating, Accept
<1>2. SeenAt(0, 1) = {}
  <2> SUFFICES ASSUME NEW p \in SeenAt(0, 1) PROVE FALSE
    OBVIOUS
  <2>1. p \in Places /\ (p[1] <= 0 \/ (p[1] = 0 + 1 /\ p[2] < 1))
    BY DEF SeenAt
  <2>2. p[1] \in Nat \ {0} /\ p[2] \in Nat \ {0}
    BY <2>1, PlaceFact
  <2> QED
    BY <2>1, <2>2
<1>3. Kept(SeenAt(c', x')) = {}
  BY <1>1, <1>2 DEF Kept
<1>4. Listing(<< >>, {})
  <2>1. IsFiniteSet({}) /\ Cardinality({}) = 0
    BY FS_EmptySet
  <2> QED
    BY <2>1 DEF Listing, Lists
<1> QED
  BY <1>1, <1>3, <1>4, SameListing DEF Populating

\* An element is added.
LEMMA ElemPopulates ==
  IInv /\ Complete /\ Shapes /\ Walked /\ Populating /\ PopulateElem => Populating'
<1> SUFFICES ASSUME IInv, Complete, Shapes, Walked, Populating, PopulateElem PROVE Populating'
  OBVIOUS
<1>1. /\ pc = "populate" /\ pc' = pc /\ chart' = chart /\ c' = c /\ c \in Nat /\ x \in Nat \ {0}
      /\ chart \in Seq(Seq(Elem)) /\ c < Len(chart)
  BY DEF PopulateElem, IInv, TypeOK
<1>2. PICK n \in x .. Len(List(c)) :
        /\ IsComplete(List(c)[n])
        /\ \A m \in x .. (n - 1) : ~ IsComplete(List(c)[m])
        /\ finalChart' = AddToFinalChart(finalChart, List(c)[n])
        /\ x' = n + 1
  BY DEF PopulateElem
<1> DEFINE p == << c + 1, n >>
           S == SeenAt(c, n)
<1>3. c + 1 \in DOMAIN chart /\ chart[c + 1] \in Seq(Elem) /\ n \in Nat \ {0}
  BY <1>1, <1>2
<1>4. n \in DOMAIN chart[c + 1]
  BY <1>2, <1>3 DEF List
<1>5. p \in Places /\ p[1] = c + 1 /\ p[2] = n /\ ElemAt(p) = List(c)[n]
  BY <1>3, <1>4, InPlaces DEF ElemAt, List
<1>6. \A q \in Places : /\ q[1] \in Nat /\ q[2] \in Nat \ {0} /\ q = << q[1], q[2] >>
                        /\ q[2] \in DOMAIN chart[q[1]]
  BY PlaceFact
<1> HIDE DEF p
<1>7. S \subseteq Places /\ \A q \in S : Before(q, p)
  BY <1>1, <1>5, <1>6 DEF SeenAt, Before
<1>8. \A q \in Places : q[1] < p[1] => q \in S
  BY <1>1, <1>5, <1>6 DEF SeenAt
<1>9. SeenAt(c, n + 1) = S \cup {p}
  <2>1. \A q \in Places : q[1] = c + 1 /\ q[2] = n => q = p
    BY <1>6 DEF p
  <2>2. \A q \in Places : q[1] = c + 1 /\ q[2] < n + 1 <=> (q[1] = c + 1 /\ q[2] < n) \/ q = p
    BY <1>3, <1>5, <1>6, <2>1
  <2> QED
    BY <1>5, <2>2 DEF SeenAt
<1>10. Kept(S) = Kept(SeenAt(c, x))
  <2>1. SeenAt(c, x) \subseteq S
    BY <1>1, <1>2, <1>6 DEF SeenAt
  <2>2. \A q \in S \ SeenAt(c, x) : ~ IsComplete(ElemAt(q))
    <3> SUFFICES ASSUME NEW q \in S \ SeenAt(c, x) PROVE ~ IsComplete(ElemAt(q))
      OBVIOUS
    <3>1. q \in Places /\ q[1] = c + 1 /\ q[2] < n /\ ~ (q[2] < x)
      BY DEF SeenAt
    <3>2. q[2] \in x .. (n - 1)
      BY <1>1, <1>3, <1>6, <3>1
    <3> QED
      BY <1>2, <3>1, <3>2 DEF ElemAt, List
  <2> HIDE DEF S
  <2> QED
    BY <2>1, <2>2, KeptSkips
<1>11. Listing(finalChart, Kept(S))
  BY <1>1, <1>10 DEF Populating
<1>12. Listing(AddToFinalChart(finalChart, ElemAt(p)), Kept(S \cup {p}))
  <2> HIDE DEF S
  <2> QED
    BY <1>1, <1>2, <1>5, <1>7, <1>8, <1>11, AddListing
<1>13. Listing(finalChart', Kept(SeenAt(c', x')))
  BY <1>1, <1>2, <1>5, <1>9, <1>12
<1> QED
  BY <1>1, <1>13, SameListing DEF Populating

\* The rest of a list has nothing to add.
LEMMA NextListPopulates == IInv /\ Populating /\ PopulateNextList => Populating'
<1> SUFFICES ASSUME IInv, Populating, PopulateNextList PROVE Populating'
  OBVIOUS
<1>1. /\ pc = "populate" /\ pc' = pc /\ chart' = chart /\ finalChart' = finalChart
      /\ c' = c + 1 /\ x' = 1 /\ c \in Nat /\ x \in Nat \ {0}
      /\ \A n \in x .. Len(List(c)) : ~ IsComplete(List(c)[n])
      /\ chart \in Seq(Seq(Elem))
  BY DEF PopulateNextList, IInv, TypeOK
<1>2. \A q \in Places : /\ q[1] \in Nat /\ q[2] \in Nat \ {0}
                        /\ q[1] \in DOMAIN chart /\ q[2] \in DOMAIN chart[q[1]]
  BY PlaceFact
<1>3. SeenAt(c, x) \subseteq SeenAt(c', x')
  BY <1>1, <1>2 DEF SeenAt
<1>4. ASSUME NEW q \in SeenAt(c', x') \ SeenAt(c, x) PROVE ~ IsComplete(ElemAt(q))
  <2>1. /\ q \in Places /\ (q[1] <= c + 1 \/ (q[1] = c + 1 + 1 /\ q[2] < 1))
        /\ ~ (q[1] <= c) /\ ~ (q[1] = c + 1 /\ q[2] < x)
    BY <1>1, <1>4 DEF SeenAt
  <2>2. q[1] = c + 1 /\ q[2] >= x
    <3>1. q[1] \in Nat /\ q[2] \in Nat \ {0} /\ c \in Nat /\ x \in Nat
      BY <1>1, <1>2, <2>1
    <3> QED
      BY <2>1, <3>1
  <2>3. chart[c + 1] \in Seq(Elem) /\ q[2] \in DOMAIN chart[c + 1]
    BY <1>1, <1>2, <2>1, <2>2
  <2>4. q[2] \in x .. Len(List(c))
    BY <1>1, <2>2, <2>3 DEF List
  <2> QED
    BY <1>1, <2>2, <2>4 DEF ElemAt, List
<1>5. Kept(SeenAt(c', x')) = Kept(SeenAt(c, x))
  BY <1>3, <1>4, KeptSkips
<1>6. Listing(finalChart, Kept(SeenAt(c, x)))
  BY <1>1 DEF Populating
<1> QED
  BY <1>1, <1>5, <1>6, SameListing DEF Populating

\* The final chart is empty at first.
LEMMA InitPopulating == Init => Populating
BY DEF Init, Populating

\* The loops of populateFinalChart() keep their invariant.
LEMMA NextPopulating ==
  IInv /\ Complete /\ Shapes /\ Walked /\ Populating /\ [Next]_vars => Populating'
<1> SUFFICES ASSUME IInv, Complete, Shapes, Walked, Populating, [Next]_vars
             PROVE  Populating'
  OBVIOUS
<1>1. CASE Accept \/ PopulateElem \/ PopulateNextList
  BY <1>1, AcceptPopulates, ElemPopulates, NextListPopulates
<1>2. CASE PopulateDone
  BY <1>2 DEF PopulateDone, Populating
<1>3. CASE UNCHANGED vars
  <2>1. chart' = chart /\ finalChart' = finalChart /\ pc' = pc /\ c' = c /\ x' = x
    BY <1>3 DEF vars
  <2> QED
    BY <2>1, SameListing DEF Populating
<1>4. CASE /\ Step
           /\ ~ (Accept \/ PopulateElem \/ PopulateNextList \/ PopulateDone)
  <2>1. pc \notin {"populate", "accepted"} /\ pc' \notin {"populate", "accepted"}
        /\ finalChart' = finalChart
    BY <1>4 DEF Step, BeginList, InvalidToken, EndList, CallCompleter, CallScanner, CallPredictor,
       PredictRule, PredictorReturns, ScanElem, ScannerReturns, CompleteElem, CompleterNext,
       CompleterReturns, InvalidCode, Loops
  <2> QED
    BY <2>1 DEF Populating
<1> QED
  BY <1>1, <1>2, <1>3, <1>4 DEF Next, Terminated

-----------------------------------------------------------------------------
(* The theorems.                                                           *)

\* In the end every place has been seen.
LEMMA AllKept ==
  ASSUME IInv, Populating, Populated
  PROVE  Listing(finalChart, KeptPlaces)
<1>1. c \in Nat /\ chart \in Seq(Seq(Elem)) /\ c >= Len(chart)
  BY DEF IInv, TypeOK, Populated
<1>2. \A p \in Places : p[1] \in DOMAIN chart
  BY PlaceFact
<1>3. \A p \in Places : p[1] <= c
  BY <1>1, <1>2
<1>4. SeenAt(c, x) = Places
  BY <1>3 DEF SeenAt
<1>5. Kept(Places) = KeptPlaces
  BY DEF Kept, KeptPlaces, ShadowedIn, Shadowed
<1> QED
  BY <1>4, <1>5 DEF Populating, Populated

\* The element before a declaration in the final chart is its type, and in the
\* chart the declaration is one list further on.
LEMMA TypeJustBefore ==
  ASSUME IInv, Shapes, ScannedFirst, Listing(finalChart, KeptPlaces),
         NEW n \in DOMAIN finalChart, Lhs(finalChart[n]) = "dcl"
  PROVE  /\ n > 1
         /\ \E p, q \in Places :
              /\ p \in KeptPlaces /\ n = Rank(KeptPlaces, p)
              /\ finalChart[n] = ElemAt(p) /\ IsComplete(ElemAt(p))
              /\ finalChart[n - 1] = ElemAt(q) /\ IsComplete(ElemAt(q))
              /\ Lhs(ElemAt(q)) = "type" /\ ElemAt(q).start = ElemAt(p).start
              /\ q[1] + 1 = p[1]
<1> DEFINE K == KeptPlaces
<1>1. finalChart \in Seq(Elem) /\ K \subseteq Places /\ \A o \in K : IsComplete(ElemAt(o))
  BY DEF IInv, TypeOK, KeptPlaces
<1>2. /\ IsFiniteSet(K)
      /\ \A o \in K : finalChart[Rank(K, o)] = ElemAt(o)
      /\ \A m \in DOMAIN finalChart : \E o \in K : m = Rank(K, o)
  BY <1>1, ListingParts
<1>3. PICK p \in K : n = Rank(K, p)
  BY <1>2
<1>4. finalChart[n] = ElemAt(p) /\ p \in Places /\ IsComplete(ElemAt(p))
  BY <1>1, <1>2, <1>3
<1>5. PICK q \in Places :
        /\ Lhs(ElemAt(q)) = "type" /\ IsComplete(ElemAt(q)) /\ ~ Shadowed(ElemAt(q))
        /\ ElemAt(q).start = ElemAt(p).start /\ q[1] + 1 = p[1]
        /\ \A r \in Places : IsComplete(ElemAt(r)) /\ r[1] = p[1] => p[2] <= r[2]
  BY <1>4, BeforeDcl
<1>6. q \in K
  BY <1>5 DEF KeptPlaces
<1> HIDE DEF K
<1> DEFINE Q == { r \in K : Before(r, q) }
           P == { r \in K : Before(r, p) }
<1>7. P = Q \cup {q}
  <2>1. \A r \in Places : r[1] \in Nat /\ r[2] \in Nat
    BY PlaceFact
  <2>2. ASSUME NEW r \in K PROVE Before(r, p) <=> Before(r, q) \/ r = q
    <3>1. /\ r \in Places /\ IsComplete(ElemAt(r)) /\ r[1] \in Nat /\ r[2] \in Nat
          /\ p[1] \in Nat /\ p[2] \in Nat /\ q[1] \in Nat /\ q[2] \in Nat
      BY <1>1, <1>4, <1>5, <2>1, <2>2
    <3>2. r[1] = q[1] => r = q
      BY <1>5, <3>1, OnlyTypePlace
    <3>3. r[1] = p[1] => p[2] <= r[2]
      BY <1>5, <3>1
    <3>4. Before(r, p) <=> r[1] <= q[1]
      BY <1>5, <3>1, <3>3 DEF Before
    <3>5. ASSUME Before(r, q) PROVE r[1] <= q[1]
      BY <3>1, <3>5 DEF Before
    <3>6. r[1] <= q[1] => Before(r, q) \/ r = q
      BY <3>1, <3>2 DEF Before
    <3>7. r = q => r[1] <= q[1]
      BY <3>1
    <3> QED
      BY <3>4, <3>5, <3>6, <3>7
  <2> QED
    BY <1>6, <2>2
<1>8. q \notin Q /\ Q \subseteq K
  <2>1. ~ Before(q, q)
    BY <1>5, BeforeOrder
  <2> QED
    BY <2>1
<1> HIDE DEF P, Q
<1>9. IsFiniteSet(Q) /\ Cardinality(Q) \in Nat
  BY <1>2, <1>8, FS_Subset, FS_CardinalityType
<1>10. Cardinality(P) = Cardinality(Q) + 1
  BY <1>7, <1>8, <1>9, FS_AddElement
<1>11. n = 1 + Cardinality(P) /\ Rank(K, q) = 1 + Cardinality(Q)
  BY <1>3 DEF Rank, P, Q
<1>12. n > 1 /\ n - 1 = Rank(K, q)
  BY <1>9, <1>10, <1>11
<1>13. finalChart[n - 1] = ElemAt(q)
  BY <1>2, <1>6, <1>12
<1>14. p \in KeptPlaces /\ n = Rank(KeptPlaces, p)
  BY <1>3 DEF K
<1> QED
  BY <1>4, <1>5, <1>12, <1>13, <1>14

\* Every element of the final chart is a complete fact of the chart.
LEMMA FinalFact ==
  ASSUME IInv, Listing(finalChart, KeptPlaces), NEW n \in DOMAIN finalChart
  PROVE  \E f \in ChartFacts : f.el = finalChart[n] /\ IsComplete(f.el)
<1>1. finalChart \in Seq(Elem)
  BY DEF IInv, TypeOK
<1>2. PICK p \in KeptPlaces : n = Rank(KeptPlaces, p)
  BY <1>1, ListingParts
<1>3. finalChart[n] = ElemAt(p)
  BY <1>1, <1>2, ListingParts
<1>4. p \in Places /\ IsComplete(ElemAt(p))
  BY DEF KeptPlaces
<1>5. [el |-> ElemAt(p), at |-> p[1] - 1] \in ChartFacts
  BY <1>4, PlaceFact
<1> QED
  BY <1>3, <1>4, <1>5

\* A complete fact begins with the terminals of its rule.
LEMMA BeginsWithLiterals ==
  ASSUME IInv, Shapes, NEW f \in ChartFacts, IsComplete(f.el)
  PROVE  BeginsWithItsTokens(f.el)
<1>1. /\ f.at \in Nat /\ f.at <= Len(tokens) /\ Len(tokens) \in Nat /\ f.el.start \in Nat
      /\ Rhs(f.el) \in Seq(Symbols) /\ f.el.dot = Len(Rhs(f.el))
  BY FactFields DEF IsComplete
<1>2. ReadsLiterals(f)
  BY DEF Shapes, Shape
<1> SUFFICES ASSUME NEW d \in DOMAIN Rhs(f.el), Literal(f.el, d)
             PROVE  IsToken(f.el.start + d, Rhs(f.el)[d])
  BY DEF BeginsWithItsTokens, Literal
<1>3. d \in 1 .. f.el.dot
  BY <1>1
<1>4. f.el.start + d <= f.at /\ tokens[f.el.start + d].type = Rhs(f.el)[d]
  BY <1>2, <1>3 DEF ReadsLiterals
<1>5. f.el.start + d \in 1 .. Len(tokens)
  BY <1>1, <1>3, <1>4
<1>6. DOMAIN tokens = 1 .. Len(tokens)
  BY DEF IInv, TypeOK
<1> QED
  BY <1>4, <1>5, <1>6 DEF IsToken

\* The ID that ends a declaration is the one after its type.
LEMMA IdEndsDcl ==
  ASSUME IInv, Shapes, ScannedFirst, Listing(finalChart, KeptPlaces),
         NEW n \in DOMAIN finalChart, Lhs(finalChart[n]) = "dcl"
  PROVE  IdAfterType(n)
<1>0. n > 1
  BY TypeJustBefore
<1>1. PICK p \in Places, q \in Places :
        /\ finalChart[n] = ElemAt(p) /\ IsComplete(ElemAt(p))
        /\ finalChart[n - 1] = ElemAt(q) /\ IsComplete(ElemAt(q))
        /\ Lhs(ElemAt(q)) = "type" /\ ElemAt(q).start = ElemAt(p).start
        /\ q[1] + 1 = p[1]
  BY TypeJustBefore
<1>2. /\ ElemAt(q).start \in Nat /\ q[1] = ElemAt(q).start + 1 + Len(Rhs(ElemAt(q)))
      /\ Len(Rhs(ElemAt(q))) = 1 \/ Len(Rhs(ElemAt(q))) = 2
  BY <1>1, TypePlace
<1> DEFINE f == [el |-> ElemAt(p), at |-> p[1] - 1]
<1>3. f \in ChartFacts /\ p[1] \in Nat \ {0}
  BY PlaceFact
<1>4. f.el = ElemAt(p) /\ f.at = p[1] - 1
  OBVIOUS
<1> HIDE DEF f
<1>5. f.at = finalChart[n].start + Len(Rhs(finalChart[n - 1])) + 1
  BY <1>1, <1>2, <1>3, <1>4
<1>10. tokens[f.at].type = "ID"
  BY <1>1, <1>3, <1>4, IdRead
<1>11. f.at \in 1 .. Len(tokens)
  BY <1>2, <1>1, <1>3, <1>4, FactFields
<1>12. DOMAIN tokens = 1 .. Len(tokens)
  BY DEF IInv, TypeOK
<1> QED
  BY <1>0, <1>5, <1>10, <1>11, <1>12 DEF IdAfterType, IsToken

\* What a complete list of declarations has read last, and where its dcl ends.
LEMMA DclsEnds ==
  ASSUME IInv, Shapes, NEW f \in ChartFacts, Lhs(f.el) = "dcls", IsComplete(f.el), Rhs(f.el) # << >>
  PROVE  /\ f.at \in Nat /\ f.at <= Len(tokens)
         /\ tokens[f.at - 2].type = "BECOMES" /\ tokens[f.at - 1].type = Rhs(f.el)[4]
         /\ tokens[f.at].type = "SEMI"
         /\ Rhs(f.el)[4] \in {"NUM", "NULL_S"}
         /\ \E g \in ChartFacts : Lhs(g.el) = "dcl" /\ IsComplete(g.el) /\ g.at + 3 = f.at
<1>1. f.at \in Nat /\ f.at <= Len(tokens) /\ f.el.rule \in DOMAIN CFG /\ f.el.dot = Len(Rhs(f.el))
  BY FactFields DEF IsComplete
<1>2. /\ f.el.dot = 5 /\ Rhs(f.el)[3] = "BECOMES" /\ Rhs(f.el)[4] \in {"NUM", "NULL_S"}
      /\ Rhs(f.el)[5] = "SEMI"
  BY <1>1, DclsRule
<1>3. HasDcl(f)
  BY DEF Shapes, Shape
<1>4. PICK g \in ChartFacts : Lhs(g.el) = "dcl" /\ IsComplete(g.el) /\ g.at + f.el.dot = f.at + 2
  BY <1>2, <1>3 DEF HasDcl
<1>5. g.at + 3 = f.at
  BY <1>1, <1>2, <1>4, FactFields
<1>6. \A d \in 3 .. 5 : tokens[f.at - 5 + d].type = Rhs(f.el)[d]
  BY <1>2, <1>3 DEF HasDcl
<1>7. /\ tokens[f.at - 5 + 3].type = "BECOMES" /\ tokens[f.at - 5 + 4].type = Rhs(f.el)[4]
      /\ tokens[f.at - 5 + 5].type = "SEMI"
  <2>1. 3 \in 3 .. 5 /\ 4 \in 3 .. 5 /\ 5 \in 3 .. 5
    OBVIOUS
  <2> QED
    BY <1>2, <1>6, <2>1
<1>8. f.at - 5 + 3 = f.at - 2 /\ f.at - 5 + 4 = f.at - 1 /\ f.at - 5 + 5 = f.at
  BY <1>1
<1> QED
  BY <1>1, <1>2, <1>4, <1>5, <1>7, <1>8

\* The last declaration before the place of such a list is the one in it: the
\* lists of the chart in between follow tokens that are not an ID.
LEMMA DclOfDcls ==
  ASSUME IInv, Shapes, ScannedFirst,
         NEW p \in Places, Lhs(ElemAt(p)) = "dcls", IsComplete(ElemAt(p)), Rhs(ElemAt(p)) # << >>
  PROVE  \E q \in Places :
           /\ Lhs(ElemAt(q)) = "dcl" /\ IsComplete(ElemAt(q)) /\ q[1] + 3 = p[1]
           /\ \A r \in Places :
                Lhs(ElemAt(r)) = "dcl" /\ IsComplete(ElemAt(r)) /\ Before(r, p) => r = q \/ Before(r, q)
<1> DEFINE f == [el |-> ElemAt(p), at |-> p[1] - 1]
<1>1. f \in ChartFacts /\ f.el = ElemAt(p) /\ f.at = p[1] - 1
  BY PlaceFact
<1> HIDE DEF f
<1>2. /\ f.at \in Nat
      /\ tokens[f.at - 2].type = "BECOMES" /\ tokens[f.at - 1].type # "ID"
      /\ tokens[f.at].type = "SEMI"
      /\ \E g \in ChartFacts : Lhs(g.el) = "dcl" /\ IsComplete(g.el) /\ g.at + 3 = f.at
  BY <1>1, DclsEnds
<1>3. PICK g \in ChartFacts : Lhs(g.el) = "dcl" /\ IsComplete(g.el) /\ g.at + 3 = f.at
  BY <1>2
<1>4. PICK q \in Places : ElemAt(q) = g.el /\ q[1] = g.at + 1
  BY FactPlace
<1>5. \A r \in Places : r = << r[1], r[2] >> /\ r[1] \in Nat \ {0} /\ r[2] \in Nat \ {0}
  BY PlaceFact
<1>6. q[1] + 3 = p[1]
  <2>1. g.at \in Nat /\ p[1] \in Nat
    BY <1>5, FactFields
  <2> QED
    BY <1>1, <1>3, <1>4, <2>1
<1>7. ASSUME NEW r \in Places, Lhs(ElemAt(r)) = "dcl", IsComplete(ElemAt(r)), Before(r, p)
      PROVE  r = q \/ Before(r, q)
  <2> DEFINE o == [el |-> ElemAt(r), at |-> r[1] - 1]
  <2>1. o \in ChartFacts /\ o.el = ElemAt(r) /\ o.at = r[1] - 1
    BY PlaceFact
  <2> HIDE DEF o
  <2>2. tokens[o.at].type = "ID"
    BY <1>7, <2>1, IdRead
  <2>3. o.at # f.at /\ o.at # f.at - 1 /\ o.at # f.at - 2
    BY <1>2, <2>2
  <2>4. r[1] <= p[1]
    BY <1>5, <1>7 DEF Before
  <2>5. r[1] <= q[1]
    BY <1>1, <1>5, <1>6, <2>1, <2>3, <2>4
  <2>6. CASE r[1] = q[1]
    <3>1. q[2] <= r[2] /\ r[2] <= q[2]
      BY <1>3, <1>4, <1>7, <2>6, BeforeDcl
    <3> QED
      BY <1>5, <2>6, <3>1
  <2> QED
    BY <1>5, <2>5, <2>6 DEF Before
<1> QED
  BY <1>3, <1>4, <1>6, <1>7

\* What gotoCorrectRule() goes to from a list of declarations is the dcl in it.
LEMMA GoesToDcl ==
  ASSUME IInv, Shapes, ScannedFirst, Listing(finalChart, KeptPlaces),
         NEW n \in DOMAIN finalChart, Lhs(finalChart[n]) = "dcls", Rhs(finalChart[n]) # << >>
  PROVE  \E m \in 1 .. (n - 1) : \E p, q \in Places :
           /\ DclBelow(m, n)
           /\ finalChart[n] = ElemAt(p) /\ IsComplete(ElemAt(p))
           /\ q \in KeptPlaces /\ m = Rank(KeptPlaces, q) /\ q[1] + 3 = p[1]
<1> DEFINE K == KeptPlaces
<1>1. finalChart \in Seq(Elem) /\ K \subseteq Places /\ \A o \in K : IsComplete(ElemAt(o))
  BY DEF IInv, TypeOK, KeptPlaces
<1>2. /\ IsFiniteSet(K) /\ Len(finalChart) = Cardinality(K)
      /\ \A o \in K : finalChart[Rank(K, o)] = ElemAt(o)
      /\ \A l \in DOMAIN finalChart : \E o \in K : l = Rank(K, o)
  BY <1>1, ListingParts
<1>3. PICK p \in K : n = Rank(K, p)
  BY <1>2
<1>4. finalChart[n] = ElemAt(p) /\ p \in Places /\ IsComplete(ElemAt(p))
  BY <1>1, <1>2, <1>3
<1>5. PICK q \in Places :
        /\ Lhs(ElemAt(q)) = "dcl" /\ IsComplete(ElemAt(q)) /\ q[1] + 3 = p[1]
        /\ \A r \in Places :
             Lhs(ElemAt(r)) = "dcl" /\ IsComplete(ElemAt(r)) /\ Before(r, p) => r = q \/ Before(r, q)
  BY <1>4, DclOfDcls
<1>6. q \in K
  <2>1. "dcl" # "type"
    OBVIOUS
  <2> QED
    BY <1>5, <2>1 DEF KeptPlaces, Shadowed
<1> HIDE DEF K
<1>7. Before(q, p)
  <2>1. q[1] \in Nat /\ p[1] \in Nat
    BY <1>4, PlaceFact
  <2> QED
    BY <1>5, <2>1 DEF Before
<1>8. \A r \in K : Rank(K, r) \in 1 .. Len(finalChart)
  BY <1>1, <1>2, RankBounds
<1>9. Rank(K, q) \in 1 .. (n - 1)
  <2>1. Rank(K, q) < n
    BY <1>1, <1>2, <1>3, <1>6, <1>7, RankOrder
  <2> QED
    BY <1>3, <1>6, <1>8, <2>1
<1>10. Lhs(finalChart[Rank(K, q)]) = "dcl"
  BY <1>2, <1>5, <1>6
<1>11. ASSUME NEW l \in 1 .. (n - 1), Lhs(finalChart[l]) = "dcl" PROVE l <= Rank(K, q)
  <2>1. l \in DOMAIN finalChart
    BY <1>1, <1>3, <1>8
  <2>2. PICK r \in K : l = Rank(K, r)
    BY <1>2, <2>1
  <2>3. Lhs(ElemAt(r)) = "dcl" /\ IsComplete(ElemAt(r)) /\ r \in Places
    BY <1>1, <1>2, <1>11, <2>2
  <2>4. Before(r, p)
    <3>1. ~ (n <= l)
      BY <1>3, <1>8
    <3>2. r # p
      BY <1>3, <1>8, <2>2, <3>1
    <3>3. ~ Before(p, r)
      <4>1. Before(p, r) => n < l
        BY <1>1, <1>2, <1>3, <2>2, RankOrder
      <4> QED
        BY <1>3, <1>8, <3>1, <4>1
    <3> QED
      BY <1>4, <2>3, <3>2, <3>3, OneBefore
  <2>5. r = q \/ Before(r, q)
    BY <1>5, <2>3, <2>4
  <2>6. Before(r, q) => l < Rank(K, q)
    BY <1>1, <1>2, <1>6, <2>2, RankOrder
  <2> QED
    BY <1>6, <1>8, <2>2, <2>5, <2>6
<1>12. DclBelow(Rank(K, q), n)
  BY <1>9, <1>10, <1>11 DEF DclBelow
<1> QED
  BY <1>4, <1>5, <1>6, <1>9, <1>12 DEF K

\* The token read as an initial value is the value or its neighbour.
LEMMA ValueOfDcls ==
  ASSUME IInv, Shapes, ScannedFirst, Listing(finalChart, KeptPlaces),
         NEW n \in DOMAIN finalChart, Lhs(finalChart[n]) = "dcls", Rhs(finalChart[n]) # << >>
  PROVE  InitialValueRead(n)
<1>1. PICK m \in 1 .. (n - 1) : \E p, q \in Places :
        /\ DclBelow(m, n)
        /\ finalChart[n] = ElemAt(p) /\ IsComplete(ElemAt(p))
        /\ q \in KeptPlaces /\ m = Rank(KeptPlaces, q) /\ q[1] + 3 = p[1]
  BY GoesToDcl
<1>2. PICK p \in Places, q \in Places :
        /\ DclBelow(m, n)
        /\ finalChart[n] = ElemAt(p) /\ IsComplete(ElemAt(p))
        /\ q \in KeptPlaces /\ m = Rank(KeptPlaces, q) /\ q[1] + 3 = p[1]
  BY <1>1
<1>3. m \in DOMAIN finalChart /\ n \in Nat /\ Lhs(finalChart[m]) = "dcl"
  BY <1>2 DEF DclBelow, IInv, TypeOK
<1>4. m > 1
  BY <1>3, TypeJustBefore
<1>5. PICK s \in Places, t \in Places :
        /\ s \in KeptPlaces /\ m = Rank(KeptPlaces, s)
        /\ finalChart[m] = ElemAt(s)
        /\ finalChart[m - 1] = ElemAt(t) /\ IsComplete(ElemAt(t))
        /\ Lhs(ElemAt(t)) = "type" /\ ElemAt(t).start = ElemAt(s).start
        /\ t[1] + 1 = s[1]
  BY <1>3, TypeJustBefore
<1>6. s = q
  <2>1. IsFiniteSet(KeptPlaces) /\ KeptPlaces \subseteq Places
    BY DEF Listing
  <2>2. Rank(KeptPlaces, q) \in Nat
    BY <1>2, <1>3
  <2>3. ~ Before(s, q) /\ ~ Before(q, s)
    <3>1. Before(s, q) => Rank(KeptPlaces, s) < Rank(KeptPlaces, q)
      BY <1>2, <1>5, <2>1, RankOrder
    <3>2. Before(q, s) => Rank(KeptPlaces, q) < Rank(KeptPlaces, s)
      BY <1>2, <1>5, <2>1, RankOrder
    <3> QED
      BY <1>2, <1>5, <2>2, <3>1, <3>2
  <2> QED
    BY <2>3, OneBefore
<1> DEFINE type == Rhs(finalChart[m - 1])
           sym  == Rhs(finalChart[n])[4]
           from == finalChart[m].start
<1>7. /\ from \in Nat /\ q[1] = from + 2 + Len(type)
      /\ Len(type) = 1 \/ Len(type) = 2
  <2>1. /\ ElemAt(t).start \in Nat /\ t[1] = ElemAt(t).start + 1 + Len(Rhs(ElemAt(t)))
        /\ Len(Rhs(ElemAt(t))) = 1 \/ Len(Rhs(ElemAt(t))) = 2
    BY <1>5, TypePlace
  <2> QED
    BY <1>5, <1>6, <2>1
<1> DEFINE f == [el |-> ElemAt(p), at |-> p[1] - 1]
<1>8. f \in ChartFacts /\ f.el = ElemAt(p) /\ f.at = p[1] - 1
  BY PlaceFact
<1> HIDE DEF f
<1>9. /\ f.at \in Nat /\ f.at <= Len(tokens)
      /\ tokens[f.at - 2].type = "BECOMES" /\ tokens[f.at - 1].type = sym
      /\ tokens[f.at].type = "SEMI" /\ sym \in {"NUM", "NULL_S"}
  <2>1. f.el = finalChart[n] /\ IsComplete(f.el)
    BY <1>2, <1>8
  <2> HIDE DEF type, from
  <2> QED
    BY <1>8, <2>1, DclsEnds
<1>10. f.at = from + 4 + Len(type)
  BY <1>2, <1>7, <1>8
<1>11. \A k \in 1 .. f.at : k \in DOMAIN tokens
  BY <1>9 DEF IInv, TypeOK
<1> HIDE DEF type, sym, from
<1>12. IsToken(from + (IF sym = "NUM" THEN 4 ELSE 5), ReadAsValue(sym, type))
  <2>1. CASE sym = "NUM" /\ Len(type) = 1
    <3>1. from + 4 = f.at - 1 /\ from + 4 \in 1 .. f.at
      BY <1>7, <1>10, <2>1
    <3> QED
      BY <1>9, <1>11, <2>1, <3>1 DEF IsToken, ReadAsValue
  <2>2. CASE sym = "NUM" /\ Len(type) = 2
    <3>1. from + 4 = f.at - 2 /\ from + 4 \in 1 .. f.at
      BY <1>7, <1>10, <2>2
    <3> QED
      BY <1>9, <1>11, <2>2, <3>1 DEF IsToken, ReadAsValue
  <2>3. CASE sym = "NULL_S" /\ Len(type) = 1
    <3>1. from + 5 = f.at /\ from + 5 \in 1 .. f.at
      BY <1>7, <1>10, <2>3
    <3> QED
      BY <1>9, <1>11, <2>3, <3>1 DEF IsToken, ReadAsValue
  <2>4. CASE sym = "NULL_S" /\ Len(type) = 2
    <3>1. from + 5 = f.at - 1 /\ from + 5 \in 1 .. f.at
      BY <1>7, <1>10, <2>4
    <3> QED
      BY <1>9, <1>11, <2>4, <3>1 DEF IsToken, ReadAsValue
  <2> QED
    BY <1>7, <1>9, <2>1, <2>2, <2>3, <2>4
<1>13. m \in 2 .. (n - 1)
  BY <1>3, <1>4
<1> QED
  BY <1>2, <1>12, <1>13 DEF InitialValueRead, type, sym, from

\* For every grammar that meets the assumptions and every program that
\* recognise() accepts, addToFinalChart() drops the types that read only the
\* INT of an INT STAR and nothing else, and keeps the order of the rest.
THEOREM DropsOnlyShadowed == Spec => []DropsShadowedTypes
<1>1. IInv /\ Populating => DropsShadowedTypes
  BY AllKept DEF Listing, DropsShadowedTypes
<1> QED
  BY <1>1, SpecInv, InitComplete, NextComplete, InitShapes, NextShapes, InitWalked, NextWalked,
     InitPopulating, NextPopulating, PTL DEF Spec

\* For every grammar that meets the assumptions and every program that
\* recognise() accepts, the type that parseDcl() skips unseen is that of the
\* declaration.
THEOREM TypesPrecede == Spec => []TypeBeforeDcl
<1>1. IInv /\ Shapes /\ ScannedFirst /\ Populating => TypeBeforeDcl
  <2> SUFFICES ASSUME IInv, Shapes, ScannedFirst, Populating, Populated,
                      NEW n \in DOMAIN finalChart, Lhs(finalChart[n]) = "dcl"
               PROVE  TypeBefore(n)
    BY DEF TypeBeforeDcl
  <2>1. Listing(finalChart, KeptPlaces)
    BY AllKept
  <2> QED
    BY <2>1, TypeJustBefore DEF TypeBefore
<1> QED
  BY <1>1, SpecInv, InitComplete, NextComplete, InitShapes, NextShapes, InitOrder, NextOrder,
     InitWalked, NextWalked, InitPopulating, NextPopulating, PTL DEF Spec

\* For every grammar that meets the assumptions and every program that
\* recognise() accepts, the names and numbers that the parser reads as the first
\* to third token of an element and as the ID of a declaration are of the kind it
\* takes them for, and what it reads as an initial value is the value where kind
\* and type agree, and else the token next to it.
THEOREM ReadsAtOffsets == Spec => []TokensAtOffsets
<1>1. IInv /\ Shapes /\ ScannedFirst /\ Populating => TokensAtOffsets
  <2> SUFFICES ASSUME IInv, Shapes, ScannedFirst, Populating, Populated,
                      NEW n \in DOMAIN finalChart
               PROVE  /\ BeginsWithItsTokens(finalChart[n])
                      /\ Lhs(finalChart[n]) = "dcl" => IdAfterType(n)
                      /\ Lhs(finalChart[n]) = "dcls" /\ Rhs(finalChart[n]) # << >> =>
                           InitialValueRead(n)
    BY DEF TokensAtOffsets
  <2>1. Listing(finalChart, KeptPlaces)
    BY AllKept
  <2>2. BeginsWithItsTokens(finalChart[n])
    BY <2>1, FinalFact, BeginsWithLiterals
  <2>3. Lhs(finalChart[n]) = "dcl" => IdAfterType(n)
    BY <2>1, IdEndsDcl
  <2>4. Lhs(finalChart[n]) = "dcls" /\ Rhs(finalChart[n]) # << >> => InitialValueRead(n)
    BY <2>1, ValueOfDcls
  <2> QED
    BY <2>2, <2>3, <2>4
<1> QED
  BY <1>1, SpecInv, InitComplete, NextComplete, InitShapes, NextShapes, InitOrder, NextOrder,
     InitWalked, NextWalked, InitPopulating, NextPopulating, PTL DEF Spec
=============================================================================
