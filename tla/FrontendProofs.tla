--------------------------- MODULE FrontendProofs ---------------------------
(***************************************************************************)
(* What the parser does with every final chart that the recogniser hands   *)
(* over: its functions are defined at every index, go on before the index  *)
(* they are given or throw, and read names and types where they are.  And  *)
(* no text whose braces close, a program for one, makes it crash.          *)
(***************************************************************************)
EXTENDS FinalChartProofs, Frontend

(* Where a parse function goes on.                                         *)

\* The final chart as the parser needs it: its elements are elements.
ChartOK == finalChart \in Seq(Elem)

\* What a function gives back at n: it throws, or goes on before n.
Earlier(at, n) == at \in {P!Fail} \cup 0 .. (n - 1)

\* The greatest of some numbers is one of them.
LEMMA MaxOf ==
  ASSUME NEW n \in Int, NEW S \in SUBSET (1 .. n), S # {}
  PROVE  P!Max(S) \in S
<1>1. \E m \in S : \A q \in S : m >= q
  <2> DEFINE T == { n - q : q \in S }
  <2>0. \A q \in S : q \in Int /\ n - q \in Nat
    OBVIOUS
  <2>1. T \in SUBSET Nat /\ T # {}
    BY <2>0
  <2> HIDE DEF T
  <2>2. PICK t \in T : \A u \in T : t <= u
    BY <2>1, LeastElement
  <2>3. PICK m \in S : t = n - m
    BY <2>2 DEF T
  <2>4. \A q \in S : n - m <= n - q
    BY <2>2, <2>3 DEF T
  <2>5. \A q \in S : m >= q
    BY <2>0, <2>4
  <2> QED
    BY <2>5
<1> QED
  BY <1>1 DEF P!Max

\* The nearest element with a symbol.
LEMMA GotoRuleFinds ==
  ASSUME ChartOK, NEW n \in P!Indices, NEW sym
  PROVE  \/ P!GotoRule(sym, n) = P!Fail
         \/ /\ n > 0 /\ P!GotoRule(sym, n) \in 1 .. n /\ P!GotoRule(sym, n) \in DOMAIN finalChart
            /\ Lhs(finalChart[P!GotoRule(sym, n)]) = sym
            /\ finalChart[P!GotoRule(sym, n)].rule \in DOMAIN CFG
<1> DEFINE found == { m \in 1 .. n : P!Sym(m) = sym }
<1>1. n \in Int /\ n <= Len(finalChart) /\ Len(finalChart) \in Nat /\ P!Fail = -1
  BY DEF ChartOK, P!Indices, P!Fail
<1>2. CASE found = {}
  BY <1>2 DEF P!GotoRule
<1>3. CASE found # {}
  <2>1. P!GotoRule(sym, n) = P!Max(found)
    BY <1>3 DEF P!GotoRule
  <2>2. P!Max(found) \in found
    BY <1>1, <1>3, MaxOf
  <2>3. P!GotoRule(sym, n) \in 1 .. n /\ P!Sym(P!GotoRule(sym, n)) = sym
    BY <2>1, <2>2
  <2>4. P!GotoRule(sym, n) \in DOMAIN finalChart /\ n > 0
    BY <1>1, <2>3 DEF ChartOK
  <2>5. finalChart[P!GotoRule(sym, n)] \in Elem
    BY <2>4 DEF ChartOK
  <2> QED
    BY <2>3, <2>4, <2>5, GrammarAssumption DEF P!Sym, P!Lhs, Lhs, Elem
<1> QED
  BY <1>2, <1>3

\* The indices below n.
Below(at, n) == at \in P!Indices /\ at < n

\* What is before an index below n is below n too.
LEMMA EarlierBelow ==
  ASSUME ChartOK, NEW n \in 1 .. Len(finalChart), NEW m, Below(m, n), NEW at, Earlier(at, m)
  PROVE  Below(at, n) /\ Earlier(at, n)
<1>1. n \in Nat /\ n > 0 /\ n <= Len(finalChart) /\ Len(finalChart) \in Nat /\ P!Fail = -1
  BY DEF ChartOK, P!Fail
<1>2. m \in Int /\ m < n /\ m <= Len(finalChart)
  BY <1>1 DEF Below, P!Indices
<1>3. at = -1 \/ (at \in Nat /\ at <= m - 1)
  BY <1>1, <1>2 DEF Earlier
<1>4. at \in Int /\ at >= -1 /\ at < n
  BY <1>1, <1>2, <1>3
<1> QED
  BY <1>1, <1>3, <1>4 DEF Below, Earlier, P!Indices

\* The index before n is below n.
LEMMA OneBelow ==
  ASSUME ChartOK, NEW n \in 1 .. Len(finalChart)
  PROVE  Below(n - 1, n) /\ Earlier(n - 1, n) /\ Earlier(P!Fail, n)
<1>1. n \in Nat /\ n > 0 /\ n <= Len(finalChart) /\ Len(finalChart) \in Nat /\ P!Fail = -1
  BY DEF ChartOK, P!Fail
<1> QED
  BY <1>1 DEF Below, Earlier, P!Indices

-----------------------------------------------------------------------------
(* The functions for expressions and statements.                           *)

\* Two tables of results agree below n, and what they hold there goes on before.
AgreeBelow(f, g, n) ==
  \A sym \in P!ParsedSymbols : \A m \in P!Indices :
    m < n => f[sym, m] = g[sym, m] /\ Earlier(f[sym, m].at, m)

\* The results that two tables agree on.
LEMMA Looked ==
  ASSUME ChartOK, NEW n \in 1 .. Len(finalChart), NEW f, NEW g, AgreeBelow(f, g, n)
  PROVE  \A sym \in P!ParsedSymbols : \A m :
           Below(m, n) => /\ f[sym, m] = g[sym, m]
                          /\ Below(f[sym, m].at, n) /\ Earlier(f[sym, m].at, n)
<1> SUFFICES ASSUME NEW sym \in P!ParsedSymbols, NEW m, Below(m, n)
             PROVE  /\ f[sym, m] = g[sym, m]
                    /\ Below(f[sym, m].at, n) /\ Earlier(f[sym, m].at, n)
  OBVIOUS
<1>1. f[sym, m] = g[sym, m] /\ Earlier(f[sym, m].at, m)
  BY DEF AgreeBelow, Below
<1> QED
  BY <1>1, EarlierBelow

\* parseExpr() goes on before n, and does the same with two tables that agree
\* below n; so do the other parse functions, one lemma each.
LEMMA ExprAgrees ==
  ASSUME ChartOK, NEW n \in 1 .. Len(finalChart), NEW f, NEW g, AgreeBelow(f, g, n), NEW rhs
  PROVE  /\ P!ParseExpr(f, rhs, n) = P!ParseExpr(g, rhs, n)
         /\ Earlier(P!ParseExpr(f, rhs, n).at, n)
<1> DEFINE term == f["term", n - 1]
           left == f["expr", term.at]
<1>0. \A sym \in P!ParsedSymbols : \A m :
        Below(m, n) => /\ f[sym, m] = g[sym, m]
                       /\ Below(f[sym, m].at, n) /\ Earlier(f[sym, m].at, n)
  BY Looked
<1>1. "term" \in P!ParsedSymbols /\ "expr" \in P!ParsedSymbols
  BY DEF P!ParsedSymbols
<1>2. term = g["term", n - 1] /\ Below(term.at, n) /\ Earlier(term.at, n)
  BY <1>0, <1>1, OneBelow
<1> HIDE DEF term
<1>3. left = g["expr", term.at] /\ Below(left.at, n) /\ Earlier(left.at, n)
  BY <1>0, <1>1, <1>2
<1>4. P!ParseExpr(f, rhs, n) = P!ParseExpr(g, rhs, n)
  BY <1>2, <1>3 DEF P!ParseExpr, term
<1> HIDE DEF left
<1>5. P!ParseExpr(f, rhs, n).at \in {P!Fail, term.at, left.at}
  BY DEF P!ParseExpr, term, left, P!Require, P!Failed, P!Untyped, P!Got
<1> QED
  BY <1>2, <1>3, <1>4, <1>5, OneBelow

\* parseTerm().
LEMMA TermAgrees ==
  ASSUME ChartOK, NEW n \in 1 .. Len(finalChart), NEW f, NEW g, AgreeBelow(f, g, n), NEW rhs
  PROVE  /\ P!ParseTerm(f, rhs, n) = P!ParseTerm(g, rhs, n)
         /\ Earlier(P!ParseTerm(f, rhs, n).at, n)
<1> DEFINE factor == f["factor", n - 1]
           left == f["term", factor.at]
<1>0. \A sym \in P!ParsedSymbols : \A m :
        Below(m, n) => /\ f[sym, m] = g[sym, m]
                       /\ Below(f[sym, m].at, n) /\ Earlier(f[sym, m].at, n)
  BY Looked
<1>1. "factor" \in P!ParsedSymbols /\ "term" \in P!ParsedSymbols
  BY DEF P!ParsedSymbols
<1>2. factor = g["factor", n - 1] /\ Below(factor.at, n) /\ Earlier(factor.at, n)
  BY <1>0, <1>1, OneBelow
<1> HIDE DEF factor
<1>3. left = g["term", factor.at] /\ Below(left.at, n) /\ Earlier(left.at, n)
  BY <1>0, <1>1, <1>2
<1>4. P!ParseTerm(f, rhs, n) = P!ParseTerm(g, rhs, n)
  BY <1>2, <1>3 DEF P!ParseTerm, factor
<1> HIDE DEF left
<1>5. P!ParseTerm(f, rhs, n).at \in {P!Fail, factor.at, left.at}
  BY DEF P!ParseTerm, factor, left, P!Require, P!Failed, P!Untyped, P!Got
<1> QED
  BY <1>2, <1>3, <1>4, <1>5, OneBelow

\* parseTest().
LEMMA TestAgrees ==
  ASSUME ChartOK, NEW n \in 1 .. Len(finalChart), NEW f, NEW g, AgreeBelow(f, g, n), NEW rhs
  PROVE  /\ P!ParseTest(f, rhs, n) = P!ParseTest(g, rhs, n)
         /\ Earlier(P!ParseTest(f, rhs, n).at, n)
<1> DEFINE right == f["expr", n - 1]
           left == f["expr", right.at]
<1>0. \A sym \in P!ParsedSymbols : \A m :
        Below(m, n) => /\ f[sym, m] = g[sym, m]
                       /\ Below(f[sym, m].at, n) /\ Earlier(f[sym, m].at, n)
  BY Looked
<1>1. "expr" \in P!ParsedSymbols
  BY DEF P!ParsedSymbols
<1>2. right = g["expr", n - 1] /\ Below(right.at, n) /\ Earlier(right.at, n)
  BY <1>0, <1>1, OneBelow
<1> HIDE DEF right
<1>3. left = g["expr", right.at] /\ Below(left.at, n) /\ Earlier(left.at, n)
  BY <1>0, <1>1, <1>2
<1>4. P!ParseTest(f, rhs, n) = P!ParseTest(g, rhs, n)
  BY <1>2, <1>3 DEF P!ParseTest, right
<1> HIDE DEF left
<1>5. P!ParseTest(f, rhs, n).at \in {P!Fail, right.at, left.at}
  BY DEF P!ParseTest, right, left, P!Require, P!Failed, P!Untyped, P!Got
<1> QED
  BY <1>2, <1>3, <1>4, <1>5, OneBelow

\* An assignment, of parseStatement().
LEMMA AssignAgrees ==
  ASSUME ChartOK, NEW n \in 1 .. Len(finalChart), NEW f, NEW g, AgreeBelow(f, g, n)
  PROVE  /\ P!ParseAssign(f, n) = P!ParseAssign(g, n)
         /\ Earlier(P!ParseAssign(f, n).at, n)
<1> DEFINE expr == f["expr", n - 1]
           lvalue == f["lvalue", expr.at]
<1>0. \A sym \in P!ParsedSymbols : \A m :
        Below(m, n) => /\ f[sym, m] = g[sym, m]
                       /\ Below(f[sym, m].at, n) /\ Earlier(f[sym, m].at, n)
  BY Looked
<1>1. "expr" \in P!ParsedSymbols /\ "lvalue" \in P!ParsedSymbols
  BY DEF P!ParsedSymbols
<1>2. expr = g["expr", n - 1] /\ Below(expr.at, n) /\ Earlier(expr.at, n)
  BY <1>0, <1>1, OneBelow
<1> HIDE DEF expr
<1>3. lvalue = g["lvalue", expr.at] /\ Below(lvalue.at, n) /\ Earlier(lvalue.at, n)
  BY <1>0, <1>1, <1>2
<1>4. P!ParseAssign(f, n) = P!ParseAssign(g, n)
  BY <1>2, <1>3 DEF P!ParseAssign, expr
<1> HIDE DEF lvalue
<1>5. P!ParseAssign(f, n).at \in {P!Fail, expr.at, lvalue.at}
  BY DEF P!ParseAssign, expr, lvalue, P!Require, P!Failed, P!Untyped, P!Got
<1> QED
  BY <1>2, <1>3, <1>4, <1>5, OneBelow

\* A loop, of parseStatement().
LEMMA WhileAgrees ==
  ASSUME ChartOK, NEW n \in 1 .. Len(finalChart), NEW f, NEW g, AgreeBelow(f, g, n)
  PROVE  /\ P!ParseWhile(f, n) = P!ParseWhile(g, n)
         /\ Earlier(P!ParseWhile(f, n).at, n)
<1> DEFINE block == f["statements", n - 1]
           test == f["test", block.at]
<1>0. \A sym \in P!ParsedSymbols : \A m :
        Below(m, n) => /\ f[sym, m] = g[sym, m]
                       /\ Below(f[sym, m].at, n) /\ Earlier(f[sym, m].at, n)
  BY Looked
<1>1. "statements" \in P!ParsedSymbols /\ "test" \in P!ParsedSymbols
  BY DEF P!ParsedSymbols
<1>2. block = g["statements", n - 1] /\ Below(block.at, n) /\ Earlier(block.at, n)
  BY <1>0, <1>1, OneBelow
<1> HIDE DEF block
<1>3. test = g["test", block.at] /\ Below(test.at, n) /\ Earlier(test.at, n)
  BY <1>0, <1>1, <1>2
<1>4. P!ParseWhile(f, n) = P!ParseWhile(g, n)
  BY <1>2, <1>3 DEF P!ParseWhile, block
<1> HIDE DEF test
<1>5. P!ParseWhile(f, n).at \in {P!Fail, block.at, test.at}
  BY DEF P!ParseWhile, block, test, P!Require, P!Failed, P!Untyped, P!Got
<1> QED
  BY <1>2, <1>3, <1>4, <1>5, OneBelow

\* A conditional, of parseStatement().
LEMMA IfAgrees ==
  ASSUME ChartOK, NEW n \in 1 .. Len(finalChart), NEW f, NEW g, AgreeBelow(f, g, n)
  PROVE  /\ P!ParseIf(f, n) = P!ParseIf(g, n)
         /\ Earlier(P!ParseIf(f, n).at, n)
<1> DEFINE false == f["statements", n - 1]
           true == f["statements", false.at]
           test == f["test", true.at]
<1>0. \A sym \in P!ParsedSymbols : \A m :
        Below(m, n) => /\ f[sym, m] = g[sym, m]
                       /\ Below(f[sym, m].at, n) /\ Earlier(f[sym, m].at, n)
  BY Looked
<1>1. "statements" \in P!ParsedSymbols /\ "test" \in P!ParsedSymbols
  BY DEF P!ParsedSymbols
<1>2. false = g["statements", n - 1] /\ Below(false.at, n) /\ Earlier(false.at, n)
  BY <1>0, <1>1, OneBelow
<1> HIDE DEF false
<1>3. true = g["statements", false.at] /\ Below(true.at, n) /\ Earlier(true.at, n)
  BY <1>0, <1>1, <1>2
<1> HIDE DEF true
<1>4. test = g["test", true.at] /\ Below(test.at, n) /\ Earlier(test.at, n)
  BY <1>0, <1>1, <1>3
<1>5. P!ParseIf(f, n) = P!ParseIf(g, n)
  BY <1>2, <1>3, <1>4 DEF P!ParseIf, false, true
<1> HIDE DEF test
<1>6. P!ParseIf(f, n).at \in {P!Fail, false.at, true.at, test.at}
  BY DEF P!ParseIf, false, true, test, P!Require, P!Failed, P!Untyped, P!Got
<1> QED
  BY <1>2, <1>3, <1>4, <1>5, <1>6, OneBelow

\* parseStatements().
LEMMA BlockAgrees ==
  ASSUME ChartOK, NEW n \in 1 .. Len(finalChart), NEW f, NEW g, AgreeBelow(f, g, n), NEW rhs
  PROVE  /\ P!ParseBlock(f, rhs, n) = P!ParseBlock(g, rhs, n)
         /\ Earlier(P!ParseBlock(f, rhs, n).at, n)
<1> DEFINE last == f["statement", n - 1]
           rest == f["statements", last.at]
<1>0. \A sym \in P!ParsedSymbols : \A m :
        Below(m, n) => /\ f[sym, m] = g[sym, m]
                       /\ Below(f[sym, m].at, n) /\ Earlier(f[sym, m].at, n)
  BY Looked
<1>1. "statement" \in P!ParsedSymbols /\ "statements" \in P!ParsedSymbols
  BY DEF P!ParsedSymbols
<1>2. last = g["statement", n - 1] /\ Below(last.at, n) /\ Earlier(last.at, n)
  BY <1>0, <1>1, OneBelow
<1> HIDE DEF last
<1>3. rest = g["statements", last.at] /\ Earlier(rest.at, n)
  BY <1>0, <1>1, <1>2
<1>4. P!ParseBlock(f, rhs, n) = P!ParseBlock(g, rhs, n)
  BY <1>2, <1>3 DEF P!ParseBlock, last
<1> HIDE DEF rest
<1>5. P!ParseBlock(f, rhs, n).at \in {P!Fail, rest.at, n - 1}
  BY DEF P!ParseBlock, P!Leaf, last, rest, P!Require, P!Failed, P!Untyped, P!Got
<1> QED
  BY <1>3, <1>4, <1>5, OneBelow

\* parseArglist().
LEMMA ArglistAgrees ==
  ASSUME ChartOK, NEW n \in 1 .. Len(finalChart), NEW f, NEW g, AgreeBelow(f, g, n), NEW rhs
  PROVE  /\ P!ParseArglist(f, rhs, n) = P!ParseArglist(g, rhs, n)
         /\ Earlier(P!ParseArglist(f, rhs, n).at, n)
<1> DEFINE rest == IF Len(rhs) = 1 THEN P!NoArgs(n - 1) ELSE f["arglist", n - 1]
           first == f["expr", rest.at]
<1>0. \A sym \in P!ParsedSymbols : \A m :
        Below(m, n) => /\ f[sym, m] = g[sym, m]
                       /\ Below(f[sym, m].at, n) /\ Earlier(f[sym, m].at, n)
  BY Looked
<1>1. "arglist" \in P!ParsedSymbols /\ "expr" \in P!ParsedSymbols
  BY DEF P!ParsedSymbols
<1>2. P!NoArgs(n - 1).at = n - 1
  BY DEF P!NoArgs, P!Untyped, P!Got
<1>3. f["arglist", n - 1] = g["arglist", n - 1] /\ Below(f["arglist", n - 1].at, n)
  BY <1>0, <1>1, OneBelow
<1>4. /\ rest = IF Len(rhs) = 1 THEN P!NoArgs(n - 1) ELSE g["arglist", n - 1]
      /\ Below(rest.at, n)
  BY <1>2, <1>3, OneBelow
<1> HIDE DEF rest
<1>5. first = g["expr", rest.at] /\ Earlier(first.at, n)
  BY <1>0, <1>1, <1>4
<1>6. P!ParseArglist(f, rhs, n) = P!ParseArglist(g, rhs, n)
  BY <1>4, <1>5 DEF P!ParseArglist, rest
<1> HIDE DEF first
<1>7. P!ParseArglist(f, rhs, n).at \in {P!Fail, first.at}
  BY DEF P!ParseArglist, rest, first, P!Require, P!Failed, P!Untyped, P!Got
<1> QED
  BY <1>5, <1>6, <1>7, OneBelow

\* A call, of parseFactor().
LEMMA CallAgrees ==
  ASSUME ChartOK, NEW n \in 1 .. Len(finalChart), NEW f, NEW g, AgreeBelow(f, g, n), NEW rhs
  PROVE  /\ P!ParseCall(f, rhs, n) = P!ParseCall(g, rhs, n)
         /\ Earlier(P!ParseCall(f, rhs, n).at, n)
<1> DEFINE args == IF Len(rhs) = 3 THEN P!NoArgs(n - 1) ELSE f["arglist", n - 1]
<1>0. \A sym \in P!ParsedSymbols : \A m :
        Below(m, n) => /\ f[sym, m] = g[sym, m]
                       /\ Below(f[sym, m].at, n) /\ Earlier(f[sym, m].at, n)
  BY Looked
<1>1. "arglist" \in P!ParsedSymbols
  BY DEF P!ParsedSymbols
<1>2. P!NoArgs(n - 1).at = n - 1
  BY DEF P!NoArgs, P!Untyped, P!Got
<1>3. f["arglist", n - 1] = g["arglist", n - 1] /\ Earlier(f["arglist", n - 1].at, n)
  BY <1>0, <1>1, OneBelow
<1>4. /\ args = IF Len(rhs) = 3 THEN P!NoArgs(n - 1) ELSE g["arglist", n - 1]
      /\ Earlier(args.at, n)
  BY <1>2, <1>3, OneBelow
<1>5. P!ParseCall(f, rhs, n) = P!ParseCall(g, rhs, n)
  BY <1>3 DEF P!ParseCall
<1> HIDE DEF args
<1>6. P!ParseCall(f, rhs, n).at \in {P!Fail, args.at}
  BY DEF P!ParseCall, args, P!Require, P!Failed, P!Untyped, P!Got
<1> QED
  BY <1>4, <1>5, <1>6, OneBelow

\* parseFactor().
LEMMA FactorAgrees ==
  ASSUME ChartOK, NEW n \in 1 .. Len(finalChart), NEW f, NEW g, AgreeBelow(f, g, n), NEW rhs,
         rhs[1] \in {"ID", "NUM", "NULL_S", "LPAREN", "AMP", "STAR", "NEW"},
         rhs[1] = "ID" => rhs = << "ID" >> \/ Len(rhs) > 1
  PROVE  /\ P!ParseFactor(f, rhs, n) = P!ParseFactor(g, rhs, n)
         /\ Earlier(P!ParseFactor(f, rhs, n).at, n)
<1>0. \A sym \in P!ParsedSymbols : \A m :
        Below(m, n) => /\ f[sym, m] = g[sym, m]
                       /\ Below(f[sym, m].at, n) /\ Earlier(f[sym, m].at, n)
  BY Looked
<1>1. {"expr", "lvalue", "factor"} \subseteq P!ParsedSymbols
  BY DEF P!ParsedSymbols
<1>2. \A sym \in {"expr", "lvalue", "factor"} :
        f[sym, n - 1] = g[sym, n - 1] /\ Earlier(f[sym, n - 1].at, n)
  BY <1>0, <1>1, OneBelow
<1>3. P!ParseCall(f, rhs, n) = P!ParseCall(g, rhs, n) /\ Earlier(P!ParseCall(f, rhs, n).at, n)
  BY CallAgrees
<1>4. P!ParseFactor(f, rhs, n) = P!ParseFactor(g, rhs, n)
  BY <1>2, <1>3 DEF P!ParseFactor
<1>5. P!ParseFactor(f, rhs, n).at \in {P!Fail, n - 1, P!ParseCall(f, rhs, n).at, f["expr", n - 1].at,
                                     f["lvalue", n - 1].at, f["factor", n - 1].at}
  BY DEF P!ParseFactor, P!Operand, P!Leaf, P!Require, P!Failed, P!Untyped, P!Got
<1> QED
  BY <1>2, <1>3, <1>4, <1>5, OneBelow

\* parseLvalue().
LEMMA LvalueAgrees ==
  ASSUME ChartOK, NEW n \in 1 .. Len(finalChart), NEW f, NEW g, AgreeBelow(f, g, n), NEW rhs,
         rhs[1] \in {"ID", "STAR", "LPAREN"}
  PROVE  /\ P!ParseLvalue(f, rhs, n) = P!ParseLvalue(g, rhs, n)
         /\ Earlier(P!ParseLvalue(f, rhs, n).at, n)
<1>0. \A sym \in P!ParsedSymbols : \A m :
        Below(m, n) => /\ f[sym, m] = g[sym, m]
                       /\ Below(f[sym, m].at, n) /\ Earlier(f[sym, m].at, n)
  BY Looked
<1>1. {"lvalue", "factor"} \subseteq P!ParsedSymbols
  BY DEF P!ParsedSymbols
<1>2. \A sym \in {"lvalue", "factor"} :
        f[sym, n - 1] = g[sym, n - 1] /\ Earlier(f[sym, n - 1].at, n)
  BY <1>0, <1>1, OneBelow
<1>3. P!ParseLvalue(f, rhs, n) = P!ParseLvalue(g, rhs, n)
  BY <1>2 DEF P!ParseLvalue
<1>4. P!ParseLvalue(f, rhs, n).at \in {P!Fail, n - 1, f["lvalue", n - 1].at, f["factor", n - 1].at}
  BY DEF P!ParseLvalue, P!Operand, P!Leaf, P!Require, P!Failed, P!Untyped, P!Got
<1> QED
  BY <1>2, <1>3, <1>4, OneBelow

\* parseStatement().
LEMMA StatementAgrees ==
  ASSUME ChartOK, NEW n \in 1 .. Len(finalChart), NEW f, NEW g, AgreeBelow(f, g, n), NEW rhs,
         rhs[1] \in {"lvalue", "IF", "WHILE", "PRINTLN", "DELETE"}
  PROVE  /\ P!ParseStatement(f, rhs, n) = P!ParseStatement(g, rhs, n)
         /\ Earlier(P!ParseStatement(f, rhs, n).at, n)
<1>0. \A sym \in P!ParsedSymbols : \A m :
        Below(m, n) => /\ f[sym, m] = g[sym, m]
                       /\ Below(f[sym, m].at, n) /\ Earlier(f[sym, m].at, n)
  BY Looked
<1>1. "expr" \in P!ParsedSymbols
  BY DEF P!ParsedSymbols
<1>2. f["expr", n - 1] = g["expr", n - 1] /\ Earlier(f["expr", n - 1].at, n)
  BY <1>0, <1>1, OneBelow
<1>3. /\ P!ParseAssign(f, n) = P!ParseAssign(g, n) /\ Earlier(P!ParseAssign(f, n).at, n)
      /\ P!ParseIf(f, n) = P!ParseIf(g, n) /\ Earlier(P!ParseIf(f, n).at, n)
      /\ P!ParseWhile(f, n) = P!ParseWhile(g, n) /\ Earlier(P!ParseWhile(f, n).at, n)
  BY AssignAgrees, IfAgrees, WhileAgrees
<1>4. P!ParseStatement(f, rhs, n) = P!ParseStatement(g, rhs, n)
  BY <1>2, <1>3 DEF P!ParseStatement
<1>5. P!ParseStatement(f, rhs, n).at \in {P!Fail, P!ParseAssign(f, n).at, P!ParseIf(f, n).at,
                                        P!ParseWhile(f, n).at, f["expr", n - 1].at}
  BY DEF P!ParseStatement, P!Operand, P!Leaf, P!Require, P!Failed, P!Untyped, P!Got
<1> QED
  BY <1>2, <1>3, <1>4, <1>5, OneBelow

\* What the rule of a complete element begins with.
LEMMA RuleBegins ==
  ASSUME NEW el, el.rule \in DOMAIN CFG
  PROVE  /\ Lhs(el) = "lvalue" => Rhs(el)[1] \in {"ID", "STAR", "LPAREN"}
         /\ Lhs(el) = "factor" =>
              /\ Rhs(el)[1] \in {"ID", "NUM", "NULL_S", "LPAREN", "AMP", "STAR", "NEW"}
              /\ Rhs(el)[1] = "ID" => Rhs(el) = << "ID" >> \/ Len(Rhs(el)) > 1
         /\ Lhs(el) = "statement" => Rhs(el)[1] \in {"lvalue", "IF", "WHILE", "PRINTLN", "DELETE"}
         /\ Lhs(el) = "dcls" => Rhs(el) = << >> \/ Len(Rhs(el)) > 3
BY ParserAssumption DEF Lhs, Rhs

\* The right-hand side of an element's rule.
LEMMA SameRhs == \A n : P!RhsOf(n) = Rhs(finalChart[n])
BY DEF P!RhsOf, P!Rhs, Rhs

\* What PARSE_BEGIN leads to, whatever the symbol.
LEMMA FromAgrees ==
  ASSUME ChartOK, NEW sym \in P!ParsedSymbols, NEW n \in P!Indices, NEW f, NEW g, AgreeBelow(f, g, n)
  PROVE  /\ P!ParseFrom(f, sym, n) = P!ParseFrom(g, sym, n)
         /\ Earlier(P!ParseFrom(f, sym, n).at, n)
<1> DEFINE at == P!GotoRule(sym, n)
           rhs == P!RhsOf(at)
<1>1. CASE at = P!Fail
  <2>1. P!ParseFrom(f, sym, n) = P!Failed /\ P!ParseFrom(g, sym, n) = P!Failed
    BY <1>1 DEF P!ParseFrom
  <2>2. P!Failed.at = P!Fail
    BY DEF P!Failed, P!Untyped, P!Got
  <2> QED
    BY <2>1, <2>2 DEF Earlier
<1>2. CASE at # P!Fail
  <2>1. /\ at \in 1 .. n /\ at \in DOMAIN finalChart /\ Lhs(finalChart[at]) = sym
        /\ finalChart[at].rule \in DOMAIN CFG
    BY <1>2, GotoRuleFinds
  <2>2. n \in Int /\ n <= Len(finalChart) /\ Len(finalChart) \in Nat
    BY DEF ChartOK, P!Indices, P!Fail
  <2>3. at \in 1 .. Len(finalChart)
    BY <2>1, <2>2
  <2>4. AgreeBelow(f, g, at)
    <3>1. \A m \in P!Indices : m < at => m < n
      BY <2>1, <2>2 DEF P!Indices, P!Fail
    <3> QED
      BY <3>1 DEF AgreeBelow
  <2>5. /\ sym = "lvalue" => rhs[1] \in {"ID", "STAR", "LPAREN"}
        /\ sym = "factor" =>
             /\ rhs[1] \in {"ID", "NUM", "NULL_S", "LPAREN", "AMP", "STAR", "NEW"}
             /\ rhs[1] = "ID" => rhs = << "ID" >> \/ Len(rhs) > 1
        /\ sym = "statement" => rhs[1] \in {"lvalue", "IF", "WHILE", "PRINTLN", "DELETE"}
    BY <2>1, RuleBegins, SameRhs
  <2> DEFINE F == P!ParseFrom(f, sym, n)
             G == P!ParseFrom(g, sym, n)
  <2>6. F = G /\ Earlier(F.at, at)
    <3> USE <1>2
    <3> HIDE DEF at, rhs
    <3>1. CASE sym = "expr"
      <4>1. F = P!ParseExpr(f, rhs, at) /\ G = P!ParseExpr(g, rhs, at)
        BY <3>1 DEF P!ParseFrom, at, rhs
      <4> QED
        BY <4>1, <2>3, <2>4, ExprAgrees
    <3>2. CASE sym = "term"
      <4>1. F = P!ParseTerm(f, rhs, at) /\ G = P!ParseTerm(g, rhs, at)
        BY <3>2 DEF P!ParseFrom, at, rhs
      <4> QED
        BY <4>1, <2>3, <2>4, TermAgrees
    <3>3. CASE sym = "factor"
      <4>1. F = P!ParseFactor(f, rhs, at) /\ G = P!ParseFactor(g, rhs, at)
        BY <3>3 DEF P!ParseFrom, at, rhs
      <4> QED
        BY <4>1, <2>3, <2>4, <2>5, <3>3, FactorAgrees
    <3>4. CASE sym = "lvalue"
      <4>1. F = P!ParseLvalue(f, rhs, at) /\ G = P!ParseLvalue(g, rhs, at)
        BY <3>4 DEF P!ParseFrom, at, rhs
      <4> QED
        BY <4>1, <2>3, <2>4, <2>5, <3>4, LvalueAgrees
    <3>5. CASE sym = "arglist"
      <4>1. F = P!ParseArglist(f, rhs, at) /\ G = P!ParseArglist(g, rhs, at)
        BY <3>5 DEF P!ParseFrom, at, rhs
      <4> QED
        BY <4>1, <2>3, <2>4, ArglistAgrees
    <3>6. CASE sym = "test"
      <4>1. F = P!ParseTest(f, rhs, at) /\ G = P!ParseTest(g, rhs, at)
        BY <3>6 DEF P!ParseFrom, at, rhs
      <4> QED
        BY <4>1, <2>3, <2>4, TestAgrees
    <3>7. CASE sym = "statements"
      <4>1. F = P!ParseBlock(f, rhs, at) /\ G = P!ParseBlock(g, rhs, at)
        BY <3>7 DEF P!ParseFrom, at, rhs
      <4> QED
        BY <4>1, <2>3, <2>4, BlockAgrees
    <3>8. CASE sym = "statement"
      <4>1. F = P!ParseStatement(f, rhs, at) /\ G = P!ParseStatement(g, rhs, at)
        BY <3>8 DEF P!ParseFrom, at, rhs
      <4> QED
        BY <4>1, <2>3, <2>4, <2>5, <3>8, StatementAgrees
    <3> QED
      BY <3>1, <3>2, <3>3, <3>4, <3>5, <3>6, <3>7, <3>8 DEF P!ParsedSymbols
  <2> HIDE DEF at, F
  <2>7. Earlier(F.at, n)
    BY <2>1, <2>2, <2>6 DEF Earlier
  <2> QED
    BY <2>6, <2>7 DEF F
<1> QED
  BY <1>1, <1>2

-----------------------------------------------------------------------------
(* parse is defined: there is a table of all results.  It is built up      *)
(* index by index, since a result needs none but those below it.           *)

\* The results up to index k.
Table(f, k) == f = [at \in P!ParsedSymbols \X (P!Fail .. k) |-> P!ParseFrom(f, at[1], at[2])]

\* What a table holds.
LEMMA TableHolds ==
  ASSUME NEW f, NEW k, Table(f, k), NEW sym \in P!ParsedSymbols, NEW n \in P!Fail .. k
  PROVE  f[sym, n] = P!ParseFrom(f, sym, n)
BY DEF Table

\* The indices from Fail on.
LEMMA IndexRange ==
  ASSUME ChartOK
  PROVE  /\ Len(finalChart) \in Nat /\ P!Fail = -1
         /\ \A n : n \in P!Indices <=> n \in Int /\ n >= -1 /\ n <= Len(finalChart)
         /\ \A k \in Nat : \A n : n \in P!Fail .. k <=> n \in Int /\ n >= -1 /\ n <= k
BY DEF ChartOK, P!Indices, P!Fail

\* Every result of a table goes on before its index.
LEMMA TableEarlier ==
  ASSUME ChartOK, NEW k \in Nat, k <= Len(finalChart), NEW f, Table(f, k),
         NEW n \in P!Indices, n <= k + 1
  PROVE  AgreeBelow(f, f, n)
<1> DEFINE S == { m \in Nat : m <= k + 1 =>
                    \A sym \in P!ParsedSymbols : Earlier(f[sym, m - 1].at, m - 1) }
<1>1. ASSUME NEW m \in Nat, \A q \in 0 .. (m - 1) : q \in S PROVE m \in S
  <2> SUFFICES ASSUME m <= k + 1, NEW sym \in P!ParsedSymbols
               PROVE  Earlier(f[sym, m - 1].at, m - 1)
    OBVIOUS
  <2>1. m - 1 \in P!Indices /\ m - 1 \in P!Fail .. k
    BY IndexRange
  <2>2. AgreeBelow(f, f, m - 1)
    <3> SUFFICES ASSUME NEW s \in P!ParsedSymbols, NEW q \in P!Indices, q < m - 1
                 PROVE  Earlier(f[s, q].at, q)
      BY DEF AgreeBelow
    <3>1. q \in Int /\ q >= -1
      BY IndexRange
    <3>2. q + 1 \in 0 .. (m - 1) /\ q + 1 <= k + 1 /\ (q + 1) - 1 = q
      BY <3>1
    <3>3. q + 1 \in S
      BY <1>1, <3>2
    <3> QED
      BY <3>2, <3>3
  <2>3. Earlier(P!ParseFrom(f, sym, m - 1).at, m - 1)
    BY <2>1, <2>2, FromAgrees
  <2>4. f[sym, m - 1] = P!ParseFrom(f, sym, m - 1)
    BY <2>1, TableHolds
  <2> QED
    BY <2>3, <2>4
<1> HIDE DEF S
<1>2. \A m \in Nat : m \in S
  BY <1>1, StrongInduction
<1> SUFFICES ASSUME NEW s \in P!ParsedSymbols, NEW q \in P!Indices, q < n
             PROVE  Earlier(f[s, q].at, q)
  BY DEF AgreeBelow
<1>3. q \in Int /\ q >= -1 /\ n \in Int
  BY IndexRange
<1>4. q + 1 \in Nat /\ q + 1 <= k + 1 /\ (q + 1) - 1 = q
  BY <1>3
<1>5. q + 1 \in S
  BY <1>2, <1>4
<1> QED
  BY <1>4, <1>5 DEF S

\* A table can be continued by an index.
LEMMA TableGrows ==
  ASSUME ChartOK, NEW k \in Nat, k < Len(finalChart), NEW f, Table(f, k)
  PROVE  \E g : Table(g, k + 1)
<1> DEFINE g == [at \in P!ParsedSymbols \X (P!Fail .. (k + 1)) |->
                   IF at[2] <= k THEN f[at] ELSE P!ParseFrom(f, at[1], at[2])]
<1>1. ASSUME NEW sym \in P!ParsedSymbols, NEW n \in P!Fail .. (k + 1)
      PROVE  g[sym, n] = IF n <= k THEN f[sym, n] ELSE P!ParseFrom(f, sym, n)
  BY <1>1
<1>2. g = [at \in P!ParsedSymbols \X (P!Fail .. (k + 1)) |-> g[at]]
  OBVIOUS
<1> HIDE DEF g
<1>3. ASSUME NEW sym \in P!ParsedSymbols, NEW n \in P!Fail .. (k + 1)
      PROVE  g[sym, n] = P!ParseFrom(g, sym, n)
  <2>1. /\ n \in P!Indices /\ n <= k + 1 /\ n \in Int /\ k <= Len(finalChart)
        /\ n <= k => n \in P!Fail .. k
    BY IndexRange
  <2>2. AgreeBelow(f, g, n)
    <3> SUFFICES ASSUME NEW s \in P!ParsedSymbols, NEW q \in P!Indices, q < n
                 PROVE  f[s, q] = g[s, q] /\ Earlier(f[s, q].at, q)
      BY DEF AgreeBelow
    <3>1. q \in P!Fail .. (k + 1) /\ q <= k
      BY <2>1, IndexRange
    <3>2. f[s, q] = g[s, q]
      BY <1>1, <3>1
    <3>3. AgreeBelow(f, f, n)
      BY <2>1, TableEarlier
    <3> QED
      BY <3>2, <3>3 DEF AgreeBelow
  <2>3. P!ParseFrom(f, sym, n) = P!ParseFrom(g, sym, n)
    BY <2>1, <2>2, FromAgrees
  <2>4. CASE n <= k
    <3>1. f[sym, n] = P!ParseFrom(f, sym, n)
      BY <2>1, <2>4, TableHolds
    <3> QED
      BY <1>1, <2>3, <2>4, <3>1
  <2>5. CASE ~ (n <= k)
    BY <1>1, <2>3, <2>5
  <2> QED
    BY <2>4, <2>5
<1>4. Table(g, k + 1)
  <2>1. ASSUME NEW at \in P!ParsedSymbols \X (P!Fail .. (k + 1))
        PROVE  g[at] = P!ParseFrom(g, at[1], at[2])
    <3>1. at[1] \in P!ParsedSymbols /\ at[2] \in P!Fail .. (k + 1) /\ at = << at[1], at[2] >>
      OBVIOUS
    <3>2. g[at[1], at[2]] = P!ParseFrom(g, at[1], at[2])
      BY <1>3, <3>1
    <3> QED
      BY <3>1, <3>2
  <2> QED
    BY <1>2, <2>1 DEF Table
<1> QED
  BY <1>4

\* So there is a table of all the results.
LEMMA TableExists ==
  ASSUME ChartOK
  PROVE  \E f : Table(f, Len(finalChart))
<1> DEFINE S == { k \in Nat : k <= Len(finalChart) => \E f : Table(f, k) }
<1>1. 0 \in S
  <2> DEFINE f == [at \in P!ParsedSymbols \X (P!Fail .. 0) |-> P!Failed]
  <2>1. ASSUME NEW sym \in P!ParsedSymbols, NEW n \in P!Fail .. 0
        PROVE  \A g : P!ParseFrom(g, sym, n) = P!Failed
    <3>1. n \in P!Indices /\ ~ (n > 0)
      BY IndexRange
    <3>2. P!GotoRule(sym, n) = P!Fail
      BY <3>1, GotoRuleFinds
    <3> QED
      BY <3>2 DEF P!ParseFrom
  <2>2. \A at \in P!ParsedSymbols \X (P!Fail .. 0) : P!ParseFrom(f, at[1], at[2]) = P!Failed
    <3> HIDE DEF f
    <3> QED
      BY <2>1
  <2>3. Table(f, 0)
    BY <2>2 DEF Table
  <2> QED
    BY <2>3
<1>2. ASSUME NEW k \in Nat, k \in S PROVE k + 1 \in S
  <2> SUFFICES ASSUME k + 1 <= Len(finalChart) PROVE \E f : Table(f, k + 1)
    OBVIOUS
  <2>1. Len(finalChart) \in Nat
    BY IndexRange
  <2>2. k <= Len(finalChart) /\ k < Len(finalChart)
    BY <2>1
  <2>3. PICK f : Table(f, k)
    BY <1>2, <2>2
  <2> QED
    BY <2>2, <2>3, TableGrows
<1> HIDE DEF S
<1>3. \A k \in Nat : k \in S
  BY <1>1, <1>2, Induction
<1>4. Len(finalChart) \in Nat /\ Len(finalChart) <= Len(finalChart)
  BY IndexRange
<1> QED
  BY <1>3, <1>4 DEF S

\* parse is that table: what each of its functions gives back goes on before
\* the index it is given, or throws.
LEMMA ParseEarlier ==
  ASSUME ChartOK, NEW sym \in P!ParsedSymbols, NEW n \in P!Indices
  PROVE  /\ P!parse[<< sym, n >>] = P!ParseFrom(P!parse, sym, n)
         /\ Earlier(P!parse[<< sym, n >>].at, n)
<1> DEFINE k == Len(finalChart)
<1>1. P!parse = CHOOSE h : Table(h, k)
  BY Zenon DEF P!parse, Table, P!Indices
<1>2. Table(P!parse, k)
  BY <1>1, TableExists, Zenon
<1>3. /\ k \in Nat /\ k <= Len(finalChart) /\ n <= k + 1 /\ n \in P!Fail .. k
      /\ n \in Int
  BY IndexRange
<1>4. P!parse[<< sym, n >>] = P!ParseFrom(P!parse, sym, n)
  BY <1>2, <1>3, TableHolds
<1>5. AgreeBelow(P!parse, P!parse, n)
  BY <1>2, <1>3, TableEarlier
<1> QED
  BY <1>4, <1>5, FromAgrees

-----------------------------------------------------------------------------
(* The loops over declarations.                                            *)

\* What the declarations of the final chart can be read as.
Declarations ==
  { P!DclAt(d, sym) : d \in { n \in DOMAIN finalChart : Lhs(finalChart[n]) = "dcl" },
                      sym \in Symbols \cup {"none"} }

\* What is collected before n.
Collects(result, n) == Earlier(result.at, n) /\ result.dcls \in Seq(Declarations)

\* Two tables of what a loop collects agree below n.
LoopsAgree(f, g, n) ==
  \A m \in P!Indices : m < n => f[m] = g[m] /\ Collects(f[m], m)

\* Nothing is collected by a loop that throws.
LEMMA NoDclsCollected == \A n : Collects(P!NoDcls, n)
BY DEF Collects, Earlier, P!NoDcls, P!Dcls

\* The same where what is collected may go on at the index given.
LoopsNear(f, g, n) ==
  \A m \in P!Indices : m < n => f[m] = g[m] /\ Collects(f[m], m + 1)

\* Two tables that agree below n agree below what is not above n.
LEMMA AgreeNear ==
  ASSUME ChartOK, NEW n, NEW f, NEW g, LoopsAgree(f, g, n)
  PROVE  LoopsNear(f, g, n)
<1> SUFFICES ASSUME NEW m \in P!Indices, Collects(f[m], m) PROVE Collects(f[m], m + 1)
  BY DEF LoopsAgree, LoopsNear
<1>1. m \in Int /\ P!Fail = -1
  BY IndexRange
<1> QED
  BY <1>1 DEF Collects, Earlier

\* parseDcl() and the declarations that the loop around it finds before.
LEMMA DclAgrees ==
  ASSUME ChartOK, NEW n \in P!Indices, NEW f, NEW g, LoopsNear(f, g, n),
         NEW sym \in Symbols \cup {"none"}
  PROVE  /\ P!ParseDcl(f, sym, n) = P!ParseDcl(g, sym, n)
         /\ Collects(P!ParseDcl(f, sym, n), n)
<1> DEFINE d == P!GotoRule("dcl", n)
           dcl == P!DclAt(d, sym)
<1>1. CASE d = P!Fail
  <2>1. P!ParseDcl(f, sym, n) = P!NoDcls /\ P!ParseDcl(g, sym, n) = P!NoDcls
    BY <1>1 DEF P!ParseDcl
  <2> QED
    BY <2>1, NoDclsCollected
<1>2. CASE d # P!Fail
  <2>1. d \in 1 .. n /\ d \in DOMAIN finalChart /\ Lhs(finalChart[d]) = "dcl"
    BY <1>2, GotoRuleFinds
  <2>2. n \in Int /\ n <= Len(finalChart) /\ P!Fail = -1
    BY IndexRange
  <2>3. d - 2 \in P!Indices /\ d - 2 < n /\ d - 2 < d
    BY <2>1, <2>2, IndexRange
  <2>4. f[d - 2] = g[d - 2] /\ Collects(f[d - 2], d - 1)
    BY <2>2, <2>1, <2>3 DEF LoopsNear
  <2>5. dcl \in Declarations
    BY <2>1 DEF Declarations
  <2>6. P!ParseDcl(f, sym, n) = IF f[d - 2].at = P!Fail THEN P!NoDcls
                                ELSE P!Dcls(<< dcl >> \o f[d - 2].dcls, f[d - 2].at)
    BY <1>2 DEF P!ParseDcl
  <2>7. P!ParseDcl(g, sym, n) = IF g[d - 2].at = P!Fail THEN P!NoDcls
                                ELSE P!Dcls(<< dcl >> \o g[d - 2].dcls, g[d - 2].at)
    BY <1>2 DEF P!ParseDcl
  <2> HIDE DEF d, dcl
  <2>8. Collects(P!Dcls(<< dcl >> \o f[d - 2].dcls, f[d - 2].at), n)
    <3>1. << dcl >> \o f[d - 2].dcls \in Seq(Declarations)
      BY <2>4, <2>5 DEF Collects
    <3>2. Earlier(f[d - 2].at, n)
      BY <2>1, <2>2, <2>4 DEF Collects, Earlier
    <3> QED
      BY <3>1, <3>2 DEF Collects, P!Dcls
  <2> QED
    BY <2>4, <2>6, <2>7, <2>8, NoDclsCollected
<1> QED
  BY <1>1, <1>2

\* The loop for a symbol.
LoopFrom(sym, loop, n) == IF sym = "dcls" THEN P!DclsFrom(loop, n) ELSE P!ParamsFrom(loop, n)

\* A loop over declarations.
LEMMA LoopAgrees ==
  ASSUME ChartOK, NEW sym \in {"dcls", "params"}, NEW n \in P!Indices, NEW f, NEW g,
         LoopsAgree(f, g, n)
  PROVE  /\ LoopFrom(sym, f, n) = LoopFrom(sym, g, n)
         /\ Collects(LoopFrom(sym, f, n), n)
<1> DEFINE at == P!GotoRule(sym, n)
           rhs == P!RhsOf(at)
           valueSym == IF sym = "dcls" THEN rhs[4] ELSE "none"
<1>1. CASE at = P!Fail
  <2>1. LoopFrom(sym, f, n) = P!NoDcls /\ LoopFrom(sym, g, n) = P!NoDcls
    BY <1>1 DEF LoopFrom, P!DclsFrom, P!ParamsFrom
  <2> QED
    BY <2>1, NoDclsCollected
<1>2. CASE at # P!Fail
  <2>1. /\ at \in 1 .. n /\ Lhs(finalChart[at]) = sym /\ finalChart[at].rule \in DOMAIN CFG
    BY <1>2, GotoRuleFinds
  <2>2. n \in Int /\ n <= Len(finalChart) /\ P!Fail = -1
    BY IndexRange
  <2>3. at - 1 \in P!Indices /\ at - 1 < n /\ Earlier(at - 1, n)
    BY <2>1, <2>2, IndexRange DEF Earlier
  <2>4. CASE rhs = << >>
    <3>1. LoopFrom(sym, f, n) = P!Dcls(<< >>, at - 1) /\ LoopFrom(sym, g, n) = P!Dcls(<< >>, at - 1)
      BY <1>2, <2>4 DEF LoopFrom, P!DclsFrom, P!ParamsFrom
    <3> HIDE DEF at
    <3>2. Collects(P!Dcls(<< >>, at - 1), n)
      BY <2>3 DEF Collects, P!Dcls
    <3> QED
      BY <3>1, <3>2
  <2>5. CASE rhs # << >>
    <3>1. /\ LoopFrom(sym, f, n) = P!ParseDcl(f, valueSym, at - 1)
          /\ LoopFrom(sym, g, n) = P!ParseDcl(g, valueSym, at - 1)
      BY <1>2, <2>5 DEF LoopFrom, P!DclsFrom, P!ParamsFrom
    <3>2. valueSym \in Symbols \cup {"none"}
      <4>1. rhs = Rhs(finalChart[at]) /\ rhs \in Seq(Symbols)
        BY <2>1, SameRhs, RuleLength DEF Rhs
      <4>2. sym = "dcls" => Len(rhs) > 3
        BY <2>1, <2>5, <4>1, RuleBegins
      <4> HIDE DEF rhs
      <4>3. sym = "dcls" => rhs[4] \in Symbols
        BY <4>1, <4>2
      <4> QED
        BY <4>3
    <3> HIDE DEF at, valueSym
    <3>3. LoopsNear(f, g, at - 1)
      <4>1. \A m \in P!Indices : m < at - 1 => m < n
        BY <2>2, <2>3, IndexRange
      <4> QED
        BY <4>1, AgreeNear DEF LoopsAgree
    <3>4. /\ P!ParseDcl(f, valueSym, at - 1) = P!ParseDcl(g, valueSym, at - 1)
          /\ Collects(P!ParseDcl(f, valueSym, at - 1), at - 1)
      BY <2>3, <3>2, <3>3, DclAgrees
    <3>5. Collects(P!ParseDcl(f, valueSym, at - 1), n)
      BY <2>1, <2>2, <3>4 DEF Collects, Earlier
    <3> QED
      BY <3>1, <3>4, <3>5
  <2> QED
    BY <2>4, <2>5
<1> QED
  BY <1>1, <1>2

\* The results of a loop up to index k.
LoopTable(sym, f, k) == f = [n \in P!Fail .. k |-> LoopFrom(sym, f, n)]

\* What a loop collects at an index is found before it.
LEMMA LoopTableEarlier ==
  ASSUME ChartOK, NEW sym \in {"dcls", "params"}, NEW k \in Nat, k <= Len(finalChart),
         NEW f, LoopTable(sym, f, k), NEW n \in P!Indices, n <= k + 1
  PROVE  LoopsAgree(f, f, n)
<1> DEFINE S == { m \in Nat : m <= k + 1 => Collects(f[m - 1], m - 1) }
<1>1. ASSUME NEW m \in Nat, \A q \in 0 .. (m - 1) : q \in S PROVE m \in S
  <2> SUFFICES ASSUME m <= k + 1 PROVE Collects(f[m - 1], m - 1)
    OBVIOUS
  <2>1. m - 1 \in P!Indices /\ m - 1 \in P!Fail .. k
    BY IndexRange
  <2>2. LoopsAgree(f, f, m - 1)
    <3> SUFFICES ASSUME NEW q \in P!Indices, q < m - 1 PROVE Collects(f[q], q)
      BY DEF LoopsAgree
    <3>1. q \in Int /\ q >= -1
      BY IndexRange
    <3>2. q + 1 \in 0 .. (m - 1) /\ q + 1 <= k + 1 /\ (q + 1) - 1 = q
      BY <3>1
    <3>3. q + 1 \in S
      BY <1>1, <3>2
    <3> QED
      BY <3>2, <3>3
  <2>3. Collects(LoopFrom(sym, f, m - 1), m - 1)
    BY <2>1, <2>2, LoopAgrees
  <2>4. f[m - 1] = LoopFrom(sym, f, m - 1)
    BY <2>1 DEF LoopTable
  <2> QED
    BY <2>3, <2>4
<1> HIDE DEF S
<1>2. \A m \in Nat : m \in S
  BY <1>1, StrongInduction
<1> SUFFICES ASSUME NEW q \in P!Indices, q < n PROVE Collects(f[q], q)
  BY DEF LoopsAgree
<1>3. q \in Int /\ q >= -1 /\ n \in Int
  BY IndexRange
<1>4. q + 1 \in Nat /\ q + 1 <= k + 1 /\ (q + 1) - 1 = q
  BY <1>3
<1>5. q + 1 \in S
  BY <1>2, <1>4
<1> QED
  BY <1>4, <1>5 DEF S

\* A table of a loop can be continued by an index.
LEMMA LoopTableGrows ==
  ASSUME ChartOK, NEW sym \in {"dcls", "params"}, NEW k \in Nat, k < Len(finalChart),
         NEW f, LoopTable(sym, f, k)
  PROVE  \E g : LoopTable(sym, g, k + 1)
<1> DEFINE g == [n \in P!Fail .. (k + 1) |-> IF n <= k THEN f[n] ELSE LoopFrom(sym, f, n)]
<1>1. \A n \in P!Fail .. (k + 1) : g[n] = IF n <= k THEN f[n] ELSE LoopFrom(sym, f, n)
  OBVIOUS
<1>2. g = [n \in P!Fail .. (k + 1) |-> g[n]]
  OBVIOUS
<1> HIDE DEF g
<1>3. ASSUME NEW n \in P!Fail .. (k + 1) PROVE g[n] = LoopFrom(sym, g, n)
  <2>1. /\ n \in P!Indices /\ n <= k + 1 /\ n \in Int /\ k <= Len(finalChart)
        /\ n <= k => n \in P!Fail .. k
    BY IndexRange
  <2>2. LoopsAgree(f, g, n)
    <3> SUFFICES ASSUME NEW q \in P!Indices, q < n PROVE f[q] = g[q] /\ Collects(f[q], q)
      BY DEF LoopsAgree
    <3>1. q \in P!Fail .. (k + 1) /\ q <= k
      BY <2>1, IndexRange
    <3>2. f[q] = g[q]
      BY <1>1, <3>1
    <3>3. LoopsAgree(f, f, n)
      BY <2>1, LoopTableEarlier
    <3> QED
      BY <3>2, <3>3 DEF LoopsAgree
  <2>3. LoopFrom(sym, f, n) = LoopFrom(sym, g, n)
    BY <2>1, <2>2, LoopAgrees
  <2>4. CASE n <= k
    <3>1. f[n] = LoopFrom(sym, f, n)
      BY <2>1, <2>4 DEF LoopTable
    <3> QED
      BY <1>1, <2>3, <2>4, <3>1
  <2>5. CASE ~ (n <= k)
    BY <1>1, <2>3, <2>5
  <2> QED
    BY <2>4, <2>5
<1>4. LoopTable(sym, g, k + 1)
  BY <1>2, <1>3 DEF LoopTable
<1> QED
  BY <1>4

\* So there is a table of all that a loop collects.
LEMMA LoopTableExists ==
  ASSUME ChartOK, NEW sym \in {"dcls", "params"}
  PROVE  \E f : LoopTable(sym, f, Len(finalChart))
<1> DEFINE S == { k \in Nat : k <= Len(finalChart) => \E f : LoopTable(sym, f, k) }
<1>1. 0 \in S
  <2> DEFINE f == [n \in P!Fail .. 0 |-> P!NoDcls]
  <2>1. ASSUME NEW n \in P!Fail .. 0 PROVE \A g : LoopFrom(sym, g, n) = P!NoDcls
    <3>1. n \in P!Indices /\ ~ (n > 0)
      BY IndexRange
    <3>2. P!GotoRule(sym, n) = P!Fail
      BY <3>1, GotoRuleFinds
    <3> QED
      BY <3>2 DEF LoopFrom, P!DclsFrom, P!ParamsFrom
  <2>2. \A n \in P!Fail .. 0 : LoopFrom(sym, f, n) = P!NoDcls
    <3> HIDE DEF f
    <3> QED
      BY <2>1
  <2>3. LoopTable(sym, f, 0)
    BY <2>2 DEF LoopTable
  <2> QED
    BY <2>3
<1>2. ASSUME NEW k \in Nat, k \in S PROVE k + 1 \in S
  <2> SUFFICES ASSUME k + 1 <= Len(finalChart) PROVE \E f : LoopTable(sym, f, k + 1)
    OBVIOUS
  <2>1. Len(finalChart) \in Nat
    BY IndexRange
  <2>2. k <= Len(finalChart) /\ k < Len(finalChart)
    BY <2>1
  <2>3. PICK f : LoopTable(sym, f, k)
    BY <1>2, <2>2
  <2> QED
    BY <2>2, <2>3, LoopTableGrows
<1> HIDE DEF S
<1>3. \A k \in Nat : k \in S
  BY <1>1, <1>2, Induction
<1>4. Len(finalChart) \in Nat /\ Len(finalChart) <= Len(finalChart)
  BY IndexRange
<1> QED
  BY <1>3, <1>4 DEF S

\* The loops for declarations and for parameters are those tables.
LEMMA LoopsCollect ==
  ASSUME ChartOK, NEW n \in P!Indices
  PROVE  Collects(P!parseDclsLoop[n], n) /\ Collects(P!parseParamsLoop[n], n)
<1> DEFINE k == Len(finalChart)
<1>1. /\ k \in Nat /\ k <= Len(finalChart) /\ n <= k + 1 /\ n \in P!Fail .. k
      /\ n \in Int
  BY IndexRange
<1>2. LoopTable("dcls", P!parseDclsLoop, k)
  <2> DEFINE IsLoop(h) == h = [m \in P!Indices |-> P!DclsFrom(h, m)]
  <2>1. \A h : LoopTable("dcls", h, k) <=> IsLoop(h)
    BY DEF LoopTable, LoopFrom, P!Indices
  <2>2. P!parseDclsLoop = CHOOSE h : IsLoop(h)
    BY Zenon DEF P!parseDclsLoop
  <2>3. \E h : LoopTable("dcls", h, k)
    BY LoopTableExists
  <2> HIDE DEF IsLoop, k
  <2> QED
    BY <2>1, <2>2, <2>3, Zenon
<1>3. LoopTable("params", P!parseParamsLoop, k)
  <2> DEFINE IsLoop(h) == h = [m \in P!Indices |-> P!ParamsFrom(h, m)]
  <2>1. \A h : LoopTable("params", h, k) <=> IsLoop(h)
    BY DEF LoopTable, LoopFrom, P!Indices
  <2>2. P!parseParamsLoop = CHOOSE h : IsLoop(h)
    BY Zenon DEF P!parseParamsLoop
  <2>3. \E h : LoopTable("params", h, k)
    BY LoopTableExists
  <2> HIDE DEF IsLoop, k
  <2> QED
    BY <2>1, <2>2, <2>3, Zenon
<1> HIDE DEF k
<1>4. P!parseDclsLoop[n] = LoopFrom("dcls", P!parseDclsLoop, n)
  BY <1>1, <1>2 DEF LoopTable
<1>5. P!parseParamsLoop[n] = LoopFrom("params", P!parseParamsLoop, n)
  BY <1>1, <1>3 DEF LoopTable
<1>6. Collects(LoopFrom("dcls", P!parseDclsLoop, n), n)
  BY <1>1, <1>2, LoopTableEarlier, LoopAgrees
<1>7. Collects(LoopFrom("params", P!parseParamsLoop, n), n)
  BY <1>1, <1>3, LoopTableEarlier, LoopAgrees
<1> QED
  BY <1>4, <1>5, <1>6, <1>7

\* The two parameters of wain().
LEMMA WainParamsCollect ==
  ASSUME ChartOK, NEW n \in P!Indices
  PROVE  Collects(P!ParseWainParams(n), n)
<1> DEFINE first == [m \in P!Indices |-> P!Dcls(<< >>, m)]
           second == [m \in P!Indices |-> P!ParseDcl(first, "none", m)]
           both == P!ParseDcl(second, "none", n)
<1>1. ASSUME NEW m \in P!Indices PROVE Collects(first[m], m + 1)
  <2>1. first[m].at = m /\ first[m].dcls = << >>
    BY DEF P!Dcls
  <2>2. m \in {P!Fail} \cup 0 .. (m + 1 - 1)
    BY IndexRange
  <2>3. << >> \in Seq(Declarations)
    OBVIOUS
  <2> HIDE DEF first
  <2> QED
    BY <2>1, <2>2, <2>3 DEF Collects, Earlier
<1> HIDE DEF first
<1>2. \A m \in P!Indices : Collects(P!ParseDcl(first, "none", m), m)
  BY <1>1, DclAgrees DEF LoopsNear
<1>3. \A m \in P!Indices : second[m] = P!ParseDcl(first, "none", m)
  OBVIOUS
<1> HIDE DEF second
<1>4. LoopsAgree(second, second, n)
  BY <1>2, <1>3 DEF LoopsAgree
<1>5. Collects(both, n)
  BY <1>4, AgreeNear, DclAgrees
<1>6. P!ParseWainParams(n) = both \/ P!ParseWainParams(n) = P!NoDcls
  BY DEF P!ParseWainParams, first, second
<1> QED
  BY <1>5, <1>6, NoDclsCollected

-----------------------------------------------------------------------------
(* Names and types are read where they are.                                *)

\* What the recogniser has made sure of when it hands its final chart over.
Handed ==
  \A n \in DOMAIN finalChart :
    /\ BeginsWithItsTokens(finalChart[n])
    /\ Lhs(finalChart[n]) = "dcl" => TypeBefore(n) /\ IdAfterType(n)
    /\ Lhs(finalChart[n]) = "dcls" /\ Rhs(finalChart[n]) # << >> => InitialValueRead(n)

\* A token of one of the kinds wanted gives a name.
LEMMA TokenNames ==
  ASSUME NEW n, NEW sym, NEW syms, sym \in syms, IsToken(n, sym)
  PROVE  tokens[n].value \in P!Names(syms)
BY DEF IsToken, P!Names

\* The second token of a procedure is its name.
LEMMA ProcedureNamed ==
  ASSUME ChartOK, Handed, NEW n \in DOMAIN finalChart, P!Sym(n) \in P!ProcedureSyms
  PROVE  P!ValueAt(n, 1) \in P!Names({"ID", "WAIN"}) /\ P!ValueAt(n, 1) \in P!ProcedureName
<1> DEFINE el == finalChart[n]
<1>1. el \in Elem /\ BeginsWithItsTokens(el)
  BY DEF ChartOK, Handed
<1>2. el.rule \in DOMAIN CFG /\ el.start \in Nat
  BY <1>1, GrammarAssumption DEF Elem
<1>3. Lhs(el) = "procedure" \/ Lhs(el) = "main_s"
  BY DEF P!Sym, P!Lhs, Lhs, P!ProcedureSyms
<1> DEFINE name == IF Lhs(el) = "procedure" THEN "ID" ELSE "WAIN"
<1>4. /\ Rhs(el) \in Seq(Symbols) /\ Len(Rhs(el)) > 1
      /\ Rhs(el)[1] = "INT" /\ Rhs(el)[2] = name
  BY <1>2, <1>3, RuleLength, ParserAssumption DEF Lhs, Rhs
<1>5. name \in {"ID", "WAIN"} /\ {"INT", "ID", "WAIN"} \subseteq Terminals
  BY ParserAssumption
<1> HIDE DEF el, name
<1>6. 2 \in DOMAIN Rhs(el)
  BY <1>4
<1>7. \A e \in 1 .. 2 : Rhs(el)[e] \in Terminals
  BY <1>4, <1>5
<1>8. IsToken(el.start + 2, name)
  BY <1>1, <1>4, <1>6, <1>7 DEF BeginsWithItsTokens
<1>9. P!ValueAt(n, 1) = tokens[el.start + 2].value
  BY <1>2 DEF P!ValueAt, el
<1> QED
  BY <1>5, <1>8, <1>9, TokenNames DEF P!ProcedureName

\* The name of a declaration is an ID, and its type one of the two.
LEMMA DeclarationNamed ==
  ASSUME ChartOK, Handed, NEW dcl \in Declarations
  PROVE  dcl.id \in P!Names({"ID"}) /\ dcl.type \in {"INT", "INT_STAR"}
<1>1. PICK n \in DOMAIN finalChart, sym \in Symbols \cup {"none"} :
        Lhs(finalChart[n]) = "dcl" /\ dcl = P!DclAt(n, sym)
  BY DEF Declarations
<1>2. TypeBefore(n) /\ IdAfterType(n)
  BY <1>1 DEF Handed
<1> DEFINE type == finalChart[n - 1]
<1>3. n - 1 \in DOMAIN finalChart
  BY <1>2 DEF TypeBefore, ChartOK
<1>4. type \in Elem /\ Lhs(type) = "type" /\ type.start = finalChart[n].start
  BY <1>2, <1>3 DEF TypeBefore, ChartOK
<1>5. type.rule \in DOMAIN CFG /\ type.start \in Nat
  BY <1>4, GrammarAssumption DEF Elem
<1>6. Len(Rhs(type)) = 1 \/ Len(Rhs(type)) = 2
  BY <1>4, <1>5, TypeRule
<1>7. P!RhsOf(n - 1) = Rhs(type)
  BY SameRhs
<1>8. IsToken(type.start + Len(Rhs(type)) + 1, "ID")
  BY <1>2, <1>4 DEF IdAfterType
<1>9. dcl.id = tokens[type.start + (IF Len(Rhs(type)) = 1 THEN 1 ELSE 2) + 1].value
  BY <1>1, <1>7 DEF P!DclAt, P!ValueAt
<1>10. dcl.type \in {"INT", "INT_STAR"}
  BY <1>1 DEF P!DclAt
<1> HIDE DEF type
<1>11. dcl.id = tokens[type.start + Len(Rhs(type)) + 1].value
  BY <1>6, <1>9
<1> QED
  BY <1>8, <1>10, <1>11, TokenNames

\* The types of a symbol table.
TableTyped(map) ==
  /\ DOMAIN map \subseteq P!ProcedureName \X P!Names({"ID"})
  /\ \A key \in DOMAIN map : map[key] \in {"INT", "INT_STAR"}

\* addDclToProc() for each of some declarations keeps the types of the table.
LEMMA AddDclsTyped ==
  ASSUME ChartOK, Handed, TableTyped(dclsMap), currProcedureName \in P!ProcedureName,
         NEW dcls \in Seq(Declarations)
  PROVE  TableTyped(P!AddDcls(dcls))
<1> DEFINE Declared(name) == { n \in DOMAIN dcls : dcls[n].id = name }
           keys == { << currProcedureName, dcls[n].id >> : n \in DOMAIN dcls }
           map == P!AddDcls(dcls)
<1>1. map = [ key \in keys \cup DOMAIN dclsMap |->
                IF key \in keys THEN dcls[P!Max(Declared(key[2]))].type ELSE dclsMap[key] ]
  BY DEF P!AddDcls
<1>2. \A n \in DOMAIN dcls : dcls[n].id \in P!Names({"ID"}) /\ dcls[n].type \in {"INT", "INT_STAR"}
  BY DeclarationNamed
<1>3. keys \subseteq P!ProcedureName \X P!Names({"ID"})
  BY <1>2
<1>4. ASSUME NEW key \in keys PROVE dcls[P!Max(Declared(key[2]))].type \in {"INT", "INT_STAR"}
  <2>1. PICK n \in DOMAIN dcls : key = << currProcedureName, dcls[n].id >>
    OBVIOUS
  <2>2. n \in Declared(key[2])
    BY <2>1
  <2>3. Declared(key[2]) \in SUBSET (1 .. Len(dcls)) /\ Len(dcls) \in Int
    OBVIOUS
  <2> DEFINE S == Declared(key[2])
  <2>4. S \subseteq DOMAIN dcls
    OBVIOUS
  <2> HIDE DEF S
  <2>5. P!Max(S) \in S
    BY <2>2, <2>3, MaxOf DEF S
  <2> QED
    BY <1>2, <2>4, <2>5 DEF S
<1> HIDE DEF keys, map, Declared
<1>5. DOMAIN map = keys \cup DOMAIN dclsMap
  BY <1>1
<1>6. \A key \in DOMAIN map : map[key] \in {"INT", "INT_STAR"}
  BY <1>1, <1>4, <1>5 DEF TableTyped
<1>7. DOMAIN map \subseteq P!ProcedureName \X P!Names({"ID"})
  BY <1>3, <1>5 DEF TableTyped
<1> QED
  BY <1>6, <1>7 DEF TableTyped, map

-----------------------------------------------------------------------------
(* The steps of the parser keep the types.                                 *)

\* The parser's TypeOK, part by part.
LEMMA ParserTypes ==
  P!TypeOK <=>
    /\ phase \in {"idle", "symbols", "build", "parsed", "error", "crash"}
    /\ elemIdx \in 0 .. Len(finalChart)
    /\ currProcedureName \in P!ProcedureName
    /\ DOMAIN procedureArgsNum \subseteq P!ProcedureName
    /\ \A name \in DOMAIN procedureArgsNum : procedureArgsNum[name] \in Nat
    /\ procedureNames \in Seq(DOMAIN procedureArgsNum)
    /\ TableTyped(dclsMap)
BY DEF P!TypeOK, TableTyped

\* What does not change in a step of the parser.
Handing == UNCHANGED << tokens, finalChart >>

\* The names of the text stay.
LEMMA SameNames ==
  ASSUME Handing
  PROVE  /\ finalChart' = finalChart
         /\ P!ProcedureName' = P!ProcedureName
         /\ P!Names({"ID"})' = P!Names({"ID"})
BY DEF Handing, P!ProcedureName, P!Names

\* The types of the next state, the names being those of this one.
LEMMA TypesNext ==
  ASSUME Handing,
         phase' \in {"idle", "symbols", "build", "parsed", "error", "crash"},
         elemIdx' \in 0 .. Len(finalChart), currProcedureName' \in P!ProcedureName,
         DOMAIN procedureArgsNum' \subseteq P!ProcedureName,
         \A name \in DOMAIN procedureArgsNum' : procedureArgsNum'[name] \in Nat,
         procedureNames' \in Seq(DOMAIN procedureArgsNum'),
         TableTyped(dclsMap')
  PROVE  P!TypeOK'
<1>1. /\ DOMAIN dclsMap' \subseteq P!ProcedureName \X P!Names({"ID"})
      /\ \A key \in DOMAIN dclsMap' : dclsMap'[key] \in {"INT", "INT_STAR"}
  BY DEF TableTyped
<1>2. /\ currProcedureName' \in P!ProcedureName'
      /\ DOMAIN procedureArgsNum' \subseteq P!ProcedureName'
      /\ DOMAIN dclsMap' \subseteq P!ProcedureName' \X P!Names({"ID"})'
      /\ elemIdx' \in 0 .. Len(finalChart')
  BY <1>1, SameNames
<1> QED
  BY <1>1, <1>2 DEF P!TypeOK

\* The element an iteration is about, and the index before it.
LEMMA AtElement ==
  ASSUME ChartOK, P!TypeOK, elemIdx > 0
  PROVE  /\ elemIdx \in DOMAIN finalChart /\ elemIdx \in P!Indices
         /\ elemIdx - 1 \in 0 .. Len(finalChart)
         /\ \A at : Earlier(at, elemIdx) /\ at # P!Fail => at \in 0 .. Len(finalChart)
<1>1. elemIdx \in 0 .. Len(finalChart) /\ Len(finalChart) \in Nat /\ P!Fail = -1
  BY IndexRange, ParserTypes
<1>2. elemIdx \in P!Indices
  BY <1>1, IndexRange
<1> QED
  BY <1>1, <1>2 DEF Earlier, ChartOK

\* An iteration that only moves on.
LEMMA MovesTyped ==
  ASSUME ChartOK, Handing, P!TypeOK,
         phase' \in {"idle", "symbols", "build", "parsed", "error", "crash"},
         elemIdx' \in 0 .. Len(finalChart), currProcedureName' \in P!ProcedureName,
         UNCHANGED << procedureNames, procedureArgsNum, dclsMap >>
  PROVE  P!TypeOK'
<1>1. /\ DOMAIN procedureArgsNum \subseteq P!ProcedureName
      /\ \A name \in DOMAIN procedureArgsNum : procedureArgsNum[name] \in Nat
      /\ procedureNames \in Seq(DOMAIN procedureArgsNum)
      /\ TableTyped(dclsMap)
  BY ParserTypes
<1>2. TableTyped(dclsMap')
  BY <1>1
<1>3. /\ DOMAIN procedureArgsNum' \subseteq P!ProcedureName
      /\ \A name \in DOMAIN procedureArgsNum' : procedureArgsNum'[name] \in Nat
      /\ procedureNames' \in Seq(DOMAIN procedureArgsNum')
  BY <1>1
<1> QED
  BY <1>2, <1>3, TypesNext

\* An exception, or a crash.
LEMMA StopTyped ==
  ASSUME ChartOK, Handing, P!TypeOK, NEW how \in {"error", "crash"}, P!Stop(how)
  PROVE  P!TypeOK'
<1>1. /\ phase' = how /\ elemIdx' = elemIdx /\ currProcedureName' = currProcedureName
      /\ UNCHANGED << procedureNames, procedureArgsNum, dclsMap >>
  BY DEF P!Stop
<1>2. elemIdx \in 0 .. Len(finalChart) /\ currProcedureName \in P!ProcedureName
  BY ParserTypes
<1> QED
  BY <1>1, <1>2, MovesTyped

\* Setting a count.
LEMMA ArgsNumTyped ==
  ASSUME P!TypeOK, NEW name \in P!ProcedureName, NEW count \in Nat, P!SetArgsNum(name, count)
  PROVE  /\ DOMAIN procedureArgsNum' = {name} \cup DOMAIN procedureArgsNum
         /\ DOMAIN procedureArgsNum' \subseteq P!ProcedureName
         /\ \A p \in DOMAIN procedureArgsNum' : procedureArgsNum'[p] \in Nat
         /\ procedureNames \in Seq(DOMAIN procedureArgsNum')
<1>1. procedureArgsNum' = [ p \in {name} \cup DOMAIN procedureArgsNum |->
                              IF p = name THEN count ELSE procedureArgsNum[p] ]
  BY DEF P!SetArgsNum
<1>2. DOMAIN procedureArgsNum' = {name} \cup DOMAIN procedureArgsNum
  BY <1>1
<1>3. /\ DOMAIN procedureArgsNum \subseteq P!ProcedureName
      /\ \A p \in DOMAIN procedureArgsNum : procedureArgsNum[p] \in Nat
      /\ procedureNames \in Seq(DOMAIN procedureArgsNum)
  BY ParserTypes
<1>4. DOMAIN procedureArgsNum' \subseteq P!ProcedureName
  BY <1>2, <1>3
<1>5. \A p \in DOMAIN procedureArgsNum' : procedureArgsNum'[p] \in Nat
  BY <1>1, <1>2, <1>3
<1>6. procedureNames \in Seq(DOMAIN procedureArgsNum')
  <2> DEFINE D == DOMAIN procedureArgsNum
             E == DOMAIN procedureArgsNum'
  <2>1. D \subseteq E /\ procedureNames \in Seq(D)
    BY <1>2, <1>3
  <2> HIDE DEF D, E
  <2>2. procedureNames \in Seq(E)
    BY <2>1
  <2> QED
    BY <2>2 DEF E
<1> QED
  BY <1>2, <1>4, <1>5, <1>6

\* A procedure of the first loop.
LEMMA SymbolProcedureTyped ==
  ASSUME ChartOK, Handed, Handing, P!TypeOK, P!SymbolProcedure
  PROVE  P!TypeOK'
<1> DEFINE name == P!ValueAt(elemIdx, 1)
<1>1. elemIdx > 0 /\ P!Sym(elemIdx) \in P!ProcedureSyms /\ phase = "symbols"
  BY DEF P!SymbolProcedure, P!At
<1>2. elemIdx \in DOMAIN finalChart /\ elemIdx - 1 \in 0 .. Len(finalChart)
  BY <1>1, AtElement
<1>3. name \in P!ProcedureName
  BY <1>1, <1>2, ProcedureNamed
<1>4. CASE P!Stop("error")
  BY <1>4, StopTyped
<1>5. CASE /\ currProcedureName' = name
           /\ procedureNames' = << name >> \o procedureNames
           /\ P!SetArgsNum(name, IF name = "wain" THEN 2 ELSE 0)
           /\ elemIdx' = elemIdx - 1
           /\ UNCHANGED << phase, dclsMap, proc, procedures >>
  <2> DEFINE count == IF name = "wain" THEN 2 ELSE 0
             E == DOMAIN procedureArgsNum'
  <2>1. count \in Nat
    OBVIOUS
  <2> HIDE DEF name, count
  <2>2. /\ E = {name} \cup DOMAIN procedureArgsNum
        /\ E \subseteq P!ProcedureName
        /\ \A p \in E : procedureArgsNum'[p] \in Nat
        /\ procedureNames \in Seq(E)
    BY <1>3, <1>5, <2>1, ArgsNumTyped DEF count
  <2>3. name \in E
    BY <2>2
  <2> HIDE DEF E
  <2>4. procedureNames' \in Seq(E)
    BY <1>5, <2>2, <2>3
  <2>5. TableTyped(dclsMap) /\ phase' = "symbols"
    BY <1>1, <1>5, ParserTypes
  <2>6. TableTyped(dclsMap')
    BY <1>5, <2>5
  <2>7. elemIdx' \in 0 .. Len(finalChart) /\ currProcedureName' \in P!ProcedureName
    BY <1>2, <1>3, <1>5
  <2>8. phase' \in {"idle", "symbols", "build", "parsed", "error", "crash"}
    BY <2>5
  <2> QED
    BY <2>2, <2>4, <2>6, <2>7, <2>8, TypesNext DEF E
<1> QED
  BY <1>4, <1>5 DEF P!SymbolProcedure

\* An iteration that has collected declarations.
LEMMA CollectedTyped ==
  ASSUME ChartOK, Handed, Handing, P!TypeOK, elemIdx > 0, phase' = phase,
         NEW result, Collects(result, elemIdx), result.at # P!Fail,
         dclsMap' = P!AddDcls(result.dcls), elemIdx' = result.at,
         UNCHANGED << currProcedureName, procedureNames >>,
         DOMAIN procedureArgsNum' \subseteq P!ProcedureName,
         \A p \in DOMAIN procedureArgsNum' : procedureArgsNum'[p] \in Nat,
         procedureNames \in Seq(DOMAIN procedureArgsNum')
  PROVE  P!TypeOK'
<1>1. /\ phase \in {"idle", "symbols", "build", "parsed", "error", "crash"}
      /\ currProcedureName \in P!ProcedureName /\ TableTyped(dclsMap)
  BY ParserTypes
<1>2. TableTyped(P!AddDcls(result.dcls))
  BY <1>1, AddDclsTyped DEF Collects
<1>3. TableTyped(dclsMap')
  BY <1>2
<1>4. elemIdx' \in 0 .. Len(finalChart)
  BY AtElement DEF Collects
<1>5. procedureNames' \in Seq(DOMAIN procedureArgsNum')
  OBVIOUS
<1>6. /\ phase' \in {"idle", "symbols", "build", "parsed", "error", "crash"}
      /\ currProcedureName' \in P!ProcedureName
  BY <1>1
<1> QED
  BY <1>3, <1>4, <1>5, <1>6, TypesNext

\* The declarations, and the parameters of wain(), of the first loop.
LEMMA SymbolDclsTyped ==
  ASSUME ChartOK, Handed, Handing, P!TypeOK, P!SymbolDcls \/ P!SymbolWainParams
  PROVE  P!TypeOK'
<1>1. elemIdx > 0
  BY DEF P!SymbolDcls, P!SymbolWainParams, P!At
<1>2. Collects(P!parseDclsLoop[elemIdx], elemIdx) /\ Collects(P!ParseWainParams(elemIdx), elemIdx)
  BY <1>1, AtElement, LoopsCollect, WainParamsCollect
<1>3. PICK dcls :
        /\ Collects(dcls, elemIdx)
        /\ IF dcls.at = P!Fail
           THEN P!Stop("error")
           ELSE /\ dclsMap' = P!AddDcls(dcls.dcls)
                /\ elemIdx' = dcls.at
                /\ UNCHANGED << phase, currProcedureName, procedureNames, procedureArgsNum, proc, procedures >>
  BY <1>2 DEF P!SymbolDcls, P!SymbolWainParams
<1>4. CASE dcls.at = P!Fail
  BY <1>3, <1>4, StopTyped
<1>5. CASE dcls.at # P!Fail
  <2>1. /\ DOMAIN procedureArgsNum \subseteq P!ProcedureName
        /\ \A p \in DOMAIN procedureArgsNum : procedureArgsNum[p] \in Nat
        /\ procedureNames \in Seq(DOMAIN procedureArgsNum)
    BY ParserTypes
  <2>2. /\ dclsMap' = P!AddDcls(dcls.dcls) /\ elemIdx' = dcls.at /\ phase' = phase
        /\ procedureArgsNum' = procedureArgsNum
        /\ UNCHANGED << currProcedureName, procedureNames >>
    BY <1>3, <1>5
  <2> QED
    BY <1>1, <1>3, <1>5, <2>1, <2>2, CollectedTyped
<1> QED
  BY <1>4, <1>5

\* The parameters of the first loop.
LEMMA SymbolParamsTyped ==
  ASSUME ChartOK, Handed, Handing, P!TypeOK, P!SymbolParams
  PROVE  P!TypeOK'
<1>1. elemIdx > 0
  BY DEF P!SymbolParams, P!At
<1>2. Collects(P!parseParamsLoop[elemIdx], elemIdx)
  BY <1>1, AtElement, LoopsCollect
<1>3. PICK dcls :
        /\ Collects(dcls, elemIdx)
        /\ IF dcls.at = P!Fail
           THEN P!Stop("error")
           ELSE /\ dclsMap' = P!AddDcls(dcls.dcls)
                /\ IF dcls.dcls = << >> THEN UNCHANGED procedureArgsNum
                   ELSE P!SetArgsNum(currProcedureName, P!ArgsNum(currProcedureName) + Len(dcls.dcls))
                /\ elemIdx' = dcls.at
                /\ UNCHANGED << phase, currProcedureName, procedureNames, proc, procedures >>
  BY <1>2 DEF P!SymbolParams
<1>4. CASE dcls.at = P!Fail
  BY <1>3, <1>4, StopTyped
<1>5. CASE dcls.at # P!Fail
  <2>1. /\ DOMAIN procedureArgsNum \subseteq P!ProcedureName
        /\ \A p \in DOMAIN procedureArgsNum : procedureArgsNum[p] \in Nat
        /\ procedureNames \in Seq(DOMAIN procedureArgsNum)
        /\ currProcedureName \in P!ProcedureName
    BY ParserTypes
  <2> DEFINE count == P!ArgsNum(currProcedureName) + Len(dcls.dcls)
  <2>2. count \in Nat
    <3>1. P!ArgsNum(currProcedureName) \in Nat
      BY <2>1 DEF P!ArgsNum
    <3>2. Len(dcls.dcls) \in Nat
      BY <1>3 DEF Collects
    <3> QED
      BY <3>1, <3>2
  <2> HIDE DEF count
  <2>3. /\ DOMAIN procedureArgsNum' \subseteq P!ProcedureName
        /\ \A p \in DOMAIN procedureArgsNum' : procedureArgsNum'[p] \in Nat
        /\ procedureNames \in Seq(DOMAIN procedureArgsNum')
    <3>1. CASE procedureArgsNum' = procedureArgsNum
      BY <2>1, <3>1
    <3>2. CASE P!SetArgsNum(currProcedureName, count)
      BY <2>1, <2>2, <3>2, ArgsNumTyped
    <3> QED
      BY <1>3, <1>5, <3>1, <3>2 DEF count
  <2>4. /\ dclsMap' = P!AddDcls(dcls.dcls) /\ elemIdx' = dcls.at /\ phase' = phase
        /\ UNCHANGED << currProcedureName, procedureNames >>
    BY <1>3, <1>5
  <2> QED
    BY <1>1, <1>3, <1>5, <2>3, <2>4, CollectedTyped
<1> QED
  BY <1>4, <1>5

\* The steps of the second loop leave the symbol table alone.
LEMMA BuiltTyped ==
  ASSUME ChartOK, Handing, P!TypeOK, elemIdx > 0, NEW at, Earlier(at, elemIdx), NEW built,
         P!Built(at, built)
  PROVE  P!TypeOK'
<1>1. CASE P!Stop("error")
  BY <1>1, StopTyped
<1>2. CASE /\ at # P!Fail
           /\ elemIdx' = at
           /\ UNCHANGED << phase, currProcedureName, procedureNames, procedureArgsNum, dclsMap, procedures >>
  <2>1. elemIdx' \in 0 .. Len(finalChart)
    BY <1>2, AtElement
  <2>2. phase' \in {"idle", "symbols", "build", "parsed", "error", "crash"}
        /\ currProcedureName' \in P!ProcedureName
    BY <1>2, ParserTypes
  <2> QED
    BY <1>2, <2>1, <2>2, MovesTyped
<1> QED
  BY <1>1, <1>2 DEF P!Built

\* What an expression or a block is parsed to.
LEMMA ParsedEarlier ==
  ASSUME ChartOK, NEW n \in P!Indices
  PROVE  Earlier(P!parse[<< "expr", n >>].at, n) /\ Earlier(P!parse[<< "statements", n >>].at, n)
<1>1. "expr" \in P!ParsedSymbols /\ "statements" \in P!ParsedSymbols
  BY DEF P!ParsedSymbols
<1> QED
  BY <1>1, ParseEarlier

\* The steps of the second loop that parse.
LEMMA BuildingTyped ==
  ASSUME ChartOK, Handing, P!TypeOK,
         P!BuildReturn \/ P!BuildStatements \/ P!BuildDcls \/ P!BuildWainParams \/ P!BuildParams
  PROVE  P!TypeOK'
<1>1. elemIdx > 0
  BY DEF P!BuildReturn, P!BuildStatements, P!BuildDcls, P!BuildWainParams, P!BuildParams,
     P!Building, P!At
<1>2. elemIdx \in P!Indices
  BY <1>1, AtElement
<1>3. \E at, built : Earlier(at, elemIdx) /\ P!Built(at, built)
  <2>1. CASE P!BuildReturn
    <3>1. PICK expr : /\ expr = P!parse[<< "expr", elemIdx >>]
                      /\ P!Built(P!Require(expr.type = "INT", expr).at, [proc EXCEPT !.ret = << expr.ast >>])
      BY <2>1 DEF P!BuildReturn
    <3>2. P!Require(expr.type = "INT", expr).at \in {P!Fail, expr.at}
      BY DEF P!Require, P!Failed, P!Untyped, P!Got
    <3>3. Earlier(P!Require(expr.type = "INT", expr).at, elemIdx)
      BY <1>2, <3>1, <3>2, ParsedEarlier DEF Earlier
    <3> QED
      BY <3>1, <3>3
  <2>2. CASE P!BuildStatements
    BY <1>2, <2>2, ParsedEarlier DEF P!BuildStatements
  <2>3. CASE P!BuildDcls \/ P!BuildParams
    <3>1. Earlier(P!parseDclsLoop[elemIdx].at, elemIdx) /\ Earlier(P!parseParamsLoop[elemIdx].at, elemIdx)
      BY <1>2, LoopsCollect DEF Collects
    <3> QED
      BY <2>3, <3>1 DEF P!BuildDcls, P!BuildParams
  <2>4. CASE P!BuildWainParams
    <3>1. Earlier(P!ParseWainParams(elemIdx).at, elemIdx)
      BY <1>2, WainParamsCollect DEF Collects
    <3> QED
      BY <2>4, <3>1 DEF P!BuildWainParams
  <2> QED
    BY <2>1, <2>2, <2>3, <2>4
<1> QED
  BY <1>1, <1>3, BuiltTyped

\* A step of the parser keeps the types.
LEMMA ParserNextTyped ==
  ASSUME ChartOK, Handed, Handing, P!TypeOK, P!Begin \/ P!Parse
  PROVE  P!TypeOK'
<1>1. Len(finalChart) \in Nat
  BY DEF ChartOK
<1>2. elemIdx \in 0 .. Len(finalChart) /\ currProcedureName \in P!ProcedureName
      /\ phase \in {"idle", "symbols", "build", "parsed", "error", "crash"}
  BY ParserTypes
<1>3. CASE P!Begin \/ P!SymbolsDone
  <2>1. /\ phase' \in {"symbols", "build", "error"} /\ elemIdx' = Len(finalChart)
        /\ currProcedureName' = currProcedureName
        /\ UNCHANGED << procedureNames, procedureArgsNum, dclsMap >>
    BY <1>3 DEF P!Begin, P!SymbolsDone
  <2> QED
    BY <1>1, <1>2, <2>1, MovesTyped
<1>4. CASE P!SymbolProcedure
  BY <1>4, SymbolProcedureTyped
<1>5. CASE P!SymbolDcls \/ P!SymbolWainParams
  BY <1>5, SymbolDclsTyped
<1>6. CASE P!SymbolParams
  BY <1>6, SymbolParamsTyped
<1>7. CASE P!SymbolSkip \/ P!BuildSkip
  <2>1. /\ elemIdx > 0 /\ elemIdx' = elemIdx - 1 /\ phase' = phase
        /\ currProcedureName' = currProcedureName
        /\ UNCHANGED << procedureNames, procedureArgsNum, dclsMap >>
    BY <1>7 DEF P!SymbolSkip, P!BuildSkip
  <2>2. elemIdx' \in 0 .. Len(finalChart)
    BY <2>1, AtElement
  <2> QED
    BY <1>2, <2>1, <2>2, MovesTyped
<1>8. CASE P!BuildProcedure
  <2>1. /\ elemIdx > 0 /\ elemIdx' = elemIdx - 1 /\ phase' = phase
        /\ P!Sym(elemIdx) \in P!ProcedureSyms
        /\ currProcedureName' = P!ValueAt(elemIdx, 1)
        /\ UNCHANGED << procedureNames, procedureArgsNum, dclsMap >>
    BY <1>8 DEF P!BuildProcedure, P!At
  <2>2. elemIdx' \in 0 .. Len(finalChart) /\ elemIdx \in DOMAIN finalChart
    BY <2>1, AtElement
  <2>3. currProcedureName' \in P!ProcedureName
    BY <2>1, <2>2, ProcedureNamed
  <2> QED
    BY <1>2, <2>1, <2>2, <2>3, MovesTyped
<1>9. CASE P!NullProcedure
  <2>1. P!Stop("error") \/ P!Stop("crash")
    BY <1>9 DEF P!NullProcedure
  <2> QED
    BY <2>1, StopTyped
<1>10. CASE P!BuildReturn \/ P!BuildStatements \/ P!BuildDcls \/ P!BuildWainParams \/ P!BuildParams
  BY <1>10, BuildingTyped
<1>11. CASE P!BuildDone
  <2>1. /\ phase' = "parsed" /\ elemIdx' = elemIdx /\ currProcedureName' = currProcedureName
        /\ UNCHANGED << procedureNames, procedureArgsNum, dclsMap >>
    BY <1>11 DEF P!BuildDone
  <2> QED
    BY <1>2, <2>1, MovesTyped
<1> QED
  BY <1>3, <1>4, <1>5, <1>6, <1>7, <1>8, <1>9, <1>10, <1>11 DEF P!Parse

-----------------------------------------------------------------------------
(* The braces of a text.                                                   *)

\* How often s is among the first n symbols.
Count(syms, s, n) == Cardinality({ m \in 1 .. n : syms[m] = s })

\* What one symbol does to the braces left open.
Opens(s) == IF s = "LBRACE" THEN 1 ELSE IF s = "RBRACE" THEN -1 ELSE 0

\* One symbol more.
LEMMA CountSteps ==
  ASSUME NEW syms, NEW s, NEW n \in Nat
  PROVE  /\ Count(syms, s, n) \in Nat
         /\ Count(syms, s, 0) = 0
         /\ Count(syms, s, n + 1) = Count(syms, s, n) + (IF syms[n + 1] = s THEN 1 ELSE 0)
<1> DEFINE S == { m \in 1 .. n : syms[m] = s }
           T == { m \in 1 .. (n + 1) : syms[m] = s }
<1>1. IsFiniteSet(S)
  <2>1. IsFiniteSet(1 .. n) /\ S \in SUBSET (1 .. n)
    BY FS_Interval
  <2> QED
    BY <2>1, FS_Subset
<1>2. { m \in 1 .. 0 : syms[m] = s } = {}
  OBVIOUS
<1>3. T = IF syms[n + 1] = s THEN S \cup {n + 1} ELSE S
  OBVIOUS
<1>4. n + 1 \notin S
  OBVIOUS
<1> HIDE DEF S, T
<1>5. Cardinality(T) = Cardinality(S) + (IF syms[n + 1] = s THEN 1 ELSE 0)
  BY <1>1, <1>3, <1>4, FS_AddElement, FS_CardinalityType
<1> QED
  BY <1>1, <1>2, <1>5, FS_CardinalityType, FS_EmptySet DEF Count, S, T

\* The braces left open, symbol by symbol.
LEMMA OpenedSteps ==
  ASSUME NEW syms, NEW n \in Nat
  PROVE  /\ Opened(syms, n) \in Int
         /\ Opened(syms, 0) = 0
         /\ Opened(syms, n + 1) = Opened(syms, n) + Opens(syms[n + 1])
<1> DEFINE l == Count(syms, "LBRACE", n)
           r == Count(syms, "RBRACE", n)
           s == syms[n + 1]
<1>1. /\ l \in Nat /\ Count(syms, "LBRACE", 0) = 0
      /\ Count(syms, "LBRACE", n + 1) = l + (IF s = "LBRACE" THEN 1 ELSE 0)
  BY CountSteps
<1>2. /\ r \in Nat /\ Count(syms, "RBRACE", 0) = 0
      /\ Count(syms, "RBRACE", n + 1) = r + (IF s = "RBRACE" THEN 1 ELSE 0)
  BY CountSteps
<1>3. \A m : Opened(syms, m) = Count(syms, "LBRACE", m) - Count(syms, "RBRACE", m)
  BY DEF Opened, Count
<1> HIDE DEF l, r, s
<1>4. Opened(syms, n) = l - r
  BY <1>3 DEF l, r
<1>5. Opened(syms, n + 1) = Opened(syms, n) + Opens(s)
  <2>1. Opened(syms, n + 1) = Count(syms, "LBRACE", n + 1) - Count(syms, "RBRACE", n + 1)
    BY <1>3
  <2>2. "LBRACE" # "RBRACE"
    OBVIOUS
  <2> QED
    BY <1>1, <1>2, <1>4, <2>1, <2>2 DEF Opens
<1>6. Opened(syms, 0) = 0
  BY <1>1, <1>2, <1>3
<1> QED
  BY <1>1, <1>2, <1>4, <1>5, <1>6 DEF s

\* The kinds of the tokens of w.
Kinds(w) == [n \in DOMAIN w |-> w[n].type]

\* What the braces say of a symbol that derives the tokens after the first a up
\* to the b-th.
Balances(w, B, a, b) ==
  /\ Opened(Kinds(w), b) = Opened(Kinds(w), a)
  /\ B \in EndsInBrace => b > 0 /\ Kinds(w)[b] = "RBRACE"

Balanced(w, spans) == \A B, a, b : << B, a, b >> \in spans => Balances(w, B, a, b)

\* The kind of a token.
LEMMA KindAt ==
  ASSUME NEW w \in Seq(Token), NEW a \in Positions(w), NEW b \in Positions(w), b = a + 1
  PROVE  b \in DOMAIN w /\ Kinds(w)[b] = w[b].type
<1>1. b \in 1 .. Len(w)
  BY DEF Positions
<1> QED
  BY <1>1 DEF Kinds

\* Where the beginning of a right-hand side ends, as many braces are open as
\* it has opened.
LEMMA EndsBalanced ==
  ASSUME NEW w \in Seq(Token), NEW spans, Balanced(w, spans), NEW rhs, NEW a \in Positions(w)
  PROVE  \A d \in Nat : \A b \in StringEnds(w, spans, rhs, a)[d] :
           Opened(Kinds(w), b) = Opened(Kinds(w), a) + Opened(rhs, d)
<1> DEFINE ends == StringEnds(w, spans, rhs, a)
           K == Kinds(w)
           S == { d \in Nat : \A b \in ends[d] : Opened(K, b) = Opened(K, a) + Opened(rhs, d) }
<1>1. /\ ends[0] = {a}
      /\ \A n \in Nat : ends[n] \subseteq Positions(w)
      /\ \A n \in Nat : ends[n + 1] = UNION { SymbolEnds(w, spans, rhs[n + 1], b) : b \in ends[n] }
  BY StringEndsSteps
<1>2. \A b \in Positions(w) : b \in Nat /\ Opened(K, b) \in Int
  <2>1. Positions(w) \subseteq Nat
    BY DEF Positions
  <2> QED
    BY <2>1, OpenedSteps
<1>3. Opened(rhs, 0) = 0
  BY OpenedSteps
<1> HIDE DEF ends, K
<1>4. 0 \in S
  BY <1>1, <1>2, <1>3
<1>5. ASSUME NEW d \in Nat, d \in S PROVE d + 1 \in S
  <2> SUFFICES ASSUME NEW b \in ends[d + 1]
               PROVE  Opened(K, b) = Opened(K, a) + Opened(rhs, d + 1)
    OBVIOUS
  <2>1. PICK e \in ends[d] : b \in SymbolEnds(w, spans, rhs[d + 1], e)
    BY <1>1
  <2>2. e \in Positions(w) /\ b \in Positions(w)
    BY <1>1
  <2>3. Opened(K, e) = Opened(K, a) + Opened(rhs, d)
    BY <1>5
  <2>4. Opened(rhs, d) \in Int /\ Opened(rhs, d + 1) = Opened(rhs, d) + Opens(rhs[d + 1])
    BY OpenedSteps
  <2>5. Opened(K, b) = Opened(K, e) + Opens(rhs[d + 1])
    <3>1. CASE rhs[d + 1] \in Terminals
      <4>1. b = e + 1 /\ w[b].type = rhs[d + 1]
        BY <2>1, <3>1 DEF SymbolEnds
      <4>2. K[b] = rhs[d + 1]
        BY <2>2, <4>1, KindAt DEF K
      <4>3. e \in Nat
        BY <1>2, <2>2
      <4> QED
        BY <4>1, <4>2, <4>3, OpenedSteps
    <3>2. CASE rhs[d + 1] \notin Terminals
      <4>1. << rhs[d + 1], e, b >> \in spans
        BY <2>1, <3>2 DEF SymbolEnds
      <4>2. Opened(K, b) = Opened(K, e)
        BY <4>1 DEF Balanced, Balances, K
      <4>3. rhs[d + 1] # "LBRACE" /\ rhs[d + 1] # "RBRACE"
        BY <3>2, BracesAssumption
      <4>4. Opens(rhs[d + 1]) = 0
        BY <4>3 DEF Opens
      <4> QED
        BY <1>2, <2>2, <4>2, <4>4
    <3> QED
      BY <3>1, <3>2
  <2>6. Opened(K, a) \in Int
    BY <1>2
  <2>7. Opens(rhs[d + 1]) \in Int
    BY DEF Opens
  <2> QED
    BY <2>3, <2>4, <2>5, <2>6, <2>7
<1> HIDE DEF S
<1>6. \A d \in Nat : d \in S
  BY <1>4, <1>5, Induction
<1> QED
  BY <1>6 DEF S, ends, K

\* One application of the rules of the grammar keeps the balance,
LEMMA DerivedBalanced ==
  ASSUME NEW w \in Seq(Token), NEW spans, Balanced(w, spans)
  PROVE  Balanced(w, Derived(w, spans))
<1> SUFFICES ASSUME NEW B, NEW a, NEW b, << B, a, b >> \in Derived(w, spans)
             PROVE  Balances(w, B, a, b)
  BY DEF Balanced
<1>1. a \in Positions(w) /\ Positions(w) \subseteq Nat
  BY InDerived DEF Positions
<1>2. PICK r \in DOMAIN CFG :
        CFG[r].lhs = B /\ b \in StringEnds(w, spans, CFG[r].rhs, a)[Len(CFG[r].rhs)]
  BY InDerived
<1> DEFINE rhs == CFG[r].rhs
           L == Len(rhs)
           ends == StringEnds(w, spans, rhs, a)
           K == Kinds(w)
<1>3. rhs \in Seq(Symbols) /\ L \in Nat
  BY RuleLength
<1>4. /\ \A n \in Nat : ends[n] \subseteq Positions(w)
      /\ \A n \in Nat : ends[n + 1] = UNION { SymbolEnds(w, spans, rhs[n + 1], e) : e \in ends[n] }
  BY <1>1, StringEndsSteps
<1>5. Opened(rhs, L) = 0
  BY BracesAssumption
<1>6. Opened(K, a) \in Int
  BY <1>1, OpenedSteps
<1>7. Opened(K, b) = Opened(K, a) + Opened(rhs, L)
  BY <1>1, <1>2, <1>3, EndsBalanced
<1>8. Opened(K, b) = Opened(K, a)
  BY <1>5, <1>6, <1>7
<1>9. ASSUME B \in EndsInBrace PROVE b > 0 /\ K[b] = "RBRACE"
  <2>1. rhs # << >> /\ rhs[L] \in {"RBRACE"} \cup EndsInBrace
    BY <1>2, <1>9, BracesAssumption
  <2>2. PICK m \in Nat : L = m + 1
    <3>1. L # 0
      BY <1>3, <2>1
    <3> HIDE DEF L
    <3>2. L - 1 \in Nat /\ L = (L - 1) + 1
      BY <1>3, <3>1
    <3> QED
      BY <3>2
  <2>3. PICK e \in ends[m] : b \in SymbolEnds(w, spans, rhs[L], e)
    <3>1. b \in ends[m + 1]
      BY <1>2, <2>2
    <3> HIDE DEF ends, rhs, L
    <3> QED
      BY <1>4, <2>2, <3>1
  <2>4. e \in Positions(w) /\ b \in Positions(w)
    BY <1>2, <1>3, <1>4, <2>2, <2>3
  <2>5. CASE rhs[L] \in Terminals
    <3>1. b = e + 1 /\ w[b].type = rhs[L]
      BY <2>3, <2>5 DEF SymbolEnds
    <3>2. K[b] = rhs[L] /\ b > 0
      BY <1>1, <2>4, <3>1, KindAt
    <3>3. rhs[L] \notin EndsInBrace
      BY <2>5, BracesAssumption, GrammarAssumption
    <3> QED
      BY <2>1, <3>2, <3>3
  <2>6. CASE rhs[L] \notin Terminals
    <3>1. << rhs[L], e, b >> \in spans
      BY <2>3, <2>6 DEF SymbolEnds
    <3>2. rhs[L] \in EndsInBrace
      BY <2>1, <2>6, BracesAssumption
    <3> QED
      BY <3>1, <3>2 DEF Balanced, Balances
  <2> QED
    BY <2>5, <2>6
<1> QED
  BY <1>8, <1>9 DEF Balances

\* and so does the whole derivation.
LEMMA SpansBalanced ==
  ASSUME NEW w \in Seq(Token)
  PROVE  Balanced(w, Spans(w))
<1> DEFINE stage == SpanStages(w)
           S == { n \in Nat : Balanced(w, stage[n]) }
<1>1. stage[0] = {} /\ \A n \in Nat : stage[n + 1] = Derived(w, stage[n])
  BY SpanStagesSteps
<1>2. PICK n \in Nat : Spans(w) = stage[n]
  BY SpansFixed
<1> HIDE DEF stage
<1>3. 0 \in S
  BY <1>1 DEF Balanced
<1>4. ASSUME NEW m \in Nat, m \in S PROVE m + 1 \in S
  <2>1. Balanced(w, Derived(w, stage[m]))
    BY <1>4, DerivedBalanced
  <2> QED
    BY <1>1, <2>1
<1> HIDE DEF S
<1>5. \A m \in Nat : m \in S
  BY <1>3, <1>4, Induction
<1> QED
  BY <1>2, <1>5 DEF S

\* The braces of a sentence close, the last of them at its end.
LEMMA SentenceCloses ==
  ASSUME tokens \in Seq(Token), IsSentence(tokens)
  PROVE  Closed
<1> DEFINE K == Kinds(tokens)
           n == Len(tokens)
<1>1. << CFG[1].lhs, 0, n >> \in Spans(tokens)
  BY DEF IsSentence
<1>2. Balances(tokens, CFG[1].lhs, 0, n)
  BY <1>1, SpansBalanced DEF Balanced
<1>3. Opened(K, n) = Opened(K, 0) /\ n > 0 /\ K[n] = "RBRACE"
  BY <1>2 DEF Balances, EndsInBrace
<1>4. Opened(K, 0) = 0
  BY OpenedSteps
<1>5. tokens # << >>
  BY <1>3
<1> QED
  BY <1>3, <1>4, <1>5 DEF Closed, Kinds

\* Where something can begin no more braces were closed than opened, and one is
\* open where it stands in braces.
Enclosed(w, begun) ==
  \A A, a : << A, a >> \in begun =>
    Opened(Kinds(w), a) >= 0 /\ (A \in InBraces => Opened(Kinds(w), a) > 0)

\* The symbols of a rule begin in braces if they have to.
LEMMA BegunInBraces ==
  ASSUME NEW w \in Seq(Token), NEW A, NEW a \in Positions(w),
         Opened(Kinds(w), a) >= 0, A \in InBraces => Opened(Kinds(w), a) > 0
  PROVE  Enclosed(w, BegunIn(w, Spans(w), A, a))
<1> SUFFICES ASSUME NEW B, NEW b, << B, b >> \in BegunIn(w, Spans(w), A, a)
             PROVE  Opened(Kinds(w), b) >= 0 /\ (B \in InBraces => Opened(Kinds(w), b) > 0)
  BY DEF Enclosed
<1>1. PICK r \in DOMAIN CFG : \E d \in DOMAIN CFG[r].rhs :
        /\ CFG[r].lhs = A
        /\ CFG[r].rhs[d] \in LeftSides
        /\ \E e \in StringEnds(w, Spans(w), CFG[r].rhs, a)[d - 1] : << B, b >> = << CFG[r].rhs[d], e >>
  BY InBegunIn
<1>2. PICK d \in DOMAIN CFG[r].rhs :
        /\ CFG[r].lhs = A
        /\ \E e \in StringEnds(w, Spans(w), CFG[r].rhs, a)[d - 1] : << B, b >> = << CFG[r].rhs[d], e >>
  BY <1>1
<1>3. B = CFG[r].rhs[d] /\ b \in StringEnds(w, Spans(w), CFG[r].rhs, a)[d - 1]
  BY <1>2
<1>4. d - 1 \in Nat
  BY RuleLength
<1>5. Opened(Kinds(w), b) = Opened(Kinds(w), a) + Opened(CFG[r].rhs, d - 1)
  BY <1>3, <1>4, SpansBalanced, EndsBalanced
<1>6. /\ Opened(CFG[r].rhs, d - 1) >= 0
      /\ B \in InBraces /\ A \notin InBraces => Opened(CFG[r].rhs, d - 1) > 0
  BY <1>2, <1>3, BracesAssumption
<1>7. Opened(CFG[r].rhs, d - 1) \in Int /\ Opened(Kinds(w), a) \in Int
  <2>1. a \in Nat
    BY DEF Positions
  <2> QED
    BY <1>4, <2>1, OpenedSteps
<1> DEFINE p == Opened(Kinds(w), a)
           q == Opened(CFG[r].rhs, d - 1)
<1>8. p \in Int /\ q \in Int /\ p >= 0 /\ q >= 0 /\ Opened(Kinds(w), b) = p + q
  BY <1>5, <1>6, <1>7
<1>9. B \in InBraces => p > 0 \/ q > 0
  BY <1>6
<1> HIDE DEF p, q
<1> QED
  BY <1>8, <1>9

\* So it is for all that can begin.
LEMMA ReachInBraces ==
  ASSUME NEW w \in Seq(Token)
  PROVE  Enclosed(w, Reach(w, Spans(w)))
<1> DEFINE spans == Spans(w)
           stage == BegunStages(w, spans)
           S == { n \in Nat : Enclosed(w, stage[n]) }
<1>0. Len(w) \in Nat
  OBVIOUS
<1>1. /\ stage[0] = { << CFG[1].lhs, 0 >> }
      /\ \A n \in Nat : stage[n + 1] = Begun(w, spans, stage[n])
      /\ \A n \in Nat : stage[n] \in SUBSET AllBegun(w)
  <2>1. stage[0] = { << CFG[1].lhs, 0 >> } /\ stage \in [Nat -> SUBSET AllBegun(w)]
    BY <1>0, BegunStagesSteps
  <2>2. \A n \in Nat : stage[n + 1] = Begun(w, spans, stage[n])
    BY <1>0, BegunStagesSteps
  <2> HIDE DEF stage, spans
  <2> QED
    BY <2>1, <2>2
<1>2. PICK n \in Nat : Reach(w, spans) = stage[n]
  BY <1>0, ReachFixed
<1> HIDE DEF stage
<1>3. 0 \in S
  <2>1. Opened(Kinds(w), 0) = 0 /\ CFG[1].lhs \notin InBraces
    BY OpenedSteps, BracesAssumption
  <2>2. Enclosed(w, { << CFG[1].lhs, 0 >> })
    BY <2>1 DEF Enclosed
  <2> QED
    BY <1>1, <2>2
<1>4. ASSUME NEW m \in Nat, m \in S PROVE m + 1 \in S
  <2>1. Enclosed(w, stage[m])
    BY <1>4
  <2>2. ASSUME NEW B, NEW b, << B, b >> \in Begun(w, spans, stage[m])
        PROVE  Opened(Kinds(w), b) >= 0 /\ (B \in InBraces => Opened(Kinds(w), b) > 0)
    <3>1. CASE << B, b >> \in stage[m]
      BY <2>1, <3>1 DEF Enclosed
    <3>2. CASE \E p \in stage[m] : << B, b >> \in BegunIn(w, spans, p[1], p[2])
      <4>1. PICK p \in stage[m] : << B, b >> \in BegunIn(w, spans, p[1], p[2])
        BY <3>2
      <4>2. p = << p[1], p[2] >> /\ p[2] \in Positions(w)
        BY <1>1 DEF AllBegun
      <4>3. /\ Opened(Kinds(w), p[2]) >= 0
            /\ p[1] \in InBraces => Opened(Kinds(w), p[2]) > 0
        BY <2>1, <4>2 DEF Enclosed
      <4>4. Enclosed(w, BegunIn(w, spans, p[1], p[2]))
        BY <4>2, <4>3, BegunInBraces
      <4> QED
        BY <4>1, <4>4 DEF Enclosed
    <3> QED
      BY <2>2, <3>1, <3>2, InBegun
  <2>3. Enclosed(w, Begun(w, spans, stage[m]))
    BY <2>2 DEF Enclosed
  <2> QED
    BY <1>1, <2>3
<1> HIDE DEF S
<1>5. \A m \in Nat : m \in S
  BY <1>3, <1>4, Induction
<1> QED
  BY <1>2, <1>5 DEF S

-----------------------------------------------------------------------------
(* The last list of the chart.                                             *)

\* What the scanner adds after the brace that closes the last one is a complete
\* procedure.
LEMMA ClosesProcedure ==
  ASSUME IInv, Sound, Closed, NEW f \in ChartFacts, f.at = Len(tokens), ByScanner(f.el)
  PROVE  IsComplete(f.el) /\ Lhs(f.el) \in P!ProcedureSyms
<1> DEFINE K == Kinds(tokens)
           spans == Spans(tokens)
           rhs == Rhs(f.el)
           a == f.el.start
           d == f.el.dot
           n == Len(tokens)
<1>1. /\ tokens \in Seq(Token) /\ n \in Nat /\ a \in Nat /\ a <= n
      /\ d \in Nat /\ d <= Len(rhs) /\ rhs \in Seq(Symbols) /\ f.el.rule \in DOMAIN CFG
  BY FactFields DEF IInv, TypeOK
<1>2. K[n] = "RBRACE" /\ Opened(K, n) = 0
  BY DEF Closed, Kinds
<1>3. << Lhs(f.el), a >> \in Reach(tokens, spans) /\ n \in StringEnds(tokens, spans, rhs, a)[d]
  BY DEF Sound, Derivable
<1>4. a \in Positions(tokens)
  BY <1>1 DEF Positions
<1>5. Opened(K, n) = Opened(K, a) + Opened(rhs, d)
  BY <1>1, <1>3, <1>4, SpansBalanced, EndsBalanced
<1>6. Opened(K, a) >= 0 /\ (Lhs(f.el) \in InBraces => Opened(K, a) > 0)
  BY <1>1, <1>3, ReachInBraces DEF Enclosed
<1>7. d > 0 /\ rhs[d] \in Terminals
  BY DEF ByScanner
<1>8. d \in DOMAIN rhs /\ d - 1 \in Nat /\ (d - 1) + 1 = d
  BY <1>1, <1>7
<1>9. rhs[d] = "RBRACE"
  <2>1. PICK e \in StringEnds(tokens, spans, rhs, a)[d - 1] : n \in SymbolEnds(tokens, spans, rhs[d], e)
    <3> DEFINE ends == StringEnds(tokens, spans, rhs, a)
               m == d - 1
    <3>1. \A o \in Nat : ends[o + 1] = UNION { SymbolEnds(tokens, spans, rhs[o + 1], b) : b \in ends[o] }
      BY <1>4, StringEndsSteps
    <3>2. n \in ends[m + 1] /\ m \in Nat /\ d = m + 1
      BY <1>3, <1>8
    <3> HIDE DEF ends, m
    <3>3. \E e \in ends[m] : n \in SymbolEnds(tokens, spans, rhs[d], e)
      BY <3>1, <3>2
    <3> QED
      BY <3>3 DEF ends, m
  <2>2. tokens[n].type = rhs[d]
    BY <1>7, <2>1 DEF SymbolEnds
  <2>3. n \in DOMAIN tokens
    BY <1>1 DEF Closed
  <2> QED
    BY <1>2, <2>2, <2>3 DEF Kinds
<1>10. Opened(rhs, d) \in Int /\ Opened(K, a) \in Int /\ Opened(rhs, d - 1) \in Int
       /\ Opened(rhs, d) = Opened(rhs, d - 1) + Opens(rhs[d])
  BY <1>1, <1>8, OpenedSteps
<1>11. Opened(rhs, d) >= 0
  <2>1. CASE d = Len(rhs)
    BY <1>1, <2>1, BracesAssumption DEF Rhs
  <2>2. CASE d # Len(rhs)
    <3> DEFINE m == d + 1
    <3>1. m \in DOMAIN rhs /\ m - 1 = d
      BY <1>1, <2>2
    <3> HIDE DEF m
    <3>2. Opened(rhs, m - 1) >= 0
      BY <1>1, <3>1, BracesAssumption DEF Rhs
    <3> QED
      BY <3>1, <3>2
  <2> QED
    BY <2>1, <2>2
<1>12. Opened(rhs, d) = 0 /\ Lhs(f.el) \notin InBraces
  <2> DEFINE p == Opened(K, a)
             q == Opened(rhs, d)
  <2>1. p \in Int /\ q \in Int /\ p + q = 0 /\ p >= 0 /\ q >= 0
    BY <1>2, <1>5, <1>6, <1>10, <1>11
  <2>2. Lhs(f.el) \in InBraces => p > 0
    BY <1>6
  <2> HIDE DEF p, q
  <2>3. q = 0 /\ Lhs(f.el) \notin InBraces
    BY <2>1, <2>2
  <2> QED
    BY <2>3 DEF q
<1> HIDE DEF K, spans, a, n
<1>13. d = Len(rhs) /\ Lhs(f.el) \in P!ProcedureSyms
  BY <1>1, <1>8, <1>9, <1>12, BracesAssumption DEF Rhs, Lhs
<1> QED
  BY <1>13 DEF IsComplete

\* The list to which a list that was walked has led is the scanner's.
LastScanned ==
  /\ pc = "lists" /\ i > 0 => AllByScanner(chart, i + 1)
  /\ pc \in {"populate", "accepted"} /\ tokens # << >> => AllByScanner(chart, Len(tokens) + 1)

\* At first there is no such list.
LEMMA InitLast == Init => LastScanned
BY DEF Init, LastScanned

\* EndList comes when the scanner has been through; from then on the list is as
\* it was.
LEMMA NextLast == IInv /\ ScannedFirst /\ LastScanned /\ [Next]_vars => LastScanned'
<1> SUFFICES ASSUME IInv, ScannedFirst, LastScanned, [Next]_vars PROVE LastScanned'
  OBVIOUS
<1>0. i \in Nat /\ tokens \in Seq(Token)
  BY DEF IInv, TypeOK
<1>1. CASE EndList
  <2>1. pc \in Walking /\ pc' = "lists" /\ i' = i + 1 /\ chart' = chart
    BY <1>1 DEF EndList, Walking
  <2>2. i' + 1 = i + 2
    BY <1>0, <2>1
  <2> QED
    BY <2>1, <2>2 DEF ScannedFirst, LastScanned, AllByScanner, ByScanner, Rhs
<1>2. CASE Accept
  <2>1. pc = "lists" /\ pc' = "populate" /\ chart' = chart /\ tokens' = tokens /\ i >= Len(tokens)
    BY <1>2 DEF Accept
  <2>2. i = Len(tokens)
    BY <1>0, <2>1 DEF IInv, ChartInBounds
  <2>3. tokens # << >> => i > 0
    BY <1>0, <2>2
  <2> QED
    BY <2>1, <2>2, <2>3 DEF LastScanned, AllByScanner, ByScanner, Rhs
<1>3. CASE PopulateElem \/ PopulateNextList \/ PopulateDone \/ UNCHANGED vars
  <2>1. chart' = chart /\ tokens' = tokens /\ i' = i
        /\ (pc' = pc \/ (pc = "populate" /\ pc' = "accepted"))
    BY <1>3 DEF PopulateElem, PopulateNextList, PopulateDone, vars, Loops
  <2> QED
    BY <2>1 DEF LastScanned, AllByScanner, ByScanner, Rhs
<1>4. CASE /\ Step
           /\ ~ (EndList \/ Accept \/ PopulateElem \/ PopulateNextList \/ PopulateDone)
  <2>1. pc' \notin {"lists", "populate", "accepted"}
    BY <1>4 DEF Step, BeginList, InvalidToken, CallCompleter, CallScanner, CallPredictor,
       PredictRule, PredictorReturns, ScanElem, ScannerReturns, CompleteElem, CompleterNext,
       CompleterReturns, InvalidCode, Loops
  <2> QED
    BY <2>1 DEF LastScanned
<1> QED
  BY <1>1, <1>2, <1>3, <1>4 DEF Next, Terminated

\* The last element of the final chart.
EndsWithProcedure ==
  /\ finalChart # << >>
  /\ Lhs(finalChart[Len(finalChart)]) \in P!ProcedureSyms

\* Where the braces close it is a procedure.
LEMMA LastIsProcedure ==
  ASSUME IInv, Complete, Sound, LastScanned, Populating, Populated, Closed
  PROVE  EndsWithProcedure
<1> DEFINE n == Len(tokens)
           k == n + 1
           s == chart[k]
           L == Len(s)
           p == << k, L >>
<1>1. /\ tokens \in Seq(Token) /\ n \in Nat /\ chart \in Seq(Seq(Elem)) /\ Len(chart) = k
      /\ \A m \in DOMAIN chart : chart[m] # << >>
      /\ finalChart \in Seq(Elem)
  BY DEF IInv, TypeOK, Complete, Ends, Populated
<1>2. k \in DOMAIN chart /\ s \in Seq(Elem) /\ s # << >>
  BY <1>1
<1>3. L \in DOMAIN s /\ L \in Nat /\ DOMAIN s = 1 .. L
  BY <1>2
<1>4. p \in Places /\ p[1] = k /\ p[2] = L
  BY <1>2, <1>3, InPlaces
<1>5. AllByScanner(chart, k)
  BY DEF LastScanned, Closed, Populated
<1>6. ByScanner(ElemAt(p))
  BY <1>2, <1>3, <1>5 DEF AllByScanner, ElemAt
<1>7. IsComplete(ElemAt(p)) /\ Lhs(ElemAt(p)) \in P!ProcedureSyms
  <2> DEFINE f == [el |-> ElemAt(p), at |-> p[1] - 1]
  <2>1. f \in ChartFacts
    BY <1>4, PlaceFact
  <2>2. f.el = ElemAt(p) /\ f.at = n
    BY <1>1, <1>4
  <2> HIDE DEF f, p, n
  <2> QED
    BY <1>6, <2>1, <2>2, ClosesProcedure DEF n
<1>8. p \in KeptPlaces
  <2>1. Lhs(ElemAt(p)) # "type"
    BY <1>7 DEF P!ProcedureSyms
  <2> QED
    BY <1>4, <1>7, <2>1 DEF KeptPlaces, Shadowed
<1>9. \A q \in KeptPlaces \ {p} : Before(q, p)
  <2> SUFFICES ASSUME NEW q \in Places, q # p PROVE Before(q, p)
    BY DEF KeptPlaces
  <2>1. /\ q = << q[1], q[2] >> /\ q[1] \in Nat \ {0} /\ q[2] \in Nat \ {0}
        /\ q[1] \in DOMAIN chart /\ q[2] \in DOMAIN chart[q[1]]
    BY PlaceFact
  <2>2. q[1] \in 1 .. k
    BY <1>1, <2>1
  <2>3. CASE q[1] = k
    <3>1. q[2] \in 1 .. L /\ q[2] # L
      BY <1>3, <2>1, <2>3
    <3> QED
      BY <1>3, <1>4, <2>3, <3>1 DEF Before
  <2>4. CASE q[1] # k
    BY <1>1, <1>4, <2>2, <2>4 DEF Before
  <2> QED
    BY <2>3, <2>4
<1> HIDE DEF p
<1>10. Listing(finalChart, KeptPlaces)
  BY AllKept
<1>11. /\ IsFiniteSet(KeptPlaces) /\ KeptPlaces \subseteq Places
       /\ Len(finalChart) = Cardinality(KeptPlaces)
       /\ \A o \in KeptPlaces : finalChart[Rank(KeptPlaces, o)] = ElemAt(o)
  BY <1>1, <1>10, ListingParts
<1>12. Rank(KeptPlaces, p) = Len(finalChart)
  BY <1>8, <1>9, <1>11, LastRank
<1>13. finalChart # << >>
  <2>1. Cardinality(KeptPlaces) # 0
    BY <1>8, <1>11, FS_EmptySet
  <2> QED
    BY <1>11, <2>1
<1> QED
  BY <1>7, <1>8, <1>11, <1>12, <1>13 DEF EndsWithProcedure

-----------------------------------------------------------------------------
(* The procedure that is being built.                                      *)

\* No procedure of the list is null.
ListedWhole == \E whole : procedures \in Seq(whole) /\ P!NoProcedure \notin whole

\* proc is null at most for the last element, where the second loop begins.
NotNull ==
  /\ \E name, params, dcls, stmts, ret :
       proc = [name |-> name, params |-> params, dcls |-> dcls, stmts |-> stmts, ret |-> ret]
  /\ phase = "build" => proc.name # "" \/ elemIdx = Len(finalChart)
  /\ phase # "crash"
  /\ ListedWhole

\* A procedure with a name is not null.
LEMMA NamedWhole ==
  ASSUME proc.name # ""
  PROVE  proc # P!NoProcedure
<1>1. P!NoProcedure.name = ""
  BY DEF P!NoProcedure
<1> QED
  BY <1>1

\* The list stays whole when a procedure that is not null is put before it.
LEMMA AddsWhole ==
  ASSUME ListedWhole, proc # P!NoProcedure, P!AddProcedure
  PROVE  ListedWhole'
<1>1. PICK whole : procedures \in Seq(whole) /\ P!NoProcedure \notin whole
  BY DEF ListedWhole
<1>2. P!NoProcedure \notin whole \cup {proc}
  BY <1>1
<1>3. procedures \in Seq(whole \cup {proc}) /\ << proc >> \in Seq(whole \cup {proc})
  BY <1>1
<1>4. procedures' \in Seq(whole \cup {proc})
  BY <1>3 DEF P!AddProcedure
<1>5. P!NoProcedure' = P!NoProcedure
  BY DEF P!NoProcedure
<1> QED
  BY <1>2, <1>4, <1>5 DEF ListedWhole

\* The list is whole while there is nothing in it.
LEMMA EmptyWhole ==
  ASSUME procedures = << >>
  PROVE  ListedWhole
<1>1. << >> \in Seq({}) /\ P!NoProcedure \notin {}
  OBVIOUS
<1> QED
  BY <1>1 DEF ListedWhole

\* A list that is as it was is whole.
LEMMA StaysWhole ==
  ASSUME ListedWhole, procedures' = procedures
  PROVE  ListedWhole'
BY DEF ListedWhole, P!NoProcedure

\* An element that is not a procedure is met when a procedure is being built.
LEMMA NamedOtherwise ==
  ASSUME ChartOK, P!TypeOK, EndsWithProcedure, NotNull, phase = "build", elemIdx > 0,
         P!Sym(elemIdx) \notin P!ProcedureSyms
  PROVE  proc.name # "" /\ proc # P!NoProcedure
<1>1. elemIdx # Len(finalChart)
  BY DEF EndsWithProcedure, P!Sym, P!Lhs, Lhs
<1>2. proc.name # ""
  BY <1>1 DEF NotNull
<1>3. P!NoProcedure.name = ""
  BY DEF P!NoProcedure
<1> QED
  BY <1>2, <1>3

\* The procedure that is given its parts keeps its name.
LEMMA BuiltNotNull ==
  ASSUME NotNull, phase = "build", proc.name # "", NEW at, NEW built,
         \E params, dcls, stmts, ret :
           built = [name |-> proc.name, params |-> params, dcls |-> dcls, stmts |-> stmts, ret |-> ret],
         P!Built(at, built)
  PROVE  NotNull'
<1>1. CASE P!Stop("error")
  BY <1>1, StaysWhole DEF P!Stop, NotNull
<1>2. CASE proc' = built /\ phase' = phase /\ procedures' = procedures
  <2>1. PICK params, dcls, stmts, ret :
          proc' = [name |-> proc.name, params |-> params, dcls |-> dcls, stmts |-> stmts, ret |-> ret]
    BY <1>2
  <2>2. proc'.name # ""
    BY <2>1
  <2>3. ListedWhole'
    BY <1>2, StaysWhole DEF NotNull
  <2> QED
    BY <1>2, <2>1, <2>2, <2>3 DEF NotNull
<1> QED
  BY <1>1, <1>2 DEF P!Built

\* The steps of the second loop that parse build a procedure that is there.
LEMMA BuildingNotNull ==
  ASSUME ChartOK, P!TypeOK, EndsWithProcedure, NotNull,
         P!BuildReturn \/ P!BuildStatements \/ P!BuildDcls \/ P!BuildWainParams \/ P!BuildParams
  PROVE  NotNull'
<1>1. PICK params, dcls, stmts, ret :
        proc = [name |-> proc.name, params |-> params, dcls |-> dcls, stmts |-> stmts, ret |-> ret]
  <2>1. PICK name, params, dcls, stmts, ret :
          proc = [name |-> name, params |-> params, dcls |-> dcls, stmts |-> stmts, ret |-> ret]
    BY DEF NotNull
  <2>2. proc.name = name
    BY <2>1
  <2> QED
    BY <2>1, <2>2
<1>2. phase = "build" /\ elemIdx > 0 /\ P!Sym(elemIdx) \notin P!ProcedureSyms
  BY DEF P!BuildReturn, P!BuildStatements, P!BuildDcls, P!BuildWainParams, P!BuildParams,
     P!Building, P!At, P!ProcedureSyms
<1>3. proc.name # ""
  BY <1>2, NamedOtherwise
<1>4. \E at, v : \/ P!Built(at, [proc EXCEPT !.ret = v])
                 \/ P!Built(at, [proc EXCEPT !.stmts = v])
                 \/ P!Built(at, [proc EXCEPT !.dcls = v])
                 \/ P!Built(at, [proc EXCEPT !.params = v])
  <2>1. CASE P!BuildReturn
    BY <2>1 DEF P!BuildReturn
  <2>2. CASE P!BuildStatements
    BY <2>2 DEF P!BuildStatements
  <2>3. CASE P!BuildDcls
    BY <2>3 DEF P!BuildDcls
  <2>4. CASE P!BuildWainParams
    BY <2>4 DEF P!BuildWainParams
  <2>5. CASE P!BuildParams
    BY <2>5 DEF P!BuildParams
  <2> QED
    BY <2>1, <2>2, <2>3, <2>4, <2>5
<1>5. PICK at, v : \/ P!Built(at, [proc EXCEPT !.ret = v])
                  \/ P!Built(at, [proc EXCEPT !.stmts = v])
                  \/ P!Built(at, [proc EXCEPT !.dcls = v])
                  \/ P!Built(at, [proc EXCEPT !.params = v])
  BY <1>4
<1> DEFINE Part(p, d, s, r) ==
             [name |-> proc.name, params |-> p, dcls |-> d, stmts |-> s, ret |-> r]
<1>6. /\ [proc EXCEPT !.ret = v] = Part(params, dcls, stmts, v)
      /\ [proc EXCEPT !.stmts = v] = Part(params, dcls, v, ret)
      /\ [proc EXCEPT !.dcls = v] = Part(params, v, stmts, ret)
      /\ [proc EXCEPT !.params = v] = Part(v, dcls, stmts, ret)
  BY <1>1
<1>7. PICK built : /\ P!Built(at, built)
                   /\ \E p, d, s, r : built = Part(p, d, s, r)
  BY <1>5, <1>6
<1> QED
  BY <1>2, <1>3, <1>7, BuiltNotNull

\* Names are not empty.
LEMMA NamesNotEmpty ==
  ASSUME tokens \in Programs
  PROVE  "" \notin P!Names({"ID", "WAIN"})
BY NamesAssumption DEF P!Names

\* A step of the parser over a final chart that ends with a procedure.
LEMMA ParserNextNotNull ==
  ASSUME tokens \in Programs, ChartOK, Handed, P!TypeOK, Handing, EndsWithProcedure, NotNull,
         P!Begin \/ P!Parse
  PROVE  NotNull'
<1>1. finalChart' = finalChart /\ elemIdx \in 0 .. Len(finalChart) /\ Len(finalChart) \in Nat
  BY ParserTypes DEF Handing, ChartOK
<1>2. CASE P!Begin \/ P!SymbolsDone
  BY <1>1, <1>2, StaysWhole DEF P!Begin, P!SymbolsDone, NotNull
<1>3. CASE P!SymbolProcedure \/ P!SymbolDcls \/ P!SymbolWainParams \/ P!SymbolParams \/ P!SymbolSkip
  <2>1. proc' = proc /\ phase' \in {"symbols", "error"} /\ procedures' = procedures
    BY <1>3 DEF P!SymbolProcedure, P!SymbolDcls, P!SymbolWainParams, P!SymbolParams, P!SymbolSkip,
       P!At, P!Stop
  <2> QED
    BY <2>1, StaysWhole DEF NotNull
<1>4. CASE P!BuildProcedure
  <2> DEFINE name == P!ValueAt(elemIdx, 1)
  <2>1. /\ elemIdx > 0 /\ P!Sym(elemIdx) \in P!ProcedureSyms /\ phase' = phase /\ phase = "build"
        /\ proc' = [P!NoProcedure EXCEPT !.name = name]
        /\ IF proc # P!NoProcedure THEN P!AddProcedure ELSE procedures' = procedures
    BY <1>4 DEF P!BuildProcedure, P!At
  <2>2. name # ""
    BY <2>1, AtElement, ProcedureNamed, NamesNotEmpty
  <2> HIDE DEF name
  <2>3. proc' = [name |-> name, params |-> << >>, dcls |-> << >>, stmts |-> << >>, ret |-> << >>]
    BY <2>1 DEF P!NoProcedure
  <2>4. proc'.name # ""
    BY <2>2, <2>3
  <2>5. ListedWhole'
    BY <2>1, AddsWhole, StaysWhole DEF NotNull
  <2> QED
    BY <2>1, <2>3, <2>4, <2>5 DEF NotNull
<1>5. CASE P!NullProcedure
  <2>1. phase = "build" /\ elemIdx > 0 /\ P!NullDeref
    BY <1>5 DEF P!NullProcedure
  <2>2. proc = P!NoProcedure /\ P!Sym(elemIdx) \notin P!ProcedureSyms
    BY <2>1 DEF P!NullDeref, P!ProcedureSyms
  <2> QED
    BY <2>1, <2>2, NamedOtherwise
<1>6. CASE P!BuildReturn \/ P!BuildStatements \/ P!BuildDcls \/ P!BuildWainParams \/ P!BuildParams
  BY <1>6, BuildingNotNull
<1>7. CASE P!BuildSkip
  <2>1. /\ phase = "build" /\ elemIdx > 0 /\ P!Sym(elemIdx) \notin P!ProcedureSyms
        /\ phase' = phase /\ proc' = proc /\ procedures' = procedures
    BY <1>7 DEF P!BuildSkip
  <2>2. proc.name # ""
    BY <2>1, NamedOtherwise
  <2> QED
    BY <2>1, <2>2, StaysWhole DEF NotNull
<1>8. CASE P!BuildDone
  <2>1. /\ phase = "build" /\ elemIdx = 0 /\ P!AddProcedure
        /\ phase' = "parsed" /\ proc' = proc
    BY <1>8 DEF P!BuildDone
  <2>2. Len(finalChart) # 0
    BY DEF EndsWithProcedure, ChartOK
  <2>3. proc # P!NoProcedure
    BY <2>1, <2>2, NamedWhole DEF NotNull
  <2>4. ListedWhole'
    BY <2>1, <2>3, AddsWhole DEF NotNull
  <2> QED
    BY <2>1, <2>4 DEF NotNull
<1> QED
  BY <1>2, <1>3, <1>4, <1>5, <1>6, <1>7, <1>8 DEF P!Parse

-----------------------------------------------------------------------------
(* The front end.                                                          *)

\* What the proofs about the recogniser and its final chart have shown.
RecogniserInv ==
  IInv /\ Complete /\ Sound /\ Shapes /\ ScannedFirst /\ LastScanned /\ Walked /\ Populating

\* The parser waits for the recogniser, which hands over a chart that can be
\* read as it is read, and which ends with a procedure where the braces close.
FrontInv ==
  /\ tokens \in Programs
  /\ RecogniserInv
  /\ pc = "accepted" => Handed /\ (Closed => EndsWithProcedure /\ NotNull)
  /\ pc # "accepted" => P!ParserInit
  /\ P!TypeOK

\* A final chart that is done can be read.
LEMMA PopulatedHanded ==
  ASSUME RecogniserInv, Populated
  PROVE  Handed
<1>1. IInv /\ Shapes /\ ScannedFirst /\ Populating
  BY DEF RecogniserInv
<1>2. Listing(finalChart, KeptPlaces)
  BY <1>1, AllKept
<1> SUFFICES ASSUME NEW n \in DOMAIN finalChart
             PROVE  /\ BeginsWithItsTokens(finalChart[n])
                    /\ Lhs(finalChart[n]) = "dcl" => TypeBefore(n) /\ IdAfterType(n)
                    /\ Lhs(finalChart[n]) = "dcls" /\ Rhs(finalChart[n]) # << >> =>
                         InitialValueRead(n)
  BY DEF Handed
<1>3. BeginsWithItsTokens(finalChart[n])
  BY <1>1, <1>2, FinalFact, BeginsWithLiterals
<1>4. ASSUME Lhs(finalChart[n]) = "dcl"
      PROVE  TypeBefore(n) /\ IdAfterType(n)
  <2>1. IdAfterType(n)
    BY <1>1, <1>2, <1>4, IdEndsDcl
  <2>2. TypeBefore(n)
    BY <1>1, <1>2, <1>4, TypeJustBefore DEF TypeBefore
  <2> QED
    BY <2>1, <2>2
<1>5. Lhs(finalChart[n]) = "dcls" /\ Rhs(finalChart[n]) # << >> => InitialValueRead(n)
  BY <1>1, <1>2, ValueOfDcls
<1> QED
  BY <1>3, <1>4, <1>5

\* What is handed over stays as it is.
LEMMA HandedStays ==
  ASSUME Handed, Handing
  PROVE  Handed'
<1>1. \A n : InitialValueRead(n)' <=> InitialValueRead(n)
  BY DEF Handing, InitialValueRead, DclBelow, ReadAsValue, IsToken, Lhs, Rhs
<1> QED
  BY <1>1 DEF Handed, Handing, BeginsWithItsTokens, IsToken, TypeBefore, IdAfterType, Lhs, Rhs

\* The chart has the type that the lemmas about the parser ask for.
LEMMA ChartTyped ==
  ASSUME RecogniserInv
  PROVE  ChartOK /\ Len(finalChart) \in Nat
BY DEF RecogniserInv, IInv, TypeOK, ChartOK

\* The recogniser keeps its invariant; the parser does not touch its state.
LEMMA InitRecogniserInv == Init => RecogniserInv
BY InitInv, InitComplete, InitSound, InitShapes, InitOrder, InitLast, InitWalked, InitPopulating
   DEF RecogniserInv

\* As above, for a step.
LEMMA NextRecogniserInv == RecogniserInv /\ [Next]_vars => RecogniserInv'
BY NextInv, NextComplete, NextSound, NextShapes, NextOrder, NextLast, NextWalked, NextPopulating
   DEF RecogniserInv

\* The parser's first state has its types, whatever the final chart.
LEMMA InitTyped ==
  ASSUME Len(finalChart) \in Nat, P!ParserInit
  PROVE  P!TypeOK
<1>1. /\ phase = "idle" /\ elemIdx = 0 /\ currProcedureName = "" /\ procedureNames = << >>
      /\ procedureArgsNum = << >> /\ dclsMap = << >>
  BY DEF P!ParserInit
<1>2. DOMAIN << >> = {}
  OBVIOUS
<1>3. << >> \in Seq({})
  OBVIOUS
<1>4. \A k \in Nat : 0 \in 0 .. k
  OBVIOUS
<1>5. elemIdx \in 0 .. Len(finalChart)
  BY <1>1, <1>4, Zenon
<1> QED
  BY <1>1, <1>2, <1>3, <1>5 DEF P!TypeOK, P!ProcedureName

\* The invariant holds at first.
LEMMA InitFront == FrontInit => FrontInv
<1> SUFFICES ASSUME Init, P!ParserInit PROVE FrontInv
  BY DEF FrontInit
<1>1. RecogniserInv
  BY InitRecogniserInv
<1>2. P!TypeOK
  BY <1>1, ChartTyped, InitTyped
<1>3. pc # "accepted" /\ tokens \in Programs
  BY DEF Init
<1> QED
  BY <1>1, <1>2, <1>3 DEF FrontInv

\* Every step keeps it.
LEMMA NextFront == FrontInv /\ [FrontNext]_frontVars => FrontInv'
<1> SUFFICES ASSUME FrontInv, [FrontNext]_frontVars PROVE FrontInv'
  OBVIOUS
<1>1. /\ RecogniserInv /\ P!TypeOK /\ tokens \in Programs
      /\ pc = "accepted" => Handed /\ (Closed => EndsWithProcedure /\ NotNull)
      /\ pc # "accepted" => P!ParserInit
  BY DEF FrontInv
<1>0. tokens' = tokens
  <2>1. [Next]_vars
    BY DEF FrontNext, Recognise, Parse, FrontTerminated, frontVars, Next
  <2> QED
    BY <1>1, <2>1, StepFollows DEF RecogniserInv
<1>2. CASE Recognise
  <2>1. Step /\ UNCHANGED parseVars
    BY <1>2 DEF Recognise
  <2>2. RecogniserInv'
    BY <1>1, <2>1, NextRecogniserInv DEF Next
  <2>3. pc # "accepted" /\ (pc' = "accepted" => PopulateDone)
    BY <2>1 DEF Step, BeginList, InvalidToken, EndList, CallCompleter, CallScanner, CallPredictor,
       PredictRule, PredictorReturns, ScanElem, ScannerReturns, CompleteElem, CompleterNext,
       CompleterReturns, Accept, InvalidCode, PopulateElem, PopulateNextList, PopulateDone
  <2>4. P!ParserInit'
    BY <1>1, <2>1, <2>3 DEF parseVars, P!ParserInit, P!NoProcedure
  <2>5. Len(finalChart') \in Nat
    BY <2>2 DEF RecogniserInv, IInv, TypeOK
  <2>6. P!TypeOK'
    <3>1. /\ phase' = "idle" /\ elemIdx' = 0 /\ currProcedureName' = "" /\ procedureNames' = << >>
          /\ procedureArgsNum' = << >> /\ dclsMap' = << >>
      BY <2>4 DEF P!ParserInit
    <3>2. DOMAIN << >> = {}
      OBVIOUS
    <3>3. << >> \in Seq({})
      OBVIOUS
    <3>4. \A k \in Nat : 0 \in 0 .. k
      OBVIOUS
    <3>5. elemIdx' \in 0 .. Len(finalChart')
      BY <2>5, <3>1, <3>4, Zenon
    <3> QED
      BY <3>1, <3>2, <3>3, <3>5 DEF P!TypeOK, P!ProcedureName
  <2>7. ASSUME pc' = "accepted" PROVE Handed'
    <3>1. Populated /\ Handing
      BY <2>3, <2>7 DEF PopulateDone, Populated, Handing
    <3> QED
      BY <1>1, <3>1, PopulatedHanded, HandedStays
  <2>8. ASSUME pc' = "accepted", Closed' PROVE EndsWithProcedure' /\ NotNull'
    <3>1. Populated /\ Handing /\ Closed
      BY <2>3, <2>8 DEF PopulateDone, Populated, Handing, Closed
    <3>2. EndsWithProcedure
      BY <1>1, <3>1, LastIsProcedure DEF RecogniserInv
    <3>3. EndsWithProcedure'
      BY <3>1, <3>2 DEF EndsWithProcedure, Handing, Lhs
    <3>4. ListedWhole'
      <4>1. procedures = << >> /\ procedures' = procedures
        BY <1>1, <2>1, <2>3 DEF P!ParserInit, parseVars
      <4> QED
        BY <4>1, EmptyWhole, StaysWhole
    <3> QED
      BY <2>4, <3>3, <3>4 DEF P!ParserInit, P!NoProcedure, NotNull
  <2> QED
    BY <1>0, <1>1, <2>2, <2>4, <2>6, <2>7, <2>8 DEF FrontInv
<1>3. CASE UNCHANGED vars /\ ((pc = "accepted" /\ (P!Begin \/ P!Parse)) \/ UNCHANGED parseVars)
  <2>1. RecogniserInv'
    BY <1>1, <1>3, NextRecogniserInv
  <2>2. pc' = pc /\ Handing
    BY <1>3 DEF vars, Handing
  <2>3. /\ pc' = "accepted" => Handed'
        /\ pc' = "accepted" /\ Closed' => EndsWithProcedure' /\ EndsWithProcedure /\ NotNull
    BY <1>1, <2>2, HandedStays DEF Handing, Closed, EndsWithProcedure, Lhs
  <2>4. CASE pc = "accepted" /\ (P!Begin \/ P!Parse)
    <3>1. P!TypeOK'
      BY <1>1, <2>2, <2>4, ChartTyped, ParserNextTyped
    <3>2. Closed' => NotNull'
      BY <1>1, <2>2, <2>3, <2>4, ChartTyped, ParserNextNotNull
    <3> QED
      BY <1>0, <1>1, <2>1, <2>2, <2>3, <2>4, <3>1, <3>2 DEF FrontInv
  <2>5. CASE UNCHANGED parseVars
    <3>1. pc # "accepted" => P!ParserInit'
      BY <1>1, <2>5 DEF parseVars, P!ParserInit, P!NoProcedure
    <3>2. P!TypeOK'
      <4>1. /\ phase' = phase /\ elemIdx' = elemIdx /\ currProcedureName' = currProcedureName
            /\ UNCHANGED << procedureNames, procedureArgsNum, dclsMap >>
        BY <2>5 DEF parseVars
      <4>2. /\ phase' \in {"idle", "symbols", "build", "parsed", "error", "crash"}
            /\ elemIdx' \in 0 .. Len(finalChart) /\ currProcedureName' \in P!ProcedureName
        BY <1>1, <4>1, ParserTypes
      <4> QED
        BY <1>1, <2>2, <4>1, <4>2, ChartTyped, MovesTyped
    <3>3. Closed' /\ pc' = "accepted" => NotNull'
      BY <2>2, <2>3, <2>5, StaysWhole DEF parseVars, Handing, NotNull
    <3> QED
      BY <1>0, <1>1, <2>1, <2>2, <2>3, <3>1, <3>2, <3>3 DEF FrontInv
  <2> QED
    BY <1>3, <2>4, <2>5
<1> QED
  BY <1>2, <1>3 DEF FrontNext, Parse, FrontTerminated, frontVars

\* The invariant, in every state of the front end.
LEMMA FrontSpecInv == FrontSpec => []FrontInv
BY InitFront, NextFront, PTL DEF FrontSpec

-----------------------------------------------------------------------------
(* The theorems.                                                           *)

\* For every grammar that meets the assumptions and every text, parse() works on
\* the types it is written for: _elemIdx is an index of the final chart, every
\* procedure of the list has a count, the names in the maps are names that
\* stand in the text, and every variable is an int or an int*.
THEOREM FrontTypes == FrontSpec => []FrontTypeOK
<1>1. FrontInv => FrontTypeOK
  BY DEF FrontInv, RecogniserInv, IInv, FrontTypeOK
<1> QED
  BY <1>1, FrontSpecInv, PTL

\* What FinalChartProofs shows of the recogniser, of the front end as a whole:
\* in the chart that is handed to the parser, which nobody changes afterwards,
\* only shadowed types are missing, a type is before each declaration, names
\* stand where they are looked for, and where an initial value is looked for
\* there is the value or, if it does not fit the type, the token next to it.
THEOREM ReadsWhatItMay == FrontSpec => [](DropsShadowedTypes /\ TypeBeforeDcl /\ TokensAtOffsets)
<1>1. FrontInv => DropsShadowedTypes /\ TypeBeforeDcl /\ TokensAtOffsets
  <2> SUFFICES ASSUME FrontInv, Populated
               PROVE  /\ Lists(finalChart, KeptPlaces)
                      /\ Handed
    BY DEF DropsShadowedTypes, TypeBeforeDcl, TokensAtOffsets, Handed
  <2>1. RecogniserInv /\ IInv /\ Populating
    BY DEF FrontInv, RecogniserInv
  <2>2. Lists(finalChart, KeptPlaces)
    BY <2>1, AllKept DEF Listing
  <2> QED
    BY <2>1, <2>2, PopulatedHanded
<1> QED
  BY <1>1, FrontSpecInv, PTL

\* For every grammar that meets the assumptions and every final chart, whatever
\* the two loops of parse() call throws or moves _elemIdx towards the front: the
\* functions that call one another all return.
THEOREM Moves == FrontSpec => []MovesOn
<1>1. FrontInv => MovesOn
  <2> SUFFICES ASSUME FrontInv, elemIdx > 0
               PROVE  Earlier(P!GoesOnFrom, elemIdx)
    BY DEF MovesOn, P!MovesOn, Earlier
  <2>1. ChartOK /\ P!TypeOK
    BY ChartTyped DEF FrontInv
  <2>2. elemIdx \in P!Indices /\ elemIdx \in Nat
    <3>1. elemIdx \in 0 .. Len(finalChart) /\ Len(finalChart) \in Nat
      BY <2>1, ParserTypes DEF ChartOK
    <3> QED
      BY <2>1, <3>1, AtElement
  <2>3. /\ Earlier(P!parseDclsLoop[elemIdx].at, elemIdx)
        /\ Earlier(P!parseParamsLoop[elemIdx].at, elemIdx)
        /\ Earlier(P!ParseWainParams(elemIdx).at, elemIdx)
    BY <2>1, <2>2, LoopsCollect, WainParamsCollect DEF Collects
  <2>4. /\ Earlier(P!parse[<< "expr", elemIdx >>].at, elemIdx)
        /\ Earlier(P!parse[<< "statements", elemIdx >>].at, elemIdx)
    BY <2>1, <2>2, ParsedEarlier
  <2>5. Earlier(elemIdx - 1, elemIdx)
    BY <2>2 DEF Earlier
  <2>6. P!GoesOnFrom \in {P!parseDclsLoop[elemIdx].at, P!parseParamsLoop[elemIdx].at,
                          P!ParseWainParams(elemIdx).at, P!parse[<< "expr", elemIdx >>].at,
                          P!parse[<< "statements", elemIdx >>].at, elemIdx - 1}
    BY DEF P!GoesOnFrom
  <2> QED
    BY <2>3, <2>4, <2>5, <2>6
<1> QED
  BY <1>1, FrontSpecInv, PTL

\* The invariant leaves no null procedure where the braces close.
LEMMA NoNullUsed ==
  ASSUME FrontInv, Closed
  PROVE  ~ UsesNull
<1>1. CASE pc = "accepted"
  <2>1. NotNull
    BY <1>1 DEF FrontInv
  <2>2. PICK whole : procedures \in Seq(whole) /\ P!NoProcedure \notin whole
    BY <2>1 DEF NotNull, ListedWhole
  <2>3. \A n \in DOMAIN procedures : procedures[n] # P!NoProcedure
    BY <2>2
  <2>4. phase # "crash"
    BY <2>1 DEF NotNull
  <2> QED
    BY <2>3, <2>4 DEF UsesNull
<1>2. CASE pc # "accepted"
  BY <1>2 DEF FrontInv, P!ParserInit, UsesNull
<1> QED
  BY <1>1, <1>2

\* For every grammar that meets the assumptions and every text, a text whose
\* braces close never makes parse() or main() use a procedure that is null.
THEOREM CrashesAreCutShort == FrontSpec => []CrashesOnlyCutShort
<1>1. FrontInv => CrashesOnlyCutShort
  <2> SUFFICES ASSUME FrontInv, UsesNull, Closed PROVE FALSE
    BY DEF CrashesOnlyCutShort
  <2> QED
    BY NoNullUsed
<1> QED
  BY <1>1, FrontSpecInv, PTL

\* As to programs: what the grammar derives never makes parse() or main() use a
\* procedure that is null, and recognise() never rejects it.
THEOREM ProgramsAreSafe ==
  FrontSpec => [](IsSentence(tokens) => pc # "rejected" /\ ~ UsesNull)
<1>1. FrontInv => (IsSentence(tokens) => pc # "rejected" /\ ~ UsesNull)
  <2> SUFFICES ASSUME FrontInv, IsSentence(tokens) PROVE pc # "rejected" /\ ~ UsesNull
    OBVIOUS
  <2>1. IInv /\ Complete /\ tokens \in Seq(Token)
    BY DEF FrontInv, RecogniserInv, IInv, TypeOK
  <2>2. pc # "rejected"
    BY <2>1, RejectedRight
  <2>3. Closed
    BY <2>1, SentenceCloses
  <2> QED
    BY <2>2, <2>3, NoNullUsed
<1> QED
  BY <1>1, FrontSpecInv, PTL
=============================================================================
