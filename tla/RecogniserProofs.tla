-------------------------- MODULE RecogniserProofs --------------------------
(***************************************************************************)
(* Theorems about the Recogniser for every grammar and every input.        *)
(***************************************************************************)
EXTENDS Recogniser, CFGReference, Induction, TLAPS

\* Elements that may be in chart[k] (the code's list k - 1).
ElemsAt(k) == { el \in Elem : el.start < k /\ el.dot <= Len(Rhs(el)) }

\* A chart whose lists hold such elements, each once.
GoodChart(ch) ==
  /\ ch \in Seq(Seq(Elem))
  /\ \A k \in DOMAIN ch : \A n \in DOMAIN ch[k] : ch[k][n] \in ElemsAt(k)
  /\ \A k \in DOMAIN ch : \A m, n \in DOMAIN ch[k] : ch[k][m] = ch[k][n] => m = n

\* The lists of ch are still there in grown, possibly longer.
Extends(grown, ch) ==
  /\ Len(ch) <= Len(grown)
  /\ \A k \in DOMAIN ch :
       /\ Len(ch[k]) <= Len(grown[k])
       /\ \A n \in DOMAIN ch[k] : grown[k][n] = ch[k][n]

\* Replacing one entry of a sequence.
LEMMA ExceptSeq ==
  ASSUME NEW S, NEW s \in Seq(S), NEW n \in 1 .. Len(s), NEW v \in S
  PROVE  /\ [s EXCEPT ![n] = v] \in Seq(S)
         /\ Len([s EXCEPT ![n] = v]) = Len(s)
         /\ [s EXCEPT ![n] = v][n] = v
         /\ \A m \in 1 .. Len(s) : m # n => [s EXCEPT ![n] = v][m] = s[m]
  OBVIOUS

\* Appending to a sequence.
LEMMA AppendSeq ==
  ASSUME NEW S, NEW s \in Seq(S), NEW v \in S
  PROVE  /\ Append(s, v) \in Seq(S)
         /\ Len(Append(s, v)) = Len(s) + 1
         /\ Append(s, v)[Len(s) + 1] = v
         /\ \A m \in 1 .. Len(s) : Append(s, v)[m] = s[m]
  OBVIOUS

\* What addToChart() does to the chart: one list is appended to, or a new one
\* started, unless the element is already there.
LEMMA AddToChartEffect ==
  ASSUME NEW ch \in Seq(Seq(Elem)), NEW el \in Elem, NEW k \in Nat, k <= Len(ch)
  PROVE  /\ AddToChart(ch, el, k) \in Seq(Seq(Elem))
         /\ Len(AddToChart(ch, el, k)) = IF k = Len(ch) THEN k + 1 ELSE Len(ch)
         /\ \A m \in 1 .. Len(ch) : m # k + 1 => AddToChart(ch, el, k)[m] = ch[m]
         /\ k < Len(ch) => \/ /\ ExistsInStateList(el, ch[k + 1])
                              /\ AddToChart(ch, el, k)[k + 1] = ch[k + 1]
                           \/ /\ ~ ExistsInStateList(el, ch[k + 1])
                              /\ AddToChart(ch, el, k)[k + 1] = Append(ch[k + 1], el)
         /\ k = Len(ch) => AddToChart(ch, el, k)[k + 1] = << el >>
<1>1. CASE k < Len(ch)
  <2>1. k + 1 \in 1 .. Len(ch) /\ ch[k + 1] \in Seq(Elem)
    BY <1>1
  <2>2. CASE ExistsInStateList(el, ch[k + 1])
    <3>1. AddToChart(ch, el, k) = ch
      BY <1>1, <2>2 DEF AddToChart
    <3> QED
      BY <1>1, <2>1, <2>2, <3>1
  <2>3. CASE ~ ExistsInStateList(el, ch[k + 1])
    <3> DEFINE v == Append(ch[k + 1], el)
    <3>0. k # Len(ch)
      BY <1>1
    <3>1. AddToChart(ch, el, k) = [ch EXCEPT ![k + 1] = v]
      BY <3>0, <2>3, Zenon DEF AddToChart
    <3>2. v \in Seq(Elem)
      BY <2>1
    <3>3. /\ [ch EXCEPT ![k + 1] = v] \in Seq(Seq(Elem))
          /\ Len([ch EXCEPT ![k + 1] = v]) = Len(ch)
          /\ [ch EXCEPT ![k + 1] = v][k + 1] = v
          /\ \A m \in 1 .. Len(ch) : m # k + 1 => [ch EXCEPT ![k + 1] = v][m] = ch[m]
      <4> HIDE DEF v
      <4> QED
        BY <2>1, <3>2, ExceptSeq
    <3> QED
      BY <1>1, <2>3, <3>0, <3>1, <3>3
  <2> QED
    BY <2>2, <2>3
<1>2. CASE k = Len(ch)
  <2> DEFINE grown == Append(ch, << >>)
  <2>1. /\ grown \in Seq(Seq(Elem))
        /\ Len(grown) = k + 1
        /\ grown[k + 1] = << >>
        /\ \A m \in 1 .. Len(ch) : grown[m] = ch[m]
    BY <1>2, AppendSeq
  <2>2. AddToChart(ch, el, k) = [grown EXCEPT ![k + 1] = Append(@, el)]
    BY <1>2, <2>1 DEF AddToChart, ExistsInStateList
  <2> HIDE DEF grown
  <2>3. Append(grown[k + 1], el) = << el >> /\ << el >> \in Seq(Elem)
    BY <2>1
  <2>4. AddToChart(ch, el, k) = [grown EXCEPT ![k + 1] = << el >>]
    BY <2>2, <2>3
  <2>5. k + 1 \in 1 .. Len(grown)
    BY <2>1
  <2>6. /\ [grown EXCEPT ![k + 1] = << el >>] \in Seq(Seq(Elem))
        /\ Len([grown EXCEPT ![k + 1] = << el >>]) = Len(grown)
        /\ [grown EXCEPT ![k + 1] = << el >>][k + 1] = << el >>
        /\ \A m \in 1 .. Len(grown) : m # k + 1 => [grown EXCEPT ![k + 1] = << el >>][m] = grown[m]
    BY <2>1, <2>3, <2>5, ExceptSeq
  <2> QED
    BY <1>2, <2>1, <2>4, <2>6
<1> QED
  BY <1>1, <1>2

\* addToChart() keeps a chart good when the element belongs in the list, and
\* nothing that was in the chart moves.
LEMMA AddToChartGood ==
  ASSUME NEW ch, GoodChart(ch), NEW k \in Nat, k <= Len(ch), NEW el \in ElemsAt(k + 1)
  PROVE  GoodChart(AddToChart(ch, el, k)) /\ Extends(AddToChart(ch, el, k), ch)
<1> DEFINE new == AddToChart(ch, el, k)
<1>1. ch \in Seq(Seq(Elem)) /\ el \in Elem
  BY DEF GoodChart, ElemsAt
<1>2. /\ new \in Seq(Seq(Elem))
      /\ Len(new) = IF k = Len(ch) THEN k + 1 ELSE Len(ch)
      /\ \A m \in 1 .. Len(ch) : m # k + 1 => new[m] = ch[m]
      /\ k < Len(ch) => \/ new[k + 1] = ch[k + 1]
                        \/ /\ ~ ExistsInStateList(el, ch[k + 1])
                           /\ new[k + 1] = Append(ch[k + 1], el)
      /\ k = Len(ch) => new[k + 1] = << el >>
  BY <1>1, AddToChartEffect
<1> HIDE DEF new
<1>3. /\ \A m \in DOMAIN ch : \A n \in DOMAIN ch[m] : ch[m][n] \in ElemsAt(m)
      /\ \A m \in DOMAIN ch : \A n, o \in DOMAIN ch[m] : ch[m][n] = ch[m][o] => n = o
  BY DEF GoodChart
<1>4. ASSUME NEW m \in 1 .. Len(new)
      PROVE  /\ \A n \in DOMAIN new[m] : new[m][n] \in ElemsAt(m)
             /\ \A n, o \in DOMAIN new[m] : new[m][n] = new[m][o] => n = o
  <2>1. CASE m \in DOMAIN ch /\ new[m] = ch[m]
    BY <1>3, <2>1, Zenon
  <2>2. CASE m = k + 1 /\ k = Len(ch)
    BY <1>2, <2>2
  <2>3. CASE /\ m = k + 1 /\ k < Len(ch)
             /\ ~ ExistsInStateList(el, ch[k + 1])
             /\ new[k + 1] = Append(ch[k + 1], el)
    <3>1. k + 1 \in DOMAIN ch /\ ch[k + 1] \in Seq(Elem)
      BY <1>1, <2>3
    <3> DEFINE list == ch[k + 1]
    <3>2. /\ \A n \in DOMAIN list : list[n] \in ElemsAt(k + 1) /\ list[n] # el
          /\ \A n, o \in DOMAIN list : list[n] = list[o] => n = o
      BY <1>3, <2>3, <3>1, Zenon DEF ExistsInStateList
    <3>3. /\ DOMAIN new[m] = 1 .. Len(list) + 1
          /\ DOMAIN list = 1 .. Len(list)
          /\ new[m][Len(list) + 1] = el
          /\ \A n \in 1 .. Len(list) : new[m][n] = list[n]
      BY <1>1, <2>3, <3>1, AppendSeq
    <3> HIDE DEF list
    <3>4. Len(list) \in Nat
      BY <3>1 DEF list
    <3> QED
      BY <2>3, <3>2, <3>3, <3>4
  <2>4. Len(ch) \in Nat
    BY <1>1
  <2>5. CASE m # k + 1
    <3>1. m \in 1 .. Len(ch)
      BY <1>2, <1>4, <2>4, <2>5
    <3> QED
      BY <1>1, <1>2, <2>1, <2>5, <3>1
  <2>6. CASE m = k + 1 /\ k < Len(ch)
    <3>1. m \in DOMAIN ch
      BY <1>1, <2>6
    <3>2. CASE new[k + 1] = ch[k + 1]
      BY <2>1, <2>6, <3>1, <3>2
    <3> QED
      BY <1>2, <2>3, <2>6, <3>2
  <2>7. CASE m = k + 1 /\ k = Len(ch)
    BY <2>2, <2>7
  <2> QED
    BY <2>4, <2>5, <2>6, <2>7
<1>5. GoodChart(new)
  <2>1. DOMAIN new = 1 .. Len(new)
    BY <1>2
  <2> QED
    BY <1>2, <1>4, <2>1, Zenon DEF GoodChart
<1>6. Extends(new, ch)
  <2>1. Len(ch) <= Len(new)
    BY <1>1, <1>2
  <2>2. ASSUME NEW m \in DOMAIN ch
        PROVE  /\ Len(ch[m]) <= Len(new[m])
               /\ \A n \in DOMAIN ch[m] : new[m][n] = ch[m][n]
    <3>1. ch[m] \in Seq(Elem) /\ m \in 1 .. Len(ch)
      BY <1>1
    <3>2. CASE new[m] = ch[m]
      BY <3>1, <3>2
    <3>3. CASE new[m] = Append(ch[m], el)
      BY <1>1, <3>1, <3>3, AppendSeq
    <3>4. CASE m # k + 1
      BY <1>2, <3>1, <3>2, <3>4
    <3>5. CASE m = k + 1
      <4>1. k < Len(ch)
        BY <1>1, <3>1, <3>5
      <4>2. new[m] = ch[m] \/ new[m] = Append(ch[m], el)
        BY <1>2, <3>5, <4>1
      <4> QED
        BY <3>2, <3>3, <4>2
    <3> QED
      BY <3>4, <3>5
  <2> QED
    BY <2>1, <2>2 DEF Extends
<1> QED
  BY <1>5, <1>6 DEF new

-----------------------------------------------------------------------------
(* The inductive invariant.                                                *)

\* What the handlers know of the element they were called for.
HandlerInv ==
  /\ pc = "predictor" => ~ IsComplete(El)
  /\ pc = "completer" => c # 0

IInv == TypeOK /\ ChartInBounds /\ NoDuplicates /\ HandlerInv

\* IInv gives what AddToChartGood asks of a chart.
LEMMA InvGoodChart ==
  ASSUME TypeOK, ChartInBounds, NoDuplicates
  PROVE  GoodChart(chart)
<1>1. chart \in Seq(Seq(Elem))
  BY DEF TypeOK
<1>2. ASSUME NEW k \in DOMAIN chart, NEW n \in DOMAIN chart[k]
      PROVE  chart[k][n] \in ElemsAt(k)
  <2>1. chart[k] \in Seq(Elem)
    BY <1>1, <1>2
  <2>2. chart[k][n] \in Elem
    BY <1>2, <2>1
  <2>3. chart[k][n].start < k /\ chart[k][n].dot <= Len(Rhs(chart[k][n]))
    BY <1>2, Zenon DEF ChartInBounds
  <2> QED
    BY <2>2, <2>3 DEF ElemsAt
<1> QED
  BY <1>1, <1>2, Zenon DEF GoodChart, NoDuplicates

\* A rule of the grammar.
LEMMA RuleOf ==
  ASSUME NEW r \in 1 .. Len(CFG)
  PROVE  CFG[r].lhs \in NonTerminals /\ CFG[r].rhs \in Seq(Symbols)
<1>1. CFG[r] \in Rule
  BY GrammarAssumption
<1> QED
  BY <1>1 DEF Rule

\* The fields of an element.
LEMMA ElemFields ==
  ASSUME NEW k \in Nat, NEW el \in ElemsAt(k)
  PROVE  /\ el \in Elem
         /\ el.rule \in 1 .. Len(CFG) /\ el.start \in Nat /\ el.dot \in Nat
         /\ el.start < k
         /\ Rhs(el) \in Seq(Symbols)
         /\ el.dot <= Len(Rhs(el))
<1>1. el \in Elem /\ el.start < k /\ el.dot <= Len(Rhs(el))
  BY DEF ElemsAt
<1>2. el.rule \in 1 .. Len(CFG) /\ el.start \in Nat /\ el.dot \in Nat
  BY <1>1 DEF Elem
<1>3. Rhs(el) \in Seq(Symbols)
  BY <1>2, RuleOf DEF Rhs
<1> QED
  BY <1>1, <1>2, <1>3

\* Moving the dot of an incomplete element leaves it where it belongs, and in
\* the list after as well.
LEMMA AdvanceElem ==
  ASSUME NEW k \in Nat, NEW el \in ElemsAt(k), ~ IsComplete(el)
  PROVE  Advance(el) \in ElemsAt(k) /\ Advance(el) \in ElemsAt(k + 1)
<1>1. /\ el \in Elem /\ el.start \in Nat /\ el.start < k
      /\ Rhs(el) \in Seq(Symbols) /\ el.dot \in Nat /\ el.dot < Len(Rhs(el))
  <2>1. /\ el \in Elem /\ el.start \in Nat /\ el.start < k
        /\ Rhs(el) \in Seq(Symbols) /\ el.dot \in Nat /\ el.dot <= Len(Rhs(el))
    BY ElemFields
  <2>2. el.dot # Len(Rhs(el))
    BY DEF IsComplete
  <2> QED
    BY <2>1, <2>2
<1>2. /\ Advance(el) \in Elem
      /\ Advance(el).rule = el.rule
      /\ Advance(el).start = el.start
      /\ Advance(el).dot = el.dot + 1
  BY <1>1 DEF Advance, Elem
<1>3. Rhs(Advance(el)) = Rhs(el)
  BY <1>2 DEF Rhs
<1> QED
  BY <1>1, <1>2, <1>3 DEF ElemsAt

\* A predicted element belongs in the list it is predicted in.
LEMMA PredictedElem ==
  ASSUME NEW k \in Nat, NEW r \in 1 .. Len(CFG)
  PROVE  [rule |-> r, start |-> k, dot |-> 0] \in ElemsAt(k + 1)
<1> DEFINE el == [rule |-> r, start |-> k, dot |-> 0]
<1>1. el \in Elem /\ el.start = k /\ el.dot = 0 /\ el.rule = r
  BY DEF Elem
<1>2. Rhs(el) \in Seq(Symbols)
  BY <1>1, RuleOf DEF Rhs
<1> QED
  BY <1>1, <1>2 DEF ElemsAt

\* What the loops of a handler rely on.
LEMMA InHandler ==
  ASSUME IInv, pc \in Handlers
  PROVE  /\ GoodChart(chart)
         /\ i \in Nat /\ i < Len(tokens) /\ Len(chart) \in {i + 1, i + 2}
         /\ List(i) \in Seq(Elem)
         /\ j \in DOMAIN List(i)
         /\ \A n \in DOMAIN List(i) : List(i)[n] \in ElemsAt(i + 1)
<1>1. GoodChart(chart)
  BY InvGoodChart DEF IInv
<1>2. /\ i \in Nat /\ i < Len(tokens) /\ Len(chart) \in {i + 1, i + 2}
      /\ j \in DOMAIN List(i)
  BY DEF IInv, TypeOK, ChartInBounds, Walking
<1>3. chart \in Seq(Seq(Elem))
  BY <1>1 DEF GoodChart
<1>4. i + 1 \in DOMAIN chart
  BY <1>2, <1>3
<1> QED
  BY <1>1, <1>2, <1>3, <1>4 DEF GoodChart, List

\* A handler that has made the chart grow in one list, where it may.
LEMMA HandlerGrows ==
  ASSUME IInv, pc \in Handlers, UNCHANGED << tokens, pc, i, j, c, finalChart >>,
         x' \in Nat \ {0}, GoodChart(chart'), Extends(chart', chart),
         Len(chart') <= i + 2
  PROVE  IInv'
<1>1. /\ GoodChart(chart)
      /\ i \in Nat /\ i < Len(tokens) /\ Len(chart) \in {i + 1, i + 2}
      /\ List(i) \in Seq(Elem)
      /\ j \in DOMAIN List(i)
  BY InHandler
<1>2. chart \in Seq(Seq(Elem)) /\ chart' \in Seq(Seq(Elem))
  BY <1>1 DEF GoodChart
<1>3. i + 1 \in DOMAIN chart /\ i + 1 \in DOMAIN chart'
  BY <1>1, <1>2 DEF Extends
<1>4. List(i)' \in Seq(Elem) /\ j \in DOMAIN List(i)' /\ El' = El
  <2>1. List(i)' = chart'[i + 1] /\ List(i)' \in Seq(Elem)
    BY <1>2, <1>3 DEF List
  <2>2. Len(List(i)) <= Len(List(i)') /\ \A n \in DOMAIN List(i) : List(i)'[n] = List(i)[n]
    BY <1>3, <2>1 DEF Extends, List
  <2>3. El' = List(i)'[j]
    BY DEF El
  <2> QED
    BY <1>1, <2>1, <2>2, <2>3 DEF El
<1>5. TypeOK'
  BY <1>2 DEF IInv, TypeOK
<1>6. NoDuplicates'
  BY DEF GoodChart, NoDuplicates
<1>7. ChartInBounds'
  <2>1. Len(chart') \in {i + 1, i + 2} /\ tokens \in Seq(Token)
    BY <1>1, <1>2 DEF Extends, IInv, TypeOK
  <2>2. \A k \in DOMAIN chart' : \A n \in DOMAIN chart'[k] :
          chart'[k][n].start < k /\ chart'[k][n].dot <= Len(Rhs(chart'[k][n]))
    BY DEF GoodChart, ElemsAt
  <2>3. Len(chart') \in 1 .. (Len(tokens) + 1)
    BY <1>1, <2>1
  <2>4. pc # "lists"
    BY DEF Handlers
  <2> QED
    BY <1>1, <1>4, <2>1, <2>2, <2>3, <2>4 DEF ChartInBounds, Rhs
<1>8. HandlerInv'
  BY <1>4 DEF IInv, HandlerInv, IsComplete, Rhs
<1> QED
  BY <1>5, <1>6, <1>7, <1>8 DEF IInv

\* addToChart(el, k) in terms of whole charts: what HandlerGrows asks for, and
\* which lists stay as they were.
LEMMA AddToChartGrows ==
  ASSUME NEW ch, GoodChart(ch), NEW k \in Nat, k <= Len(ch), NEW el \in ElemsAt(k + 1)
  PROVE  /\ GoodChart(AddToChart(ch, el, k))
         /\ Extends(AddToChart(ch, el, k), ch)
         /\ Len(AddToChart(ch, el, k)) = IF k = Len(ch) THEN k + 1 ELSE Len(ch)
         /\ \A m \in 1 .. Len(ch) : m # k + 1 => AddToChart(ch, el, k)[m] = ch[m]
<1>1. ch \in Seq(Seq(Elem)) /\ el \in Elem
  BY DEF GoodChart, ElemsAt
<1> QED
  BY <1>1, AddToChartGood, AddToChartEffect

\* Growth is transitive.
LEMMA ExtendsTrans ==
  ASSUME NEW a \in Seq(Seq(Elem)), NEW b \in Seq(Seq(Elem)), NEW d \in Seq(Seq(Elem)),
         Extends(b, a), Extends(d, b)
  PROVE  Extends(d, a)
<1>1. Len(a) <= Len(b) /\ Len(b) <= Len(d) /\ Len(a) <= Len(d)
  BY DEF Extends
<1>2. ASSUME NEW k \in DOMAIN a
      PROVE  Len(a[k]) <= Len(d[k]) /\ \A n \in DOMAIN a[k] : d[k][n] = a[k][n]
  <2>1. k \in DOMAIN b /\ k \in DOMAIN d
    BY <1>1, <1>2
  <2>2. a[k] \in Seq(Elem) /\ b[k] \in Seq(Elem) /\ d[k] \in Seq(Elem)
    BY <1>2, <2>1
  <2>3. /\ Len(a[k]) <= Len(b[k]) /\ Len(b[k]) <= Len(d[k])
        /\ \A n \in DOMAIN a[k] : b[k][n] = a[k][n]
        /\ \A n \in DOMAIN b[k] : d[k][n] = b[k][n]
    BY <1>2, <2>1 DEF Extends
  <2>4. Len(a[k]) <= Len(d[k]) /\ DOMAIN a[k] \subseteq DOMAIN b[k]
    BY <2>2, <2>3
  <2> QED
    BY <2>3, <2>4
<1> QED
  BY <1>1, <1>2 DEF Extends

\* The effect of an iteration that adds to list k.
Grows(k) ==
  /\ GoodChart(chart')
  /\ Extends(chart', chart)
  /\ Len(chart') = IF k = Len(chart) THEN k + 1 ELSE Len(chart)
  /\ \A m \in 1 .. Len(chart) : m # k + 1 => chart'[m] = chart[m]

\* An iteration of predictor() adds to the list that is walked, and there only.
LEMMA PredictRuleGrows ==
  ASSUME IInv, PredictRule
  PROVE  Grows(i) /\ x' \in Nat \ {0}
<1>1. /\ GoodChart(chart)
      /\ i \in Nat /\ Len(chart) \in {i + 1, i + 2}
      /\ El \in ElemsAt(i + 1)
  BY InHandler DEF PredictRule, Handlers, El
<1>2. ~ IsComplete(El)
  BY DEF IInv, HandlerInv, PredictRule
<1>3. PICK r \in x .. Len(CFG) :
        /\ x' = r + 1
        /\ LET predicted == AddToChart(chart, [rule |-> r, start |-> i, dot |-> 0], i)
           IN  chart' = IF Nullable(NextSymbol(El))
                        THEN AddToChart(predicted, Advance(El), i)
                        ELSE predicted
  BY DEF PredictRule
<1>4. r \in 1 .. Len(CFG) /\ x' \in Nat \ {0}
  <2>1. x \in Nat \ {0} /\ Len(CFG) \in Nat
    BY GrammarAssumption DEF IInv, TypeOK
  <2> QED
    BY <1>3, <2>1
<1> DEFINE predicted == AddToChart(chart, [rule |-> r, start |-> i, dot |-> 0], i)
<1>5. /\ GoodChart(predicted)
      /\ Extends(predicted, chart)
      /\ Len(predicted) = Len(chart)
      /\ \A m \in 1 .. Len(chart) : m # i + 1 => predicted[m] = chart[m]
  <2>1. [rule |-> r, start |-> i, dot |-> 0] \in ElemsAt(i + 1)
    BY <1>1, <1>4, PredictedElem
  <2>2. i <= Len(chart) /\ i # Len(chart)
    BY <1>1
  <2> QED
    BY <1>1, <2>1, <2>2, AddToChartGrows
<1>6. chart' = IF Nullable(NextSymbol(El)) THEN AddToChart(predicted, Advance(El), i)
               ELSE predicted
  BY <1>3
<1> HIDE DEF predicted
<1>7. CASE Nullable(NextSymbol(El))
  <2>1. Advance(El) \in ElemsAt(i + 1)
    BY <1>1, <1>2, AdvanceElem
  <2>2. i <= Len(predicted) /\ i # Len(predicted)
    BY <1>1, <1>5
  <2>3. /\ GoodChart(chart')
        /\ Extends(chart', predicted)
        /\ Len(chart') = Len(predicted)
        /\ \A m \in 1 .. Len(predicted) : m # i + 1 => chart'[m] = predicted[m]
    BY <1>1, <1>5, <1>6, <1>7, <2>1, <2>2, AddToChartGrows
  <2>4. Extends(chart', chart)
    BY <1>1, <1>5, <2>3, ExtendsTrans DEF GoodChart
  <2> QED
    BY <1>1, <1>4, <1>5, <2>3, <2>4 DEF Grows
<1>8. CASE ~ Nullable(NextSymbol(El))
  BY <1>1, <1>4, <1>5, <1>6, <1>8 DEF Grows
<1> QED
  BY <1>7, <1>8

\* An iteration of scanner() adds to the list after the one that is walked.
LEMMA ScanElemGrows ==
  ASSUME IInv, ScanElem
  PROVE  Grows(i + 1) /\ x' \in Nat \ {0}
<1>1. /\ GoodChart(chart)
      /\ i \in Nat /\ Len(chart) \in {i + 1, i + 2}
      /\ List(i) \in Seq(Elem)
      /\ \A n \in DOMAIN List(i) : List(i)[n] \in ElemsAt(i + 1)
  BY InHandler DEF ScanElem, Handlers
<1>2. PICK n \in x .. Len(List(i)) :
        /\ Scans(n)
        /\ chart' = AddToChart(chart, Advance(List(i)[n]), i + 1)
        /\ x' = n + 1
  BY DEF ScanElem
<1>3. n \in DOMAIN List(i) /\ x' \in Nat \ {0}
  <2>1. x \in Nat \ {0}
    BY DEF IInv, TypeOK
  <2> QED
    BY <1>1, <1>2, <2>1
<1>4. Advance(List(i)[n]) \in ElemsAt(i + 1 + 1)
  BY <1>1, <1>2, <1>3, AdvanceElem DEF Scans, Expects
<1>5. i + 1 \in Nat /\ i + 1 <= Len(chart)
  BY <1>1
<1> QED
  BY <1>1, <1>2, <1>3, <1>4, <1>5, AddToChartGrows DEF Grows

\* An iteration of completer() adds to the list that is walked, and there only.
LEMMA CompleteElemGrows ==
  ASSUME IInv, CompleteElem
  PROVE  /\ Grows(i) /\ x' \in Nat \ {0}
         /\ Completed.start + 1 \in DOMAIN chart
         /\ c \in DOMAIN List(i)
<1>1. /\ GoodChart(chart)
      /\ i \in Nat /\ Len(chart) \in {i + 1, i + 2}
      /\ List(i) \in Seq(Elem)
      /\ \A n \in DOMAIN List(i) : List(i)[n] \in ElemsAt(i + 1)
  BY InHandler DEF CompleteElem, Handlers
<1>2. PICK n \in x .. Len(Origin) :
        /\ Completes(n)
        /\ chart' = AddToChart(chart, Advance(Origin[n]), i)
        /\ x' = n + 1
  BY DEF CompleteElem
<1>3. c \in DOMAIN List(i)
  <2>1. c \in Nat /\ c # 0 /\ c <= Len(List(i))
    BY DEF IInv, TypeOK, HandlerInv, CompleteElem
  <2> QED
    BY <1>1, <2>1
<1>4. Completed.start \in Nat /\ Completed.start < i + 1
  BY <1>1, <1>3, ElemFields DEF Completed
<1>5. chart \in Seq(Seq(Elem))
  BY <1>1 DEF GoodChart
<1>6. Completed.start + 1 \in DOMAIN chart
  BY <1>1, <1>4, <1>5
<1>7. Origin \in Seq(Elem) /\ \A m \in DOMAIN Origin : Origin[m] \in ElemsAt(Completed.start + 1)
  BY <1>1, <1>5, <1>6 DEF GoodChart, Origin, List
<1>8. n \in DOMAIN Origin /\ x' \in Nat \ {0}
  <2>1. x \in Nat \ {0}
    BY DEF IInv, TypeOK
  <2> QED
    BY <1>2, <1>7, <2>1
<1>9. Advance(Origin[n]) \in ElemsAt(Completed.start + 1)
  BY <1>2, <1>4, <1>7, <1>8, AdvanceElem DEF Completes, Expects
<1>10. Advance(Origin[n]) \in ElemsAt(i + 1)
  <2>1. /\ Advance(Origin[n]) \in Elem
        /\ Advance(Origin[n]).start \in Nat
        /\ Advance(Origin[n]).start < Completed.start + 1
    BY <1>4, <1>9, ElemFields
  <2> QED
    BY <1>1, <1>4, <1>9, <2>1 DEF ElemsAt
<1>11. i <= Len(chart)
  BY <1>1
<1> QED
  BY <1>1, <1>2, <1>3, <1>6, <1>8, <1>10, <1>11, AddToChartGrows DEF Grows

\* The chart recognise() begins with: addToChart(0, 0, 0, 0).
LEMMA InitChart ==
  ASSUME Init
  PROVE  /\ StartElem \in ElemsAt(1)
         /\ chart \in Seq(Seq(Elem))
         /\ Len(chart) = 1
         /\ chart[1] = << StartElem >>
<1> DEFINE none == << >>
<1>1. StartElem \in ElemsAt(1) /\ StartElem \in Elem
  <2>1. 1 \in 1 .. Len(CFG)
    BY GrammarAssumption
  <2>2. [rule |-> 1, start |-> 0, dot |-> 0] \in ElemsAt(0 + 1)
    BY <2>1, PredictedElem
  <2> QED
    BY <2>2 DEF StartElem, ElemsAt
<1>2. chart = AddToChart(none, StartElem, 0)
  BY DEF Init
<1>3. /\ AddToChart(none, StartElem, 0) \in Seq(Seq(Elem))
      /\ Len(AddToChart(none, StartElem, 0)) = 0 + 1
      /\ AddToChart(none, StartElem, 0)[0 + 1] = << StartElem >>
  <2>1. none \in Seq(Seq(Elem)) /\ Len(none) = 0 /\ 0 \in Nat /\ 0 <= Len(none)
    OBVIOUS
  <2> HIDE DEF none
  <2> QED
    BY <1>1, <2>1, AddToChartEffect
<1> QED
  BY <1>1, <1>2, <1>3

\* IInv holds when recognise() begins.
LEMMA InitInv == Init => IInv
<1> SUFFICES ASSUME Init PROVE IInv
  OBVIOUS
<1>1. StartElem \in ElemsAt(1)
  BY InitChart
<1>2. /\ chart \in Seq(Seq(Elem))
      /\ Len(chart) = 1
      /\ chart[1] = << StartElem >>
  BY InitChart
<1>3. TypeOK
  BY <1>2, ProgramsAssumption DEF Init, TypeOK, Locations
<1>4. ChartInBounds
  <2>1. Len(tokens) \in Nat
    BY <1>3 DEF TypeOK
  <2>2. StartElem.start < 1 /\ StartElem.dot <= Len(Rhs(StartElem))
    BY <1>1 DEF ElemsAt
  <2>3. \A k \in DOMAIN chart : \A n \in DOMAIN chart[k] :
          chart[k][n].start < k /\ chart[k][n].dot <= Len(Rhs(chart[k][n]))
    <3>1. DOMAIN chart = {1} /\ DOMAIN chart[1] = {1} /\ chart[1][1] = StartElem
      BY <1>2
    <3> QED
      BY <2>2, <3>1, Zenon
  <2>4. pc = "lists" /\ i = 0 /\ Len(chart) = 1 /\ Len(chart) \in 1 .. (Len(tokens) + 1)
    <3>1. Len(chart) = 1
      BY <1>2
    <3>2. Len(chart) \in 1 .. (Len(tokens) + 1)
      BY <2>1, <3>1
    <3> QED
      BY <3>1, <3>2 DEF Init
  <2>5. pc \notin Walking /\ pc \notin Handlers
    BY <2>4 DEF Walking, Handlers
  <2> QED
    BY <2>1, <2>3, <2>4, <2>5 DEF ChartInBounds
<1>5. NoDuplicates
  BY <1>2 DEF NoDuplicates
<1>6. HandlerInv
  BY DEF Init, HandlerInv
<1> QED
  BY <1>3, <1>4, <1>5, <1>6 DEF IInv

\* recognise() calls a handler for an element that is there.
LEMMA ElemIndex ==
  ASSUME IInv, pc = "elems", j <= Len(List(i))
  PROVE  j \in DOMAIN List(i)
<1>1. i \in Nat /\ j \in Nat \ {0} /\ Len(chart) \in {i + 1, i + 2} /\ chart \in Seq(Seq(Elem))
  BY DEF IInv, TypeOK, ChartInBounds, Walking
<1>2. List(i) \in Seq(Elem)
  BY <1>1 DEF List
<1> QED
  BY <1>1, <1>2

\* The steps that leave the chart alone.
LEMMA SameChartStep ==
  ASSUME IInv, UNCHANGED << tokens, chart >>,
         \/ BeginList \/ InvalidToken \/ EndList
         \/ CallCompleter \/ CallScanner \/ CallPredictor
         \/ PredictorReturns \/ ScannerReturns
         \/ CompleterNext \/ CompleterReturns
         \/ Accept \/ InvalidCode
         \/ PopulateElem \/ PopulateNextList \/ PopulateDone
         \/ UNCHANGED vars
  PROVE  IInv'
<1> DEFINE Shape ==
      /\ Len(chart) \in 1 .. (Len(tokens) + 1)
      /\ \A k \in DOMAIN chart : \A n \in DOMAIN chart[k] :
           chart[k][n].start < k /\ chart[k][n].dot <= Len(Rhs(chart[k][n]))
<1>1. NoDuplicates' /\ Shape'
  BY DEF IInv, NoDuplicates, ChartInBounds, Rhs
<1>2. /\ tokens \in Seq(Token) /\ chart \in Seq(Seq(Elem)) /\ Len(tokens) \in Nat
      /\ Len(chart) \in Nat /\ Len(chart) >= 1
      /\ i \in Nat /\ j \in Nat \ {0} /\ c \in Nat /\ x \in Nat \ {0}
      /\ finalChart \in Seq(Elem)
      /\ pc = "lists" => i <= Len(tokens) /\ Len(chart) \in {i, i + 1}
      /\ pc \in Walking => i < Len(tokens) /\ Len(chart) \in {i + 1, i + 2}
      /\ pc \in Handlers => j \in DOMAIN List(i)
  BY DEF IInv, TypeOK, ChartInBounds
<1> HIDE DEF Shape
<1>3. CASE BeginList
  BY <1>1, <1>2, <1>3
     DEF BeginList, IInv, TypeOK, ChartInBounds, HandlerInv, Shape, Walking, Handlers, Locations, Loops, List
<1>4. CASE InvalidToken
  BY <1>1, <1>2, <1>4
     DEF InvalidToken, IInv, TypeOK, ChartInBounds, HandlerInv, Shape, Walking, Handlers, Locations, Loops, List
<1>5. CASE EndList
  BY <1>1, <1>2, <1>5
     DEF EndList, IInv, TypeOK, ChartInBounds, HandlerInv, Shape, Walking, Handlers, Locations, Loops, List
<1>6. CASE CallCompleter
  <2>1. j \in DOMAIN List(i)
    BY <1>2, <1>6, ElemIndex DEF CallCompleter, IInv
  <2> QED
    BY <1>1, <1>2, <1>6, <2>1
       DEF CallCompleter, IInv, TypeOK, ChartInBounds, HandlerInv, Shape, Walking, Handlers, Locations, List, El, IsComplete, Rhs
<1>7. CASE CallScanner
  <2>1. j \in DOMAIN List(i)
    BY <1>2, <1>7, ElemIndex DEF CallScanner, IInv
  <2> QED
    BY <1>1, <1>2, <1>7, <2>1
       DEF CallScanner, IInv, TypeOK, ChartInBounds, HandlerInv, Shape, Walking, Handlers, Locations, List, El, IsComplete, Rhs
<1>8. CASE CallPredictor
  <2>1. j \in DOMAIN List(i)
    BY <1>2, <1>8, ElemIndex DEF CallPredictor, IInv
  <2> QED
    BY <1>1, <1>2, <1>8, <2>1
       DEF CallPredictor, IInv, TypeOK, ChartInBounds, HandlerInv, Shape, Walking, Handlers, Locations, List, El, IsComplete, Rhs
<1>9. CASE PredictorReturns
  BY <1>1, <1>2, <1>9
     DEF PredictorReturns, IInv, TypeOK, ChartInBounds, HandlerInv, Shape, Walking, Handlers, Locations, Loops, List
<1>10. CASE ScannerReturns
  BY <1>1, <1>2, <1>10
     DEF ScannerReturns, IInv, TypeOK, ChartInBounds, HandlerInv, Shape, Walking, Handlers, Locations, Loops, List
<1>11. CASE CompleterNext
  BY <1>1, <1>2, <1>11
     DEF CompleterNext, IInv, TypeOK, ChartInBounds, HandlerInv, Shape, Walking, Handlers, Locations, Loops, List
<1>12. CASE CompleterReturns
  BY <1>1, <1>2, <1>12
     DEF CompleterReturns, IInv, TypeOK, ChartInBounds, HandlerInv, Shape, Walking, Handlers, Locations, Loops, List
<1>13. CASE Accept
  BY <1>1, <1>2, <1>13
     DEF Accept, IInv, TypeOK, ChartInBounds, HandlerInv, Shape, Walking, Handlers, Locations, Loops, List
<1>14. CASE InvalidCode
  BY <1>1, <1>2, <1>14
     DEF InvalidCode, IInv, TypeOK, ChartInBounds, HandlerInv, Shape, Walking, Handlers, Locations, Loops, List
<1>15. CASE PopulateElem
  <2>1. PICK m \in x .. Len(List(c)) :
          finalChart' = AddToFinalChart(finalChart, List(c)[m]) /\ x' = m + 1
    BY <1>15 DEF PopulateElem
  <2>2. c + 1 \in DOMAIN chart
    BY <1>2, <1>15 DEF PopulateElem
  <2>3. List(c) \in Seq(Elem)
    BY <1>2, <2>2 DEF List
  <2>4. m \in DOMAIN List(c) /\ x' \in Nat \ {0}
    BY <1>2, <2>1, <2>3
  <2>5. List(c)[m] \in Elem
    BY <2>3, <2>4
  <2>6. finalChart' \in Seq(Elem)
    <3>1. SubSeq(finalChart, 1, Len(finalChart) - 1) \in Seq(Elem)
      BY <1>2
    <3> QED
      BY <1>2, <2>1, <2>5, <3>1 DEF AddToFinalChart
  <2> QED
    BY <1>1, <1>2, <1>15, <2>4, <2>6
       DEF PopulateElem, IInv, TypeOK, ChartInBounds, HandlerInv, Shape, Walking, Handlers
<1>16. CASE PopulateNextList
  BY <1>1, <1>2, <1>16
     DEF PopulateNextList, IInv, TypeOK, ChartInBounds, HandlerInv, Shape, Walking, Handlers, Locations, Loops, List
<1>17. CASE PopulateDone
  BY <1>1, <1>2, <1>17
     DEF PopulateDone, IInv, TypeOK, ChartInBounds, HandlerInv, Shape, Walking, Handlers, Locations, Loops, List
<1>18. CASE UNCHANGED vars
  BY <1>1, <1>2, <1>18
     DEF vars, IInv, TypeOK, ChartInBounds, HandlerInv, Shape, Walking, Handlers, List, El, IsComplete, Rhs
<1> QED
  BY <1>3, <1>4, <1>5, <1>6, <1>7, <1>8, <1>9, <1>10, <1>11, <1>12, <1>13, <1>14, <1>15, <1>16, <1>17, <1>18

\* IInv is inductive.
LEMMA NextInv ==
  ASSUME IInv, [Next]_vars
  PROVE  IInv'
<1>1. CASE PredictRule
  <2>1. Grows(i) /\ x' \in Nat \ {0}
    BY <1>1, PredictRuleGrows
  <2>2. Len(chart') <= i + 2
    BY <1>1, <2>1, InHandler DEF PredictRule, Handlers, Grows
  <2> QED
    BY <1>1, <2>1, <2>2, HandlerGrows DEF PredictRule, Handlers, Grows
<1>2. CASE ScanElem
  <2>1. Grows(i + 1) /\ x' \in Nat \ {0}
    BY <1>2, ScanElemGrows
  <2>2. Len(chart') <= i + 2
    BY <1>2, <2>1, InHandler DEF ScanElem, Handlers, Grows
  <2> QED
    BY <1>2, <2>1, <2>2, HandlerGrows DEF ScanElem, Handlers, Grows
<1>3. CASE CompleteElem
  <2>1. Grows(i) /\ x' \in Nat \ {0}
    BY <1>3, CompleteElemGrows
  <2>2. Len(chart') <= i + 2
    BY <1>3, <2>1, InHandler DEF CompleteElem, Handlers, Grows
  <2> QED
    BY <1>3, <2>1, <2>2, HandlerGrows DEF CompleteElem, Handlers, Grows
<1>4. CASE BeginList \/ InvalidToken \/ EndList
  BY <1>4, SameChartStep DEF BeginList, InvalidToken, EndList
<1>5. CASE CallCompleter \/ CallScanner \/ CallPredictor
  BY <1>5, SameChartStep DEF CallCompleter, CallScanner, CallPredictor
<1>6. CASE PredictorReturns \/ ScannerReturns \/ CompleterNext \/ CompleterReturns
  BY <1>6, SameChartStep DEF PredictorReturns, ScannerReturns, CompleterNext, CompleterReturns
<1>7. CASE Accept \/ InvalidCode
  BY <1>7, SameChartStep DEF Accept, InvalidCode
<1>8. CASE PopulateElem \/ PopulateNextList \/ PopulateDone
  BY <1>8, SameChartStep DEF PopulateElem, PopulateNextList, PopulateDone
<1>9. CASE UNCHANGED vars
  BY <1>9, SameChartStep DEF vars
<1> QED
  BY <1>1, <1>2, <1>3, <1>4, <1>5, <1>6, <1>7, <1>8, <1>9 DEF Next, Step, Terminated

\* IInv holds at every step of recognise().
LEMMA SpecInv == Spec => []IInv
<1>1. Init => IInv
  BY InitInv
<1>2. IInv /\ [Next]_vars => IInv'
  BY NextInv
<1> QED
  BY <1>1, <1>2, PTL DEF Spec

-----------------------------------------------------------------------------
(* The theorems.                                                           *)

\* The variables of the recogniser keep their types, whatever the grammar and
\* the input.
THEOREM TypeCorrect == Spec => []TypeOK
<1>1. IInv => TypeOK
  BY DEF IInv
<1> QED
  BY <1>1, SpecInv, PTL

\* No index that recogniser.cpp uses without a check is ever out of range.
THEOREM InBounds == Spec => []ChartInBounds
<1>1. IInv => ChartInBounds
  BY DEF IInv
<1> QED
  BY <1>1, SpecInv, PTL

\* No list of the chart ever holds an element twice.
THEOREM Distinct == Spec => []NoDuplicates
<1>1. IInv => NoDuplicates
  BY DEF IInv
<1> QED
  BY <1>1, SpecInv, PTL

\* A list that has been walked, or that the scanner is walking, never changes.
THEOREM Frozen == Spec => WalkedListsFrozen
<1> DEFINE Same == /\ \A k \in 1 .. i : chart'[k] = chart[k]
                   /\ pc = "scanner" => chart'[i + 1] = chart[i + 1]
<1>1. IInv /\ [Next]_vars => Same \/ UNCHANGED vars
  <2> SUFFICES ASSUME IInv, Next PROVE Same
    OBVIOUS
  <2>1. i \in Nat /\ Len(chart) \in Nat
    BY DEF IInv, TypeOK
  <2>2. ASSUME pc \in Handlers, Grows(i), pc # "scanner" PROVE Same
    <3>1. i <= Len(chart)
      BY <2>1, <2>2, InHandler
    <3> QED
      BY <2>1, <2>2, <3>1 DEF Grows
  <2>3. ASSUME pc \in Handlers, Grows(i + 1) PROVE Same
    <3>1. i + 1 <= Len(chart)
      BY <2>1, <2>3, InHandler
    <3> QED
      BY <2>1, <2>3, <3>1 DEF Grows
  <2>4. CASE PredictRule
    BY <2>2, <2>4, PredictRuleGrows DEF PredictRule, Handlers
  <2>5. CASE ScanElem
    BY <2>3, <2>5, ScanElemGrows DEF ScanElem, Handlers
  <2>6. CASE CompleteElem
    BY <2>2, <2>6, CompleteElemGrows DEF CompleteElem, Handlers
  <2>7. CASE UNCHANGED chart
    BY <2>7
  <2> QED
    BY <2>4, <2>5, <2>6, <2>7
       DEF Next, Step, BeginList, InvalidToken, EndList, CallCompleter, CallScanner,
           CallPredictor, PredictorReturns, ScannerReturns, CompleterNext,
           CompleterReturns, Accept, InvalidCode, PopulateElem, PopulateNextList,
           PopulateDone, Terminated, vars
<1> QED
  BY <1>1, SpecInv, PTL DEF Spec, WalkedListsFrozen

-----------------------------------------------------------------------------
(* The Recogniser implements Deduction: every element it puts in its chart *)
(* follows from those already there by one of Earley's rules, and none is  *)
(* ever taken out.                                                         *)

\* What the lists of a chart say.
Facts(ch) ==
  UNION { { [el |-> ch[k][n], at |-> k - 1] : n \in DOMAIN ch[k] } : k \in DOMAIN ch }

\* Membership, without the union.
LEMMA InFacts ==
  ASSUME NEW ch, NEW f
  PROVE  f \in Facts(ch) <=>
           \E k \in DOMAIN ch : \E n \in DOMAIN ch[k] : f = [el |-> ch[k][n], at |-> k - 1]
<1> DEFINE Of(k) == { [el |-> ch[k][n], at |-> k - 1] : n \in DOMAIN ch[k] }
<1>1. f \in Facts(ch) <=> \E k \in DOMAIN ch : f \in Of(k)
  BY DEF Facts
<1>2. \A k : f \in Of(k) <=> \E n \in DOMAIN ch[k] : f = [el |-> ch[k][n], at |-> k - 1]
  OBVIOUS
<1> QED
  BY <1>1, <1>2, Zenon

\* The facts of a chart remain when it grows.
LEMMA ExtendsFacts ==
  ASSUME NEW a \in Seq(Seq(Elem)), NEW b \in Seq(Seq(Elem)), Extends(b, a)
  PROVE  Facts(a) \subseteq Facts(b)
<1> SUFFICES ASSUME NEW f \in Facts(a) PROVE f \in Facts(b)
  OBVIOUS
<1>0. PICK k \in DOMAIN a : \E n \in DOMAIN a[k] : f = [el |-> a[k][n], at |-> k - 1]
  BY InFacts, Zenon
<1>1. PICK n \in DOMAIN a[k] : f = [el |-> a[k][n], at |-> k - 1]
  BY <1>0
<1>2. k \in DOMAIN b
  BY DEF Extends
<1>3. a[k] \in Seq(Elem) /\ b[k] \in Seq(Elem)
  BY <1>2
<1>4. Len(a[k]) <= Len(b[k]) /\ b[k][n] = a[k][n]
  BY DEF Extends
<1>5. n \in DOMAIN b[k]
  BY <1>3, <1>4
<1> QED
  BY <1>1, <1>2, <1>4, <1>5, InFacts, Zenon

\* addToChart() adds at most the fact it is called for.
LEMMA AddToChartFacts ==
  ASSUME NEW ch \in Seq(Seq(Elem)), NEW el \in Elem, NEW k \in Nat, k <= Len(ch)
  PROVE  \A f \in Facts(AddToChart(ch, el, k)) :
           f \in Facts(ch) \/ f = [el |-> el, at |-> k]
<1> DEFINE new == AddToChart(ch, el, k)
<1>1. /\ new \in Seq(Seq(Elem))
      /\ Len(new) = IF k = Len(ch) THEN k + 1 ELSE Len(ch)
      /\ \A m \in 1 .. Len(ch) : m # k + 1 => new[m] = ch[m]
      /\ k < Len(ch) => new[k + 1] = ch[k + 1] \/ new[k + 1] = Append(ch[k + 1], el)
      /\ k = Len(ch) => new[k + 1] = << el >>
  BY AddToChartEffect
<1> HIDE DEF new
<1> SUFFICES ASSUME NEW f \in Facts(new)
             PROVE  f \in Facts(ch) \/ f = [el |-> el, at |-> k]
  BY DEF new
<1>0. PICK m \in DOMAIN new : \E n \in DOMAIN new[m] : f = [el |-> new[m][n], at |-> m - 1]
  BY InFacts, Zenon
<1>2. PICK n \in DOMAIN new[m] : f = [el |-> new[m][n], at |-> m - 1]
  BY <1>0
<1>3. m \in 1 .. Len(new) /\ Len(ch) \in Nat
  BY <1>1
<1>4. CASE m # k + 1
  <2>1. m \in 1 .. Len(ch)
    BY <1>1, <1>3, <1>4
  <2>2. m \in DOMAIN ch /\ new[m] = ch[m]
    BY <1>1, <1>4, <2>1
  <2> QED
    BY <1>2, <2>2, InFacts, Zenon
<1>5. CASE m = k + 1 /\ k < Len(ch)
  <2>1. m \in DOMAIN ch /\ ch[m] \in Seq(Elem)
    BY <1>3, <1>5
  <2>2. CASE new[m] = ch[m]
    BY <1>2, <2>1, <2>2, InFacts, Zenon
  <2>3. CASE new[m] = Append(ch[m], el)
    <3>1. (n \in DOMAIN ch[m] /\ new[m][n] = ch[m][n]) \/ new[m][n] = el
      BY <2>1, <2>3, AppendSeq
    <3>2. m - 1 = k
      BY <1>5
    <3> QED
      BY <1>2, <2>1, <3>1, <3>2, InFacts, Zenon
  <2> QED
    BY <1>1, <1>5, <2>2, <2>3
<1>6. CASE m = k + 1 /\ k = Len(ch)
  BY <1>1, <1>2, <1>6
<1> QED
  BY <1>1, <1>3, <1>4, <1>5, <1>6

-----------------------------------------------------------------------------
(* One step per loop that adds to the chart.                               *)

\* The facts of the refinement mapping are those of the chart.
LEMMA FactsOfChart == ChartFacts = Facts(chart)
BY DEF ChartFacts, Facts

\* An element of a list is a fact.
LEMMA ElemFact ==
  ASSUME NEW k \in Nat, k + 1 \in DOMAIN chart, NEW n \in DOMAIN List(k)
  PROVE  [el |-> List(k)[n], at |-> k] \in ChartFacts
<1> DEFINE f == [el |-> List(k)[n], at |-> k]
           m == k + 1
<1>1. m \in DOMAIN chart /\ m - 1 = k /\ n \in DOMAIN chart[m]
  BY DEF List
<1>2. f = [el |-> chart[m][n], at |-> m - 1]
  BY <1>1 DEF List
<1> HIDE DEF f, m
<1>3. \E o \in DOMAIN chart[m] : f = [el |-> chart[m][o], at |-> m - 1]
  BY <1>1, <1>2
<1>4. f \in Facts(chart)
  BY <1>1, <1>3, InFacts
<1> QED
  BY <1>4, FactsOfChart DEF f

\* An iteration of predictor() adds what Earley's predict rule, or the rule
\* over nullable symbols, allows.
LEMMA PredictFollows ==
  ASSUME IInv, PredictRule
  PROVE  \A f \in ChartFacts' \ ChartFacts : Rules!Follows(f)
<1>1. /\ GoodChart(chart)
      /\ i \in Nat /\ Len(chart) \in {i + 1, i + 2}
      /\ j \in DOMAIN List(i)
      /\ El \in ElemsAt(i + 1)
  BY InHandler DEF PredictRule, Handlers, El
<1>2. ~ IsComplete(El)
  BY DEF IInv, HandlerInv, PredictRule
<1>3. PICK r \in x .. Len(CFG) :
        /\ Predicts(r)
        /\ LET predicted == AddToChart(chart, [rule |-> r, start |-> i, dot |-> 0], i)
           IN  chart' = IF Nullable(NextSymbol(El))
                        THEN AddToChart(predicted, Advance(El), i)
                        ELSE predicted
  BY DEF PredictRule
<1>4. r \in 1 .. Len(CFG)
  <2>1. x \in Nat \ {0} /\ Len(CFG) \in Nat
    BY GrammarAssumption DEF IInv, TypeOK
  <2> QED
    BY <1>3, <2>1
<1> DEFINE new == [rule |-> r, start |-> i, dot |-> 0]
           predicted == AddToChart(chart, new, i)
<1>5. /\ new \in ElemsAt(i + 1) /\ new \in Elem
      /\ Advance(El) \in Elem
  BY <1>1, <1>2, <1>4, PredictedElem, AdvanceElem DEF ElemsAt
<1>6. /\ chart \in Seq(Seq(Elem)) /\ i <= Len(chart) /\ i # Len(chart)
      /\ i + 1 \in DOMAIN chart
  BY <1>1 DEF GoodChart
<1>7. predicted \in Seq(Seq(Elem)) /\ i <= Len(predicted)
  BY <1>1, <1>5, <1>6, AddToChartEffect
<1>8. \A f \in Facts(chart') : \/ f \in Facts(chart)
                               \/ f = [el |-> new, at |-> i]
                               \/ /\ f = [el |-> Advance(El), at |-> i]
                                  /\ Nullable(NextSymbol(El))
  <2>1. \A f \in Facts(predicted) : f \in Facts(chart) \/ f = [el |-> new, at |-> i]
    BY <1>1, <1>5, <1>6, AddToChartFacts
  <2>2. chart' = IF Nullable(NextSymbol(El)) THEN AddToChart(predicted, Advance(El), i)
                 ELSE predicted
    BY <1>3
  <2> HIDE DEF predicted, new
  <2>3. \A f \in Facts(AddToChart(predicted, Advance(El), i)) :
          f \in Facts(predicted) \/ f = [el |-> Advance(El), at |-> i]
    BY <1>1, <1>5, <1>7, AddToChartFacts
  <2> QED
    BY <2>1, <2>2, <2>3, Zenon
<1>9. [el |-> El, at |-> i] \in ChartFacts
  BY <1>1, <1>6, ElemFact DEF El
<1>10. Rules!Predicted([el |-> new, at |-> i])
  <2>1. Expects(El, Lhs(new))
    BY <1>2, <1>3 DEF Predicts, Expects, Lhs
  <2> QED
    BY <1>9, <2>1
       DEF Rules!Predicted, Rules!Expects, Rules!Lhs, Expects, Lhs, Rules!IsComplete,
           IsComplete, Rules!NextSymbol, NextSymbol, Rules!Rhs, Rhs
<1>11. Nullable(NextSymbol(El)) => Rules!Skipped([el |-> Advance(El), at |-> i])
  BY <1>2, <1>9
     DEF Rules!Skipped, Rules!IsComplete, IsComplete, Rules!NextSymbol, NextSymbol,
         Rules!Rhs, Rhs, Rules!Nullable, Nullable, Rules!Advance, Advance
<1> HIDE DEF new
<1> QED
  BY <1>8, <1>10, <1>11, FactsOfChart DEF Rules!Follows, Facts, ChartFacts

\* An iteration of scanner() adds what Earley's scan rule allows.
LEMMA ScanFollows ==
  ASSUME IInv, ScanElem
  PROVE  \A f \in ChartFacts' \ ChartFacts : Rules!Follows(f)
<1>1. /\ GoodChart(chart)
      /\ i \in Nat /\ i < Len(tokens) /\ Len(chart) \in {i + 1, i + 2}
      /\ List(i) \in Seq(Elem)
      /\ \A n \in DOMAIN List(i) : List(i)[n] \in ElemsAt(i + 1)
  BY InHandler DEF ScanElem, Handlers
<1>2. PICK n \in x .. Len(List(i)) :
        Scans(n) /\ chart' = AddToChart(chart, Advance(List(i)[n]), i + 1)
  BY DEF ScanElem
<1>3. n \in DOMAIN List(i)
  <2>1. x \in Nat \ {0}
    BY DEF IInv, TypeOK
  <2> QED
    BY <1>1, <1>2, <2>1
<1>4. chart \in Seq(Seq(Elem)) /\ i + 1 \in DOMAIN chart /\ i + 1 \in Nat /\ i + 1 <= Len(chart)
  BY <1>1 DEF GoodChart
<1>5. Advance(List(i)[n]) \in Elem
  BY <1>1, <1>2, <1>3, AdvanceElem DEF Scans, Expects, ElemsAt
<1>6. \A f \in Facts(chart') :
        f \in Facts(chart) \/ f = [el |-> Advance(List(i)[n]), at |-> i + 1]
  BY <1>2, <1>4, <1>5, AddToChartFacts
<1>7. [el |-> List(i)[n], at |-> i] \in ChartFacts
  BY <1>1, <1>3, <1>4, ElemFact
<1>8. Rules!Scanned([el |-> Advance(List(i)[n]), at |-> i + 1])
  BY <1>1, <1>2, <1>7
     DEF Scans, Rules!Scanned, Rules!Expects, Expects, Rules!IsComplete, IsComplete,
         Rules!NextSymbol, NextSymbol, Rules!Rhs, Rhs, Rules!Advance, Advance
<1> QED
  BY <1>6, <1>8, FactsOfChart DEF Rules!Follows, Facts, ChartFacts

\* An iteration of completer() adds what Earley's complete rule allows.
LEMMA CompleteFollows ==
  ASSUME IInv, CompleteElem
  PROVE  \A f \in ChartFacts' \ ChartFacts : Rules!Follows(f)
<1>1. /\ GoodChart(chart)
      /\ i \in Nat /\ Len(chart) \in {i + 1, i + 2}
      /\ List(i) \in Seq(Elem)
      /\ \A n \in DOMAIN List(i) : List(i)[n] \in ElemsAt(i + 1)
  BY InHandler DEF CompleteElem, Handlers
<1>2. PICK n \in x .. Len(Origin) :
        Completes(n) /\ chart' = AddToChart(chart, Advance(Origin[n]), i)
  BY DEF CompleteElem
<1>3. c \in DOMAIN List(i) /\ Completed.start + 1 \in DOMAIN chart
  BY CompleteElemGrows
<1>4. /\ chart \in Seq(Seq(Elem)) /\ i + 1 \in DOMAIN chart /\ i <= Len(chart)
      /\ Completed.start \in Nat
  <2>1. chart \in Seq(Seq(Elem)) /\ i + 1 \in DOMAIN chart /\ i <= Len(chart)
    BY <1>1 DEF GoodChart
  <2>2. Completed \in ElemsAt(i + 1)
    BY <1>1, <1>3 DEF Completed
  <2> QED
    BY <2>1, <2>2, ElemFields DEF ElemsAt
<1>5. Origin \in Seq(Elem) /\ n \in DOMAIN Origin
  <2>1. x \in Nat \ {0}
    BY DEF IInv, TypeOK
  <2>2. Origin \in Seq(Elem)
    BY <1>3, <1>4 DEF Origin, List
  <2> QED
    BY <1>2, <2>1, <2>2
<1>6. Advance(Origin[n]) \in Elem
  <2>1. Origin[n] \in ElemsAt(Completed.start + 1)
    BY <1>1, <1>3, <1>5 DEF GoodChart, Origin, List
  <2>2. ~ IsComplete(Origin[n])
    BY <1>2 DEF Completes, Expects
  <2>3. Completed.start + 1 \in Nat
    BY <1>4
  <2>4. Advance(Origin[n]) \in ElemsAt(Completed.start + 1)
    BY <2>1, <2>2, <2>3, AdvanceElem
  <2> QED
    BY <2>4 DEF ElemsAt
<1>7. \A f \in Facts(chart') :
        f \in Facts(chart) \/ f = [el |-> Advance(Origin[n]), at |-> i]
  BY <1>1, <1>2, <1>4, <1>6, AddToChartFacts
<1>8. [el |-> Completed, at |-> i] \in ChartFacts
  BY <1>1, <1>3, <1>4, ElemFact DEF Completed
<1>9. [el |-> Origin[n], at |-> Completed.start] \in ChartFacts
  BY <1>3, <1>4, <1>5, ElemFact DEF Origin
<1>10. IsComplete(Completed)
  BY DEF CompleteElem
<1>11. Rules!Completed([el |-> Advance(Origin[n]), at |-> i])
  BY <1>2, <1>8, <1>9, <1>10
     DEF Completes, Rules!Completed, Rules!Expects, Expects, Rules!IsComplete, IsComplete,
         Rules!NextSymbol, NextSymbol, Rules!Rhs, Rhs, Rules!Lhs, Lhs, Rules!Advance, Advance
<1> QED
  BY <1>7, <1>11, FactsOfChart DEF Rules!Follows, Facts, ChartFacts

-----------------------------------------------------------------------------

\* Every behaviour of the recogniser, seen as the set of the elements in its
\* chart, is one that Earley's rules allow: it never invents an element.
THEOREM Refinement == Spec => FollowsTheRules
<1>1. Init => Rules!Init
  <2> SUFFICES ASSUME Init PROVE Rules!Init
    OBVIOUS
  <2>1. chart \in Seq(Seq(Elem)) /\ Len(chart) = 1 /\ chart[1] = << StartElem >>
    BY InitChart
  <2>2. DOMAIN chart = {1} /\ DOMAIN chart[1] = {1} /\ chart[1][1] = StartElem /\ 1 - 1 = 0
    BY <2>1
  <2>3. ChartFacts = {[el |-> StartElem, at |-> 0]}
    BY <2>2 DEF ChartFacts
  <2> QED
    BY <2>3 DEF Rules!Init, Rules!Axiom, StartElem, Init
<1>2. IInv /\ [Next]_vars => [Rules!Next]_<< tokens, ChartFacts >>
  <2> SUFFICES ASSUME IInv, [Next]_vars
               PROVE  Rules!Next \/ UNCHANGED << tokens, ChartFacts >>
    OBVIOUS
  <2>1. ASSUME Extends(chart', chart), IInv', tokens' = tokens,
               \A f \in ChartFacts' \ ChartFacts : Rules!Follows(f)
        PROVE  Rules!Next
    <3>1. Facts(chart) \subseteq Facts(chart')
      BY <2>1, ExtendsFacts DEF IInv, TypeOK
    <3>2. ChartFacts \subseteq ChartFacts'
      BY <3>1 DEF Facts, ChartFacts
    <3> QED
      BY <2>1, <3>2 DEF Rules!Next
  <2>2. IInv'
    BY NextInv
  <2>3. CASE PredictRule
    BY <2>1, <2>2, <2>3, PredictRuleGrows, PredictFollows DEF PredictRule, Grows
  <2>4. CASE ScanElem
    BY <2>1, <2>2, <2>4, ScanElemGrows, ScanFollows DEF ScanElem, Grows
  <2>5. CASE CompleteElem
    BY <2>1, <2>2, <2>5, CompleteElemGrows, CompleteFollows DEF CompleteElem, Grows
  <2>6. CASE UNCHANGED << tokens, chart >>
    BY <2>6 DEF ChartFacts
  <2> QED
    BY <2>3, <2>4, <2>5, <2>6
       DEF Next, Step, BeginList, InvalidToken, EndList, CallCompleter, CallScanner,
           CallPredictor, PredictorReturns, ScannerReturns, CompleterNext,
           CompleterReturns, Accept, InvalidCode, PopulateElem, PopulateNextList,
           PopulateDone, Terminated, vars
<1> QED
  BY <1>1, <1>2, SpecInv, PTL DEF Spec, FollowsTheRules, Rules!Spec

-----------------------------------------------------------------------------
(* The verdict is right: the chart holds what the least relations of       *)
(* CFGReference say, no more (an invariant along Earley's rules) and, in   *)
(* the lists that were walked, no less (by induction over the stages of    *)
(* those relations).                                                       *)

(* The reference: recursive functions and least sets.                      *)

\* The ends of the beginnings of a right-hand side, one symbol at a time.
LEMMA StringEndsSteps ==
  ASSUME NEW w, NEW spans, NEW rhs, NEW a \in Positions(w)
  PROVE  /\ StringEnds(w, spans, rhs, a)[0] = {a}
         /\ \A n \in Nat : StringEnds(w, spans, rhs, a)[n] \subseteq Positions(w)
         /\ \A n \in Nat : StringEnds(w, spans, rhs, a)[n + 1] =
              UNION { SymbolEnds(w, spans, rhs[n + 1], b) : b \in StringEnds(w, spans, rhs, a)[n] }
<1> DEFINE V == SUBSET Positions(w)
           Step1(n, S) == UNION { SymbolEnds(w, spans, rhs[n], b) : b \in S }
           step == [p \in Nat \X V |-> Step1(p[1] + 1, p[2])]
           F(f) == [n \in Nat |-> IF n = 0 THEN {a} ELSE Step1(n, f[n - 1])]
           g == StringEnds(w, spans, rhs, a)
<1>1. \A n : \A S : Step1(n, S) \in V
  BY DEF SymbolEnds
<1>2. {a} \in V
  OBVIOUS
<1>3. \A f : F(f) = [n \in Nat |-> IF n = 0 THEN {a} ELSE Step1(n, f[n - 1])]
  OBVIOUS
<1>4. g = CHOOSE f : f = F(f)
  BY DEF StringEnds
<1>5. step = [p \in Nat \X V |-> Step1(p[1] + 1, p[2])]
  OBVIOUS
<1> HIDE DEF V, Step1, step, F, g
<1>6. step \in [Nat \X V -> V]
  BY <1>1, <1>5
<1>7. PICK f : Recursive(f, V, {a}, step)
  BY <1>2, <1>6, RecursionExists
<1>8. f \in [Nat -> V] /\ f[0] = {a} /\ \A n \in Nat : f[n + 1] = step[<< n, f[n] >>]
  BY <1>7 DEF Recursive
<1>9. \A n \in Nat : n # 0 => f[n] = Step1(n, f[n - 1])
  <2> SUFFICES ASSUME NEW n \in Nat, n # 0 PROVE f[n] = Step1(n, f[n - 1])
    OBVIOUS
  <2>1. PICK m \in Nat : m = n - 1 /\ n = m + 1
    OBVIOUS
  <2>2. f[n] = step[<< m, f[m] >>]
    BY <1>8, <2>1
  <2>3. << m, f[m] >> \in Nat \X V
    BY <1>8
  <2> QED
    BY <1>5, <2>1, <2>2, <2>3
<1>10. f = F(f)
  BY <1>3, <1>8, <1>9
<1>11. g = F(g)
  BY <1>4, <1>10
<1>12. g[0] = {a} /\ \A n \in Nat : g[n + 1] = Step1(n + 1, g[n])
  BY <1>3, <1>11
<1>13. \A n \in Nat : g[n] \in V
  <2>1. \A n \in Nat : g[n] = IF n = 0 THEN {a} ELSE Step1(n, g[n - 1])
    BY <1>3, <1>11
  <2> QED
    BY <1>1, <1>2, <2>1
<1> QED
  BY <1>12, <1>13 DEF V, Step1, g

\* More spans, more ends.
LEMMA StringEndsMonotone ==
  ASSUME NEW w, NEW s, NEW t, s \subseteq t, NEW rhs, NEW a \in Positions(w)
  PROVE  \A n \in Nat : StringEnds(w, s, rhs, a)[n] \subseteq StringEnds(w, t, rhs, a)[n]
<1> DEFINE f == StringEnds(w, s, rhs, a)
           g == StringEnds(w, t, rhs, a)
           S == { n \in Nat : f[n] \subseteq g[n] }
<1>1. /\ f[0] = {a}
      /\ \A n \in Nat : f[n + 1] = UNION { SymbolEnds(w, s, rhs[n + 1], b) : b \in f[n] }
  BY StringEndsSteps
<1>0. /\ g[0] = {a}
      /\ \A n \in Nat : g[n + 1] = UNION { SymbolEnds(w, t, rhs[n + 1], b) : b \in g[n] }
  BY StringEndsSteps
<1>2. \A sym, b : SymbolEnds(w, s, sym, b) \subseteq SymbolEnds(w, t, sym, b)
  BY DEF SymbolEnds
<1> HIDE DEF f, g
<1>3. 0 \in S
  BY <1>0, <1>1
<1>4. ASSUME NEW n \in Nat, n \in S PROVE n + 1 \in S
  BY <1>0, <1>1, <1>2, <1>4
<1> HIDE DEF S
<1>5. \A n \in Nat : n \in S
  BY <1>3, <1>4, Induction
<1> QED
  BY <1>5 DEF S, f, g

\* A rule, without tuples.
LEMMA InDerived ==
  ASSUME NEW w, NEW spans, NEW A, NEW a, NEW b
  PROVE  << A, a, b >> \in Derived(w, spans) <=>
           /\ a \in Positions(w)
           /\ \E r \in DOMAIN CFG :
                CFG[r].lhs = A /\ b \in StringEnds(w, spans, CFG[r].rhs, a)[Len(CFG[r].rhs)]
<1> DEFINE Of(r, p) == { << CFG[r].lhs, p, e >> :
                         e \in StringEnds(w, spans, CFG[r].rhs, p)[Len(CFG[r].rhs)] }
           Sets == { Of(r, p) : r \in DOMAIN CFG, p \in Positions(w) }
<1>1. Derived(w, spans) = UNION Sets
  BY DEF Derived
<1>2. \A r, p : << A, a, b >> \in Of(r, p) <=>
        /\ CFG[r].lhs = A /\ p = a
        /\ b \in StringEnds(w, spans, CFG[r].rhs, p)[Len(CFG[r].rhs)]
  OBVIOUS
<1>3. \A S \in Sets : \E r \in DOMAIN CFG : \E p \in Positions(w) : S = Of(r, p)
  OBVIOUS
<1>4. \A r \in DOMAIN CFG : \A p \in Positions(w) : Of(r, p) \in Sets
  OBVIOUS
<1> HIDE DEF Of, Sets
<1>5. << A, a, b >> \in UNION Sets <=>
        \E r \in DOMAIN CFG : \E p \in Positions(w) : << A, a, b >> \in Of(r, p)
  BY <1>3, <1>4
<1> QED
  BY <1>1, <1>2, <1>5

\* Positions are natural numbers, and a rule's length is one.
LEMMA RuleLength ==
  ASSUME NEW r \in DOMAIN CFG
  PROVE  /\ CFG[r].lhs \in NonTerminals
         /\ CFG[r].rhs \in Seq(Symbols)
         /\ Len(CFG[r].rhs) \in Nat
<1>1. r \in 1 .. Len(CFG)
  BY GrammarAssumption
<1> QED
  BY <1>1, RuleOf

\* What one application of the rules gives are spans of the text, and more
\* spans give no fewer.
LEMMA DerivedMonotone ==
  ASSUME NEW w, NEW s, NEW t, s \subseteq t
  PROVE  /\ Derived(w, s) \subseteq AllSpans(w)
         /\ Derived(w, s) \subseteq Derived(w, t)
<1> SUFFICES ASSUME NEW e \in Derived(w, s)
             PROVE  e \in AllSpans(w) /\ e \in Derived(w, t)
  OBVIOUS
<1>1. PICK r \in DOMAIN CFG, a \in Positions(w) :
        \E b \in StringEnds(w, s, CFG[r].rhs, a)[Len(CFG[r].rhs)] : e = << CFG[r].lhs, a, b >>
  BY DEF Derived
<1>2. PICK b \in StringEnds(w, s, CFG[r].rhs, a)[Len(CFG[r].rhs)] : e = << CFG[r].lhs, a, b >>
  BY <1>1
<1>3. /\ b \in Positions(w)
      /\ b \in StringEnds(w, t, CFG[r].rhs, a)[Len(CFG[r].rhs)]
  <2>1. Len(CFG[r].rhs) \in Nat
    BY RuleLength
  <2>2. StringEnds(w, s, CFG[r].rhs, a)[Len(CFG[r].rhs)] \subseteq Positions(w)
    BY <2>1, StringEndsSteps
  <2>3. StringEnds(w, s, CFG[r].rhs, a)[Len(CFG[r].rhs)]
          \subseteq StringEnds(w, t, CFG[r].rhs, a)[Len(CFG[r].rhs)]
    BY <2>1, StringEndsMonotone
  <2> QED
    BY <1>2, <2>2, <2>3
<1>4. << CFG[r].lhs, a, b >> \in Derived(w, t)
  BY <1>3, InDerived
<1> QED
  BY <1>2, <1>3, <1>4 DEF AllSpans, LeftSides

\* The stages of the spans.
LEMMA SpanStagesSteps ==
  ASSUME NEW w
  PROVE  /\ SpanStages(w)[0] = {}
         /\ \A n \in Nat : SpanStages(w)[n + 1] = Derived(w, SpanStages(w)[n])
         /\ SpanStages(w) \in [Nat -> SUBSET AllSpans(w)]
         /\ \A n \in Nat : SpanStages(w)[n] \subseteq SpanStages(w)[n + 1]
<1> DEFINE V == SUBSET AllSpans(w)
           step == [p \in Nat \X V |-> Derived(w, p[2])]
           F(f) == [n \in Nat |-> IF n = 0 THEN {} ELSE Derived(w, f[n - 1])]
           g == SpanStages(w)
<1>1. \A S : Derived(w, S) \in V
  BY DerivedMonotone
<1>2. {} \in V
  OBVIOUS
<1>3. \A f : F(f) = [n \in Nat |-> IF n = 0 THEN {} ELSE Derived(w, f[n - 1])]
  OBVIOUS
<1>4. g = CHOOSE f : f = F(f)
  BY DEF SpanStages
<1>5. step = [p \in Nat \X V |-> Derived(w, p[2])]
  OBVIOUS
<1> HIDE DEF V, step, F, g
<1>6. step \in [Nat \X V -> V]
  BY <1>1, <1>5
<1>7. PICK f : Recursive(f, V, {}, step)
  BY <1>2, <1>6, RecursionExists
<1>8. f \in [Nat -> V] /\ f[0] = {} /\ \A n \in Nat : f[n + 1] = step[<< n, f[n] >>]
  BY <1>7 DEF Recursive
<1>9. \A n \in Nat : n # 0 => f[n] = Derived(w, f[n - 1])
  <2> SUFFICES ASSUME NEW n \in Nat, n # 0 PROVE f[n] = Derived(w, f[n - 1])
    OBVIOUS
  <2>1. PICK m \in Nat : m = n - 1 /\ n = m + 1
    OBVIOUS
  <2>2. f[n] = step[<< m, f[m] >>]
    BY <1>8, <2>1
  <2>3. << m, f[m] >> \in Nat \X V
    BY <1>8
  <2> QED
    BY <1>5, <2>1, <2>2, <2>3
<1>10. f = F(f)
  BY <1>3, <1>8, <1>9
<1>11. g = F(g)
  BY <1>4, <1>10
<1>12. g[0] = {} /\ \A n \in Nat : g[n + 1] = Derived(w, g[n])
  BY <1>3, <1>11
<1>13. g \in [Nat -> V]
  <2>1. g = [n \in Nat |-> IF n = 0 THEN {} ELSE Derived(w, g[n - 1])]
    BY <1>3, <1>11
  <2>2. \A n \in Nat : g[n] \in V
    BY <1>1, <1>2, <2>1
  <2> QED
    BY <2>1, <2>2
<1> DEFINE S == { n \in Nat : g[n] \subseteq g[n + 1] }
<1>14. 0 \in S
  BY <1>12
<1>15. ASSUME NEW n \in Nat, n \in S PROVE n + 1 \in S
  <2>1. Derived(w, g[n]) \subseteq Derived(w, g[n + 1])
    BY <1>15, DerivedMonotone
  <2>2. g[n + 1] \subseteq g[(n + 1) + 1]
    BY <1>12, <2>1
  <2> QED
    BY <2>2
<1> HIDE DEF S
<1>16. \A n \in Nat : n \in S
  BY <1>14, <1>15, Induction
<1> QED
  BY <1>12, <1>13, <1>16 DEF V, S, g

\* There are finitely many spans.
LEMMA AllSpansFinite ==
  ASSUME NEW w, Len(w) \in Nat
  PROVE  IsFiniteSet(Positions(w)) /\ IsFiniteSet(LeftSides) /\ IsFiniteSet(AllSpans(w))
<1>1. IsFiniteSet(Positions(w))
  BY FS_Interval DEF Positions
<1>2. IsFiniteSet(LeftSides)
  <2> DEFINE f == [r \in 1 .. Len(CFG) |-> CFG[r].lhs]
  <2>1. f \in Surjection(1 .. Len(CFG), LeftSides)
    <3>1. DOMAIN CFG = 1 .. Len(CFG)
      BY GrammarAssumption
    <3> QED
      BY <3>1 DEF Surjection, LeftSides
  <2>2. IsFiniteSet(1 .. Len(CFG))
    BY GrammarAssumption, FS_Interval
  <2> HIDE DEF f
  <2> QED
    BY <2>1, <2>2, FS_Surjection
<1>3. IsFiniteSet(AllSpans(w))
  <2> DEFINE P == LeftSides \X (Positions(w) \X Positions(w))
             f == [p \in P |-> << p[1], p[2][1], p[2][2] >>]
  <2>1. f \in Surjection(P, AllSpans(w))
    <3>1. f \in [P -> AllSpans(w)]
      BY DEF AllSpans
    <3>2. ASSUME NEW s \in AllSpans(w) PROVE \E p \in P : f[p] = s
      <4> DEFINE p == << s[1], << s[2], s[3] >> >>
      <4>1. s = << s[1], s[2], s[3] >> /\ p \in P
        BY <3>2 DEF AllSpans
      <4>2. f[p] = << s[1], s[2], s[3] >>
        BY <4>1
      <4> QED
        BY <4>1, <4>2
    <3> HIDE DEF f
    <3> QED
      BY <3>1, <3>2 DEF Surjection
  <2>2. IsFiniteSet(P)
    BY <1>1, <1>2, FS_Product
  <2> HIDE DEF f, P
  <2> QED
    BY <2>1, <2>2, FS_Surjection
<1> QED
  BY <1>1, <1>2, <1>3

\* A chain of subsets of a finite set has a last stage.
LEMMA LastStageFixed ==
  ASSUME NEW T, IsFiniteSet(T), NEW stage \in [Nat -> SUBSET T],
         \A n \in Nat : stage[n] \subseteq stage[n + 1]
  PROVE  \E n \in Nat : LastStage(stage, T) = stage[n] /\ stage[n + 1] = stage[n]
<1> DEFINE n == CHOOSE n \in 0 .. Cardinality(T) : stage[n + 1] = stage[n]
<1>1. n \in 0 .. Cardinality(T) /\ stage[n + 1] = stage[n]
  BY ChainStops
<1>2. LastStage(stage, T) = stage[n]
  BY DEF LastStage
<1>3. n \in Nat
  BY <1>1, FS_CardinalityType
<1> HIDE DEF n
<1> QED
  BY <1>1, <1>2, <1>3

\* The spans are closed under the rules, and each is derived in some stage.
LEMMA SpansFixed ==
  ASSUME NEW w, Len(w) \in Nat
  PROVE  /\ Derived(w, Spans(w)) = Spans(w)
         /\ \E n \in Nat : Spans(w) = SpanStages(w)[n]
<1>1. PICK n \in Nat : /\ LastStage(SpanStages(w), AllSpans(w)) = SpanStages(w)[n]
                       /\ SpanStages(w)[n + 1] = SpanStages(w)[n]
  <2> DEFINE stage == SpanStages(w)
             T == AllSpans(w)
  <2>1. stage \in [Nat -> SUBSET T] /\ \A n \in Nat : stage[n] \subseteq stage[n + 1]
    BY SpanStagesSteps
  <2>2. IsFiniteSet(T)
    BY AllSpansFinite
  <2> HIDE DEF stage, T
  <2>3. \E n \in Nat : LastStage(stage, T) = stage[n] /\ stage[n + 1] = stage[n]
    BY <2>1, <2>2, LastStageFixed
  <2> QED
    BY <2>3 DEF stage, T
<1> QED
  BY <1>1, SpanStagesSteps DEF Spans

\* What begins in a derivation, without the unions.
LEMMA InBegunIn ==
  ASSUME NEW w, NEW spans, NEW A, NEW a, NEW e
  PROVE  e \in BegunIn(w, spans, A, a) <=>
           \E r \in DOMAIN CFG : \E d \in DOMAIN CFG[r].rhs :
             /\ CFG[r].lhs = A
             /\ CFG[r].rhs[d] \in LeftSides
             /\ \E b \in StringEnds(w, spans, CFG[r].rhs, a)[d - 1] : e = << CFG[r].rhs[d], b >>
<1> DEFINE Of(r, d) == { << CFG[r].rhs[d], b >> : b \in StringEnds(w, spans, CFG[r].rhs, a)[d - 1] }
           Ds(r) == { d \in DOMAIN CFG[r].rhs : CFG[r].rhs[d] \in LeftSides }
           OfRule(r) == UNION { Of(r, d) : d \in Ds(r) }
<1>1. BegunIn(w, spans, A, a) = UNION { OfRule(r) : r \in RulesOf(A) }
  BY DEF BegunIn
<1>2. \A r, d : e \in Of(r, d) <=>
        \E b \in StringEnds(w, spans, CFG[r].rhs, a)[d - 1] : e = << CFG[r].rhs[d], b >>
  OBVIOUS
<1>3. \A r : \A d : d \in Ds(r) <=> d \in DOMAIN CFG[r].rhs /\ CFG[r].rhs[d] \in LeftSides
  OBVIOUS
<1> HIDE DEF Of, Ds
<1>4. \A r : e \in OfRule(r) <=> \E d \in Ds(r) : e \in Of(r, d)
  OBVIOUS
<1> HIDE DEF OfRule
<1>5. e \in UNION { OfRule(r) : r \in RulesOf(A) } <=> \E r \in RulesOf(A) : e \in OfRule(r)
  OBVIOUS
<1>6. \A r : r \in RulesOf(A) <=> r \in DOMAIN CFG /\ CFG[r].lhs = A
  BY DEF RulesOf
<1>7. e \in BegunIn(w, spans, A, a) <=>
        \E r \in DOMAIN CFG : CFG[r].lhs = A /\ \E d \in Ds(r) : e \in Of(r, d)
  BY <1>1, <1>4, <1>5, <1>6
<1>8. ASSUME NEW r
      PROVE  (\E d \in Ds(r) : e \in Of(r, d)) <=>
               \E d \in DOMAIN CFG[r].rhs :
                 /\ CFG[r].rhs[d] \in LeftSides
                 /\ \E b \in StringEnds(w, spans, CFG[r].rhs, a)[d - 1] : e = << CFG[r].rhs[d], b >>
  BY <1>2, <1>3
<1> QED
  BY <1>7, <1>8, Zenon

\* It begins at a position.
LEMMA BegunInType ==
  ASSUME NEW w, NEW spans, NEW A, NEW a \in Positions(w)
  PROVE  BegunIn(w, spans, A, a) \subseteq AllBegun(w)
<1> SUFFICES ASSUME NEW e \in BegunIn(w, spans, A, a) PROVE e \in AllBegun(w)
  OBVIOUS
<1>0. PICK r \in DOMAIN CFG : \E d \in DOMAIN CFG[r].rhs :
        /\ CFG[r].lhs = A
        /\ CFG[r].rhs[d] \in LeftSides
        /\ \E b \in StringEnds(w, spans, CFG[r].rhs, a)[d - 1] : e = << CFG[r].rhs[d], b >>
  BY InBegunIn
<1>1. PICK d \in DOMAIN CFG[r].rhs :
        /\ CFG[r].rhs[d] \in LeftSides
        /\ \E b \in StringEnds(w, spans, CFG[r].rhs, a)[d - 1] : e = << CFG[r].rhs[d], b >>
  BY <1>0
<1>2. PICK b \in StringEnds(w, spans, CFG[r].rhs, a)[d - 1] : e = << CFG[r].rhs[d], b >>
  BY <1>1
<1>3. d - 1 \in Nat
  BY RuleLength
<1>4. b \in Positions(w)
  BY <1>2, <1>3, StringEndsSteps
<1> QED
  BY <1>1, <1>2, <1>4 DEF AllBegun

\* A step of that relation, and what it keeps.
LEMMA InBegun ==
  ASSUME NEW w, NEW spans, NEW S, NEW e
  PROVE  e \in Begun(w, spans, S) <=>
           e \in S \/ \E p \in S : e \in BegunIn(w, spans, p[1], p[2])
<1> DEFINE Of(p) == {p} \cup BegunIn(w, spans, p[1], p[2])
<1>1. Begun(w, spans, S) = UNION { Of(p) : p \in S }
  BY DEF Begun
<1>2. \A p : e \in Of(p) <=> e = p \/ e \in BegunIn(w, spans, p[1], p[2])
  OBVIOUS
<1> HIDE DEF Of
<1>3. e \in UNION { Of(p) : p \in S } <=> \E p \in S : e \in Of(p)
  OBVIOUS
<1> QED
  BY <1>1, <1>2, <1>3, Zenon

\* The stages of what begins.
LEMMA BegunStagesSteps ==
  ASSUME NEW w, Len(w) \in Nat, NEW spans
  PROVE  /\ BegunStages(w, spans)[0] = { << CFG[1].lhs, 0 >> }
         /\ \A n \in Nat : BegunStages(w, spans)[n + 1] = Begun(w, spans, BegunStages(w, spans)[n])
         /\ BegunStages(w, spans) \in [Nat -> SUBSET AllBegun(w)]
         /\ \A n \in Nat : BegunStages(w, spans)[n] \subseteq BegunStages(w, spans)[n + 1]
<1> DEFINE V == SUBSET AllBegun(w)
           first == { << CFG[1].lhs, 0 >> }
           step == [p \in Nat \X V |-> Begun(w, spans, p[2])]
           F(f) == [n \in Nat |-> IF n = 0 THEN first ELSE Begun(w, spans, f[n - 1])]
           g == BegunStages(w, spans)
<1>1. ASSUME NEW S \in V PROVE Begun(w, spans, S) \in V
  <2> SUFFICES ASSUME NEW e \in Begun(w, spans, S) PROVE e \in AllBegun(w)
    OBVIOUS
  <2>1. CASE e \in S
    BY <2>1
  <2>2. CASE \E p \in S : e \in BegunIn(w, spans, p[1], p[2])
    <3>1. PICK p \in S : e \in BegunIn(w, spans, p[1], p[2])
      BY <2>2
    <3>2. p[2] \in Positions(w)
      BY DEF AllBegun
    <3> QED
      BY <3>1, <3>2, BegunInType
  <2> QED
    BY <2>1, <2>2, InBegun
<1>2. first \in V
  <2>1. 1 \in DOMAIN CFG /\ 0 \in Positions(w)
    BY GrammarAssumption DEF Positions
  <2> QED
    BY <2>1 DEF AllBegun, LeftSides
<1>3. \A f : F(f) = [n \in Nat |-> IF n = 0 THEN first ELSE Begun(w, spans, f[n - 1])]
  OBVIOUS
<1>4. g = CHOOSE f : f = F(f)
  BY DEF BegunStages
<1>5. step = [p \in Nat \X V |-> Begun(w, spans, p[2])]
  OBVIOUS
<1>0. first = { << CFG[1].lhs, 0 >> }
  OBVIOUS
<1> HIDE DEF V, step, F, g, first
<1>6. step \in [Nat \X V -> V]
  BY <1>1, <1>5
<1>7. PICK f : Recursive(f, V, first, step)
  BY <1>2, <1>6, RecursionExists
<1>8. f \in [Nat -> V] /\ f[0] = first /\ \A n \in Nat : f[n + 1] = step[<< n, f[n] >>]
  BY <1>7 DEF Recursive
<1>9. \A n \in Nat : n # 0 => f[n] = Begun(w, spans, f[n - 1])
  <2> SUFFICES ASSUME NEW n \in Nat, n # 0 PROVE f[n] = Begun(w, spans, f[n - 1])
    OBVIOUS
  <2>1. PICK m \in Nat : m = n - 1 /\ n = m + 1
    OBVIOUS
  <2>2. f[n] = step[<< m, f[m] >>]
    BY <1>8, <2>1
  <2>3. << m, f[m] >> \in Nat \X V
    BY <1>8
  <2> QED
    BY <1>5, <2>1, <2>2, <2>3
<1>10. f = F(f)
  BY <1>3, <1>8, <1>9
<1>11. g = F(g)
  BY <1>4, <1>10
<1>12. g[0] = first /\ \A n \in Nat : g[n + 1] = Begun(w, spans, g[n])
  BY <1>3, <1>11
<1> DEFINE S == { n \in Nat : g[n] \in V }
<1>13. 0 \in S
  BY <1>2, <1>12
<1>14. ASSUME NEW n \in Nat, n \in S PROVE n + 1 \in S
  <2>1. g[n] \in V
    BY <1>14
  <2>2. Begun(w, spans, g[n]) \in V
    BY <1>1, <2>1
  <2>3. g[n + 1] = Begun(w, spans, g[n])
    BY <1>12
  <2> QED
    BY <2>2, <2>3
<1> HIDE DEF S
<1>15. \A n \in Nat : n \in S
  BY <1>13, <1>14, Induction
<1>16. g \in [Nat -> V]
  <2>1. g = [n \in Nat |-> IF n = 0 THEN first ELSE Begun(w, spans, g[n - 1])]
    BY <1>3, <1>11
  <2> QED
    BY <1>15, <2>1 DEF S
<1>17. \A n \in Nat : g[n] \subseteq g[n + 1]
  <2> SUFFICES ASSUME NEW n \in Nat, NEW e \in g[n] PROVE e \in g[n + 1]
    OBVIOUS
  <2>1. e \in Begun(w, spans, g[n])
    BY InBegun
  <2> QED
    BY <1>12, <2>1
<1> QED
  BY <1>0, <1>12, <1>16, <1>17 DEF V, g

\* What can begin is closed under the rules, and each began in some stage.
LEMMA ReachFixed ==
  ASSUME NEW w, Len(w) \in Nat, NEW spans
  PROVE  /\ Begun(w, spans, Reach(w, spans)) = Reach(w, spans)
         /\ << CFG[1].lhs, 0 >> \in Reach(w, spans)
         /\ Reach(w, spans) \subseteq AllBegun(w)
         /\ \E n \in Nat : Reach(w, spans) = BegunStages(w, spans)[n]
<1> DEFINE stage == BegunStages(w, spans)
           T == AllBegun(w)
<1>0. stage \in [Nat -> SUBSET T] /\ \A n \in Nat : stage[n] \subseteq stage[n + 1]
  BY BegunStagesSteps
<1>1. /\ stage[0] = { << CFG[1].lhs, 0 >> }
      /\ \A n \in Nat : stage[n + 1] = Begun(w, spans, stage[n])
  BY BegunStagesSteps
<1>2. IsFiniteSet(T)
  BY AllSpansFinite, FS_Product DEF AllBegun
<1>3. Reach(w, spans) = LastStage(stage, T)
  BY DEF Reach
<1> HIDE DEF stage, T
<1>4. PICK n \in Nat : LastStage(stage, T) = stage[n] /\ stage[n + 1] = stage[n]
  BY <1>0, <1>2, LastStageFixed
<1> DEFINE S == { m \in Nat : << CFG[1].lhs, 0 >> \in stage[m] }
<1>5. 0 \in S /\ \A m \in Nat : m \in S => m + 1 \in S
  BY <1>0, <1>1
<1> HIDE DEF S
<1>6. \A m \in Nat : m \in S
  BY <1>5, Induction
<1>7. Begun(w, spans, stage[n]) = stage[n] /\ stage[n] \subseteq T
  BY <1>0, <1>1, <1>4
<1>8. << CFG[1].lhs, 0 >> \in stage[n]
  BY <1>6 DEF S
<1>9. Reach(w, spans) = stage[n]
  BY <1>3, <1>4
<1> QED
  BY <1>7, <1>8, <1>9 DEF stage, T

-----------------------------------------------------------------------------
(* No more than the reference: what the chart says is derived.             *)

\* An element of list k says that its left-hand side may begin where the
\* element started, and that what is before its dot derives the tokens up to k.
Derivable(el, k) ==
  /\ << Lhs(el), el.start >> \in Reach(tokens, Spans(tokens))
  /\ k \in StringEnds(tokens, Spans(tokens), Rhs(el), el.start)[el.dot]

Sound == \A f \in ChartFacts : Derivable(f.el, f.at)

\* A fact of a good chart.
LEMMA FactType ==
  ASSUME TypeOK, ChartInBounds, NoDuplicates, NEW f \in ChartFacts
  PROVE  /\ f.at \in Positions(tokens)
         /\ f.el \in ElemsAt(f.at + 1)
         /\ f.el.rule \in DOMAIN CFG
         /\ f.el.start \in Positions(tokens)
         /\ f.el.dot \in Nat
<1>1. PICK k \in DOMAIN chart : \E n \in DOMAIN chart[k] : f = [el |-> chart[k][n], at |-> k - 1]
  BY FactsOfChart, InFacts, Zenon
<1>2. PICK n \in DOMAIN chart[k] : f = [el |-> chart[k][n], at |-> k - 1]
  BY <1>1
<1>3. /\ chart \in Seq(Seq(Elem)) /\ tokens \in Seq(Token)
      /\ Len(chart) \in 1 .. (Len(tokens) + 1)
  BY DEF TypeOK, ChartInBounds
<1>4. k \in 1 .. Len(chart) /\ k - 1 \in 0 .. Len(tokens) /\ (k - 1) + 1 = k /\ k \in Nat
  BY <1>3
<1>5. chart[k][n] \in ElemsAt(k)
  BY InvGoodChart DEF GoodChart
<1>6. f.at = k - 1 /\ f.el = chart[k][n]
  BY <1>2
<1>7. /\ f.el.rule \in 1 .. Len(CFG) /\ f.el.start \in Nat /\ f.el.dot \in Nat
      /\ f.el.start < k
  BY <1>4, <1>5, <1>6, ElemFields
<1>8. DOMAIN CFG = 1 .. Len(CFG)
  BY GrammarAssumption
<1>9. f.el.start \in 0 .. Len(tokens)
  BY <1>3, <1>4, <1>7
<1> QED
  BY <1>4, <1>5, <1>6, <1>7, <1>8, <1>9 DEF Positions

\* What follows by one of Earley's rules from derivable facts is derivable.
LEMMA FollowsDerivable ==
  ASSUME TypeOK, ChartInBounds, NoDuplicates, Sound, NEW f,
         f.el \in Elem, f.at \in Nat, Rules!Follows(f)
  PROVE  Derivable(f.el, f.at)
<1> DEFINE spans == Spans(tokens)
           reach == Reach(tokens, spans)
<1>0. Len(tokens) \in Nat
  BY DEF TypeOK
<1>1. Derived(tokens, spans) = spans /\ Begun(tokens, spans, reach) = reach
  BY <1>0, SpansFixed, ReachFixed
<1>2. ASSUME NEW g \in ChartFacts
      PROVE  /\ g.at \in Positions(tokens) /\ g.el.start \in Positions(tokens)
             /\ g.el.dot \in Nat /\ g.el.rule \in DOMAIN CFG
             /\ Rhs(g.el) \in Seq(Symbols) /\ g.el.dot <= Len(Rhs(g.el))
             /\ << Lhs(g.el), g.el.start >> \in reach
             /\ g.at \in StringEnds(tokens, spans, Rhs(g.el), g.el.start)[g.el.dot]
  <2>1. /\ g.at \in Positions(tokens) /\ g.el.start \in Positions(tokens)
        /\ g.el.dot \in Nat /\ g.el.rule \in DOMAIN CFG /\ g.el \in ElemsAt(g.at + 1)
    BY FactType
  <2>2. g.at + 1 \in Nat
    BY <1>0, <2>1 DEF Positions
  <2>3. Rhs(g.el) \in Seq(Symbols) /\ g.el.dot <= Len(Rhs(g.el))
    BY <2>1, <2>2, ElemFields
  <2>4. Derivable(g.el, g.at)
    BY DEF Sound
  <2> QED
    BY <2>1, <2>3, <2>4 DEF Derivable
<1> HIDE DEF spans, reach
<1>3. \A g \in ChartFacts : ~ IsComplete(g.el) =>
        /\ g.el.dot + 1 \in DOMAIN Rhs(g.el)
        /\ NextSymbol(g.el) = Rhs(g.el)[g.el.dot + 1]
        /\ (g.el.dot + 1) - 1 = g.el.dot
  <2> SUFFICES ASSUME NEW g \in ChartFacts, ~ IsComplete(g.el)
               PROVE  g.el.dot + 1 \in DOMAIN Rhs(g.el) /\ (g.el.dot + 1) - 1 = g.el.dot
    BY DEF NextSymbol
  <2>1. g.el.dot \in Nat /\ Rhs(g.el) \in Seq(Symbols) /\ g.el.dot <= Len(Rhs(g.el))
    BY <1>2
  <2>2. g.el.dot # Len(Rhs(g.el))
    BY DEF IsComplete
  <2> QED
    BY <2>1, <2>2
<1>4. ASSUME NEW g \in ChartFacts, ~ IsComplete(g.el),
             NEW k, k \in SymbolEnds(tokens, spans, NextSymbol(g.el), g.at)
      PROVE  Derivable(Advance(g.el), k)
  <2>1. /\ Lhs(Advance(g.el)) = Lhs(g.el) /\ Rhs(Advance(g.el)) = Rhs(g.el)
        /\ Advance(g.el).start = g.el.start /\ Advance(g.el).dot = g.el.dot + 1
    <3>1. g.el \in Elem
      BY FactType DEF ElemsAt
    <3>2. /\ Advance(g.el).rule = g.el.rule /\ Advance(g.el).start = g.el.start
          /\ Advance(g.el).dot = g.el.dot + 1
      BY <3>1 DEF Advance, Elem
    <3> QED
      BY <3>2 DEF Lhs, Rhs
  <2>2. StringEnds(tokens, spans, Rhs(g.el), g.el.start)[g.el.dot + 1] =
          UNION { SymbolEnds(tokens, spans, Rhs(g.el)[g.el.dot + 1], b) :
                  b \in StringEnds(tokens, spans, Rhs(g.el), g.el.start)[g.el.dot] }
    <3>1. g.el.start \in Positions(tokens) /\ g.el.dot \in Nat
      BY <1>2
    <3> QED
      BY <3>1, StringEndsSteps
  <2>3. k \in StringEnds(tokens, spans, Rhs(g.el), g.el.start)[g.el.dot + 1]
    BY <1>2, <1>3, <1>4, <2>2
  <2> QED
    BY <1>2, <2>1, <2>3 DEF Derivable, spans, reach
<1>5. CASE Rules!Predicted(f)
  <2>1. PICK g \in ChartFacts : g.at = f.at /\ Expects(g.el, Lhs(f.el))
    BY <1>5 DEF Rules!Predicted, Rules!Expects, Rules!Lhs, Expects, Lhs, Rules!IsComplete,
         IsComplete, Rules!NextSymbol, NextSymbol, Rules!Rhs, Rhs
  <2>2. f.el.dot = 0 /\ f.el.start = f.at
    BY <1>5 DEF Rules!Predicted
  <2>3. /\ g.el.dot + 1 \in DOMAIN Rhs(g.el)
        /\ Lhs(f.el) = Rhs(g.el)[g.el.dot + 1]
        /\ (g.el.dot + 1) - 1 = g.el.dot
    <3>1. ~ IsComplete(g.el) /\ NextSymbol(g.el) = Lhs(f.el)
      BY <2>1 DEF Expects
    <3> QED
      BY <1>3, <3>1
  <2>4. f.el.rule \in DOMAIN CFG /\ Lhs(f.el) \in LeftSides
    BY GrammarAssumption DEF Elem, LeftSides, Lhs
  <2> DEFINE r == g.el.rule
             d == g.el.dot + 1
  <2>5. /\ r \in DOMAIN CFG /\ d \in DOMAIN CFG[r].rhs
        /\ CFG[r].lhs = Lhs(g.el) /\ CFG[r].rhs[d] \in LeftSides
        /\ f.at \in StringEnds(tokens, spans, CFG[r].rhs, g.el.start)[d - 1]
        /\ << Lhs(f.el), f.at >> = << CFG[r].rhs[d], f.at >>
    BY <1>2, <2>1, <2>3, <2>4 DEF Lhs, Rhs
  <2> HIDE DEF r, d
  <2>6. << Lhs(f.el), f.at >> \in BegunIn(tokens, spans, Lhs(g.el), g.el.start)
    BY <2>5, InBegunIn
  <2>7. << Lhs(f.el), f.at >> \in Begun(tokens, spans, reach)
    <3> DEFINE p == << Lhs(g.el), g.el.start >>
    <3>1. p \in reach /\ << Lhs(f.el), f.at >> \in BegunIn(tokens, spans, p[1], p[2])
      BY <1>2, <2>6
    <3> HIDE DEF p
    <3> QED
      BY <3>1, InBegun
  <2>8. StringEnds(tokens, spans, Rhs(f.el), f.at)[0] = {f.at}
    <3>1. f.at \in Positions(tokens)
      BY <1>2, <2>1
    <3> QED
      BY <3>1, StringEndsSteps
  <2> QED
    BY <1>1, <2>2, <2>7, <2>8 DEF Derivable, spans, reach
<1>6. CASE Rules!Scanned(f)
  <2>1. PICK g \in ChartFacts :
          /\ g.at < Len(tokens) /\ f.at = g.at + 1
          /\ Expects(g.el, tokens[f.at].type) /\ f.el = Advance(g.el)
    BY <1>6 DEF Rules!Scanned, Rules!Expects, Rules!Advance, Expects, Advance,
         Rules!IsComplete, IsComplete, Rules!NextSymbol, NextSymbol, Rules!Rhs, Rhs
  <2>2. f.at \in 1 .. Len(tokens) /\ f.at \in Positions(tokens)
    <3>1. g.at \in 0 .. Len(tokens)
      BY <1>2 DEF Positions
    <3> QED
      BY <1>0, <2>1, <3>1 DEF Positions
  <2>3. tokens[f.at].type \in Terminals
    <3>1. tokens[f.at] \in Token
      BY <2>2 DEF TypeOK
    <3> QED
      BY <3>1 DEF Token
  <2>4. f.at \in SymbolEnds(tokens, spans, NextSymbol(g.el), g.at)
    BY <2>1, <2>2, <2>3 DEF SymbolEnds, Expects
  <2> QED
    BY <1>4, <2>1, <2>4 DEF Expects
<1>7. CASE Rules!Skipped(f)
  <2>1. PICK g \in ChartFacts :
          /\ f.at = g.at /\ ~ IsComplete(g.el) /\ Nullable(NextSymbol(g.el))
          /\ f.el = Advance(g.el)
    BY <1>7 DEF Rules!Skipped, Rules!IsComplete, IsComplete, Rules!NextSymbol, NextSymbol,
         Rules!Rhs, Rhs, Rules!Nullable, Nullable, Rules!Advance, Advance
  <2>2. PICK r \in DOMAIN CFG : CFG[r].lhs = NextSymbol(g.el) /\ CFG[r].rhs = << >>
    BY <2>1 DEF Nullable
  <2>3. NextSymbol(g.el) \notin Terminals
    BY <2>2, RuleLength, GrammarAssumption
  <2>4. g.at \in StringEnds(tokens, spans, CFG[r].rhs, g.at)[Len(CFG[r].rhs)]
    <3>1. g.at \in Positions(tokens) /\ Len(CFG[r].rhs) = 0
      BY <1>2, <2>2
    <3>2. StringEnds(tokens, spans, CFG[r].rhs, g.at)[0] = {g.at}
      BY <3>1, StringEndsSteps
    <3> QED
      BY <3>1, <3>2
  <2>5. << NextSymbol(g.el), g.at, g.at >> \in Derived(tokens, spans)
    BY <1>2, <2>2, <2>4, InDerived
  <2>6. g.at \in SymbolEnds(tokens, spans, NextSymbol(g.el), g.at)
    BY <1>1, <1>2, <2>3, <2>5 DEF SymbolEnds
  <2> QED
    BY <1>4, <2>1, <2>6
<1>8. CASE Rules!Completed(f)
  <2>1. PICK g \in ChartFacts, h \in ChartFacts :
          /\ h.at = f.at /\ IsComplete(h.el) /\ g.at = h.el.start
          /\ Expects(g.el, Lhs(h.el)) /\ f.el = Advance(g.el)
    BY <1>8 DEF Rules!Completed, Rules!Expects, Expects, Rules!IsComplete, IsComplete,
         Rules!NextSymbol, NextSymbol, Rules!Rhs, Rhs, Rules!Lhs, Lhs, Rules!Advance, Advance
  <2> DEFINE r == h.el.rule
  <2>2. /\ r \in DOMAIN CFG /\ CFG[r].lhs = NextSymbol(g.el)
        /\ h.at \in StringEnds(tokens, spans, CFG[r].rhs, g.at)[Len(CFG[r].rhs)]
        /\ ~ IsComplete(g.el)
    BY <1>2, <2>1 DEF IsComplete, Expects, Lhs, Rhs
  <2> HIDE DEF r
  <2>3. NextSymbol(g.el) \notin Terminals
    BY <2>2, RuleLength, GrammarAssumption
  <2>4. << NextSymbol(g.el), g.at, h.at >> \in Derived(tokens, spans)
    BY <1>2, <2>2, InDerived
  <2>5. h.at \in SymbolEnds(tokens, spans, NextSymbol(g.el), g.at)
    BY <1>1, <1>2, <2>3, <2>4 DEF SymbolEnds
  <2> QED
    BY <1>4, <2>1, <2>2, <2>5
<1> QED
  BY <1>5, <1>6, <1>7, <1>8 DEF Rules!Follows

\* An element that an iteration of a handler adds follows by one of the rules.
LEMMA StepFollows ==
  ASSUME IInv, [Next]_vars
  PROVE  /\ tokens' = tokens
         /\ \/ UNCHANGED chart
            \/ /\ GoodChart(chart') /\ Extends(chart', chart)
               /\ \A f \in ChartFacts' \ ChartFacts : Rules!Follows(f)
<1>1. CASE PredictRule
  BY <1>1, PredictRuleGrows, PredictFollows DEF PredictRule, Grows
<1>2. CASE ScanElem
  BY <1>2, ScanElemGrows, ScanFollows DEF ScanElem, Grows
<1>3. CASE CompleteElem
  BY <1>3, CompleteElemGrows, CompleteFollows DEF CompleteElem, Grows
<1>4. CASE UNCHANGED << tokens, chart >>
  BY <1>4
<1> QED
  BY <1>1, <1>2, <1>3, <1>4
     DEF Next, Step, BeginList, InvalidToken, EndList, CallCompleter, CallScanner,
         CallPredictor, PredictorReturns, ScannerReturns, CompleterNext,
         CompleterReturns, Accept, InvalidCode, PopulateElem, PopulateNextList,
         PopulateDone, Terminated, vars

\* The facts of a good chart are about elements.
LEMMA GoodFacts ==
  ASSUME NEW ch, GoodChart(ch), NEW f \in Facts(ch)
  PROVE  f.el \in Elem /\ f.at \in Nat
<1>1. PICK k \in DOMAIN ch : \E n \in DOMAIN ch[k] : f = [el |-> ch[k][n], at |-> k - 1]
  BY InFacts, Zenon
<1>2. PICK n \in DOMAIN ch[k] : f = [el |-> ch[k][n], at |-> k - 1]
  BY <1>1
<1>3. k - 1 \in Nat /\ ch[k] \in Seq(Elem)
  BY DEF GoodChart
<1> QED
  BY <1>2, <1>3

\* The chart says nothing but what is derived.
LEMMA InitSound == Init => Sound
<1> SUFFICES ASSUME Init PROVE Sound
  OBVIOUS
<1>1. chart \in Seq(Seq(Elem)) /\ Len(chart) = 1 /\ chart[1] = << StartElem >>
  BY InitChart
<1>2. DOMAIN chart = {1} /\ DOMAIN chart[1] = {1} /\ chart[1][1] = StartElem /\ 1 - 1 = 0
  BY <1>1
<1>3. ChartFacts = {[el |-> StartElem, at |-> 0]}
  BY <1>2 DEF ChartFacts
<1>4. Len(tokens) \in Nat /\ 0 \in Positions(tokens)
  BY InitInv DEF IInv, TypeOK, Positions
<1>5. StringEnds(tokens, Spans(tokens), Rhs(StartElem), 0)[0] = {0}
  BY <1>4, StringEndsSteps
<1>6. << CFG[1].lhs, 0 >> \in Reach(tokens, Spans(tokens))
  BY <1>4, ReachFixed
<1>7. Derivable(StartElem, 0)
  BY <1>5, <1>6 DEF Derivable, StartElem, Lhs
<1> QED
  BY <1>3, <1>7 DEF Sound

\* Every step keeps the chart sound: it adds at most a fact that follows.
LEMMA NextSound == IInv /\ Sound /\ [Next]_vars => Sound'
<1> SUFFICES ASSUME IInv, Sound, [Next]_vars PROVE Sound'
  OBVIOUS
<1>1. /\ tokens' = tokens
      /\ \/ UNCHANGED chart
         \/ /\ GoodChart(chart')
            /\ \A f \in ChartFacts' \ ChartFacts : Rules!Follows(f)
  BY StepFollows
<1>2. \A el, k : Derivable(el, k)' <=> Derivable(el, k)
  BY <1>1 DEF Derivable
<1>3. CASE UNCHANGED chart
  BY <1>2, <1>3 DEF Sound, ChartFacts
<1>4. CASE /\ GoodChart(chart')
           /\ \A f \in ChartFacts' \ ChartFacts : Rules!Follows(f)
  <2> SUFFICES ASSUME NEW f \in ChartFacts' PROVE Derivable(f.el, f.at)'
    BY DEF Sound
  <2>1. f \in Facts(chart')
    BY DEF ChartFacts, Facts
  <2>2. f.el \in Elem /\ f.at \in Nat
    BY <1>4, <2>1, GoodFacts
  <2>3. Derivable(f.el, f.at)
    BY <1>4, <2>2, FollowsDerivable DEF Sound, IInv
  <2> QED
    BY <1>2, <2>3
<1> QED
  BY <1>1, <1>3, <1>4

-----------------------------------------------------------------------------
(* No less than the reference: nothing is missing from walked lists.       *)

Has(ch, el, k) == k + 1 \in DOMAIN ch /\ ExistsInStateList(el, ch[k + 1])

\* What predictor() owes an element of list k for rule r, scanner() for the
\* next token, and completer() for the n-th element of the list it started in.
IsPredicted(ch, el, k, r) ==
  CFG[r].lhs = NextSymbol(el) =>
    /\ Has(ch, [rule |-> r, start |-> k, dot |-> 0], k)
    /\ Nullable(NextSymbol(el)) => Has(ch, Advance(el), k)

IsScanned(ch, w, el, k) == Expects(el, w[k + 1].type) => Has(ch, Advance(el), k + 1)

IsAdvanced(ch, el, k, n) ==
  Expects(ch[el.start + 1][n], Lhs(el)) => Has(ch, Advance(ch[el.start + 1][n]), k)

\* Nothing is owed to an element that starts where it is: what its symbol
\* comes after was skipped by predictor().
IsCompleted(ch, el, k) ==
  IsComplete(el) /\ el.start < k =>
    \A n \in DOMAIN ch[el.start + 1] : IsAdvanced(ch, el, k, n)

Processed(ch, w, el, k) ==
  /\ ~ IsComplete(el) /\ NextSymbol(el) \notin Terminals =>
       \A r \in DOMAIN CFG : IsPredicted(ch, el, k, r)
  /\ IsScanned(ch, w, el, k)
  /\ IsCompleted(ch, el, k)

\* What is in a chart stays there.
LEMMA HasExtends ==
  ASSUME NEW a \in Seq(Seq(Elem)), NEW b \in Seq(Seq(Elem)), Extends(b, a),
         NEW el, NEW k, Has(a, el, k)
  PROVE  Has(b, el, k)
<1> DEFINE m == k + 1
<1>1. m \in DOMAIN a /\ ExistsInStateList(el, a[m])
  BY DEF Has
<1> HIDE DEF m
<1>2. PICK n \in DOMAIN a[m] : a[m][n] = el
  BY <1>1 DEF ExistsInStateList
<1>3. m \in DOMAIN b
  BY <1>1 DEF Extends
<1>4. a[m] \in Seq(Elem) /\ b[m] \in Seq(Elem)
  BY <1>1, <1>3
<1>5. Len(a[m]) <= Len(b[m]) /\ b[m][n] = a[m][n]
  BY <1>1, <1>2 DEF Extends
<1>6. n \in DOMAIN b[m]
  BY <1>2, <1>4, <1>5
<1> QED
  BY <1>2, <1>3, <1>5, <1>6 DEF Has, ExistsInStateList, m

\* addToChart() leaves its element in its list.
LEMMA AddToChartHas ==
  ASSUME NEW ch \in Seq(Seq(Elem)), NEW el \in Elem, NEW k \in Nat, k <= Len(ch)
  PROVE  Has(AddToChart(ch, el, k), el, k)
<1> DEFINE new == AddToChart(ch, el, k)
           m == k + 1
<1>1. /\ new \in Seq(Seq(Elem))
      /\ Len(new) = IF k = Len(ch) THEN m ELSE Len(ch)
      /\ k < Len(ch) => \/ ExistsInStateList(el, ch[m]) /\ new[m] = ch[m]
                        \/ new[m] = Append(ch[m], el)
      /\ k = Len(ch) => new[m] = << el >>
  BY AddToChartEffect
<1> HIDE DEF new
<1>2. m \in DOMAIN new
  BY <1>1
<1>5. ExistsInStateList(el, new[m])
  <2>1. CASE k = Len(ch)
    BY <1>1, <2>1 DEF ExistsInStateList
  <2>2. CASE k < Len(ch)
    <3>1. m \in DOMAIN ch
      BY <2>2
    <3>2. ch[m] \in Seq(Elem)
      BY <3>1
    <3>3. CASE new[m] = Append(ch[m], el)
      <4>1. Len(ch[m]) + 1 \in DOMAIN new[m] /\ new[m][Len(ch[m]) + 1] = el
        BY <3>2, <3>3, AppendSeq
      <4> QED
        BY <4>1 DEF ExistsInStateList
    <3> QED
      BY <1>1, <2>2, <3>3
  <2>3. Len(ch) \in Nat
    OBVIOUS
  <2> QED
    BY <2>1, <2>2, <2>3
<1> QED
  BY <1>2, <1>5 DEF Has, new

\* An element that was processed remains so when later lists grow.
LEMMA ProcessedExtends ==
  ASSUME NEW a \in Seq(Seq(Elem)), NEW b \in Seq(Seq(Elem)), Extends(b, a),
         NEW w, NEW el, NEW k, el.start < k => b[el.start + 1] = a[el.start + 1]
  PROVE  /\ \A r : IsPredicted(a, el, k, r) => IsPredicted(b, el, k, r)
         /\ IsScanned(a, w, el, k) => IsScanned(b, w, el, k)
         /\ IsCompleted(a, el, k) => IsCompleted(b, el, k)
         /\ Processed(a, w, el, k) => Processed(b, w, el, k)
<1>1. \A e, m : Has(a, e, m) => Has(b, e, m)
  BY HasExtends
<1>2. \A r : IsPredicted(a, el, k, r) => IsPredicted(b, el, k, r)
  BY <1>1 DEF IsPredicted
<1>3. IsScanned(a, w, el, k) => IsScanned(b, w, el, k)
  BY <1>1 DEF IsScanned
<1>4. IsCompleted(a, el, k) => IsCompleted(b, el, k)
  BY <1>1 DEF IsCompleted, IsAdvanced
<1> QED
  BY <1>2, <1>3, <1>4 DEF Processed

\* What the handlers still know of the element they were called for.
CalledFor ==
  /\ pc = "predictor" => ~ IsComplete(El) /\ NextSymbol(El) \notin Terminals
  /\ pc = "scanner" => ~ IsComplete(El) /\ NextSymbol(El) \in Terminals
  /\ pc = "completer" => IsComplete(El)

\* Nothing is owed to an element of a list that was walked, nor to those of
\* the list that is being walked that come before the one at hand.
WalkedProcessed ==
  /\ \A k \in 0 .. (i - 1) : \A n \in DOMAIN List(k) : Processed(chart, tokens, List(k)[n], k)
  /\ pc \in Walking => \A n \in DOMAIN List(i) : n < j => Processed(chart, tokens, List(i)[n], i)

\* How far the handler that runs has come.
HandlerProgress ==
  /\ pc = "predictor" => \A r \in DOMAIN CFG : r < x => IsPredicted(chart, El, i, r)
  /\ pc = "scanner" =>
       \A n \in DOMAIN List(i) : n < x => IsScanned(chart, tokens, List(i)[n], i)
  /\ pc = "completer" =>
       /\ \A m \in DOMAIN List(i) : m < c => IsCompleted(chart, List(i)[m], i)
       /\ c \in DOMAIN List(i) /\ IsComplete(Completed) /\ Completed.start < i =>
            \A n \in DOMAIN Origin : n < x => IsAdvanced(chart, Completed, i, n)

\* Every list that exists has an element, and what the end of recognise() has
\* compared.
Ends ==
  /\ \A k \in DOMAIN chart : chart[k] # << >>
  /\ pc \in {"populate", "accepted"} => Len(chart) = Len(tokens) + 1
  /\ pc = "rejected" => Len(chart) = i /\ i <= Len(tokens)

Complete ==
  /\ Has(chart, StartElem, 0)
  /\ CalledFor
  /\ WalkedProcessed
  /\ HandlerProgress
  /\ Ends

\* While a handler runs, the chart grows where it does not disturb what was
\* processed.
LEMMA HandlerKeeps ==
  ASSUME IInv, Complete, pc \in Handlers, UNCHANGED << tokens, pc, i, j >>,
         GoodChart(chart'), Extends(chart', chart), \A m \in 1 .. i : chart'[m] = chart[m]
  PROVE  /\ Has(chart', StartElem, 0)
         /\ CalledFor'
         /\ WalkedProcessed'
         /\ El' = El
         /\ \A n \in DOMAIN List(i) : n \in DOMAIN List(i)' /\ List(i)'[n] = List(i)[n]
         /\ \A el, r : IsPredicted(chart, el, i, r) => IsPredicted(chart', el, i, r)
         /\ \A el : IsScanned(chart, tokens, el, i) => IsScanned(chart', tokens, el, i)
         /\ \A n \in DOMAIN List(i) :
              IsCompleted(chart, List(i)[n], i) => IsCompleted(chart', List(i)[n], i)
<1>1. /\ GoodChart(chart) /\ i \in Nat /\ Len(chart) \in {i + 1, i + 2}
      /\ List(i) \in Seq(Elem) /\ j \in DOMAIN List(i)
      /\ \A n \in DOMAIN List(i) : List(i)[n] \in ElemsAt(i + 1)
  BY InHandler
<1>2. chart \in Seq(Seq(Elem)) /\ chart' \in Seq(Seq(Elem))
  BY <1>1 DEF GoodChart
<1>3. i + 1 \in DOMAIN chart /\ i + 1 \in DOMAIN chart'
  BY <1>1, <1>2 DEF Extends
<1>4. /\ List(i)' = chart'[i + 1] /\ List(i)' \in Seq(Elem)
      /\ Len(List(i)) <= Len(List(i)')
      /\ \A n \in DOMAIN List(i) : List(i)'[n] = List(i)[n]
  BY <1>2, <1>3 DEF Extends, List
<1>5. \A n \in DOMAIN List(i) : n \in DOMAIN List(i)' /\ List(i)'[n] = List(i)[n]
  BY <1>1, <1>4
<1>6. El' = El
  BY <1>1, <1>5 DEF El
<1>7. Has(chart', StartElem, 0)
  BY <1>2, HasExtends DEF Complete
<1>8. CalledFor'
  BY <1>6 DEF Complete, CalledFor, IsComplete, NextSymbol, Rhs
<1>9. \A e, m : Has(chart, e, m) => Has(chart', e, m)
  BY <1>2, HasExtends
<1>10. \A el, r : IsPredicted(chart, el, i, r) => IsPredicted(chart', el, i, r)
  BY <1>9 DEF IsPredicted
<1>11. \A el : IsScanned(chart, tokens, el, i) => IsScanned(chart', tokens, el, i)
  BY <1>9 DEF IsScanned
<1>12. ASSUME NEW k \in 0 .. i, NEW n \in DOMAIN List(k)
       PROVE  /\ IsCompleted(chart, List(k)[n], k) => IsCompleted(chart', List(k)[n], k)
              /\ Processed(chart, tokens, List(k)[n], k) => Processed(chart', tokens, List(k)[n], k)
  <2>1. k + 1 \in DOMAIN chart /\ k + 1 \in Nat
    BY <1>1, <1>2
  <2>2. List(k)[n] \in ElemsAt(k + 1)
    BY <1>1, <2>1 DEF GoodChart, List
  <2>3. List(k)[n].start \in Nat
    BY <2>1, <2>2, ElemFields
  <2>4. List(k)[n].start < k => chart'[List(k)[n].start + 1] = chart[List(k)[n].start + 1]
    <3>1. List(k)[n].start < k => List(k)[n].start + 1 \in 1 .. i
      BY <1>1, <2>3
    <3> QED
      BY <3>1
  <2> QED
    BY <1>2, <2>4, ProcessedExtends
<1>13. WalkedProcessed'
  <2>1. ASSUME NEW k \in 0 .. (i - 1), NEW n \in DOMAIN List(k)'
        PROVE  Processed(chart', tokens, List(k)'[n], k)
    <3>1. k + 1 \in 1 .. i /\ List(k)' = chart'[k + 1] /\ List(k) = chart[k + 1] /\ k \in 0 .. i
      BY <1>1 DEF List
    <3>2. List(k)' = List(k)
      BY <3>1
    <3>3. Processed(chart, tokens, List(k)[n], k)
      BY <2>1, <3>2 DEF Complete, WalkedProcessed
    <3> QED
      BY <1>12, <2>1, <3>1, <3>2, <3>3
  <2>2. ASSUME NEW n \in DOMAIN List(i)', n < j
        PROVE  Processed(chart', tokens, List(i)'[n], i)
    <3>1. n \in DOMAIN List(i) /\ i \in 0 .. i
      BY <1>1, <1>4, <2>2
    <3>2. Processed(chart, tokens, List(i)[n], i)
      BY <2>2, <3>1 DEF Complete, WalkedProcessed, Handlers, Walking
    <3> QED
      BY <1>5, <1>12, <3>1, <3>2
  <2>3. \A k : List(k)' = chart'[k + 1]
    BY DEF List
  <2> QED
    BY <2>1, <2>2, <2>3 DEF WalkedProcessed, List
<1>14. \A n \in DOMAIN List(i) :
         IsCompleted(chart, List(i)[n], i) => IsCompleted(chart', List(i)[n], i)
  <2>1. i \in 0 .. i
    BY <1>1
  <2> QED
    BY <1>12, <2>1
<1> QED
  BY <1>5, <1>6, <1>7, <1>8, <1>10, <1>11, <1>13, <1>14

\* addToChart() starts no list without an element.
LEMMA AddToChartNonEmpty ==
  ASSUME NEW ch \in Seq(Seq(Elem)), NEW el \in Elem, NEW k \in Nat, k <= Len(ch),
         \A m \in DOMAIN ch : ch[m] # << >>
  PROVE  \A m \in DOMAIN AddToChart(ch, el, k) : AddToChart(ch, el, k)[m] # << >>
<1> DEFINE new == AddToChart(ch, el, k)
<1>1. /\ new \in Seq(Seq(Elem))
      /\ Len(new) = IF k = Len(ch) THEN k + 1 ELSE Len(ch)
      /\ \A m \in 1 .. Len(ch) : m # k + 1 => new[m] = ch[m]
      /\ k < Len(ch) => new[k + 1] = ch[k + 1] \/ new[k + 1] = Append(ch[k + 1], el)
      /\ k = Len(ch) => new[k + 1] = << el >>
  BY AddToChartEffect
<1> HIDE DEF new
<1>2. \A s \in Seq(Elem) : Append(s, el) # << >>
  OBVIOUS
<1>7. << el >> # << >>
  OBVIOUS
<1> SUFFICES ASSUME NEW m \in DOMAIN new PROVE new[m] # << >>
  BY DEF new
<1>3. m \in 1 .. Len(new) /\ Len(ch) \in Nat
  BY <1>1
<1>4. CASE m # k + 1
  <2>1. m \in 1 .. Len(ch)
    BY <1>1, <1>3, <1>4
  <2>2. m \in DOMAIN ch /\ new[m] = ch[m]
    BY <1>1, <1>4, <2>1
  <2> QED
    BY <2>2
<1>5. CASE m = k + 1 /\ k = Len(ch)
  BY <1>1, <1>5, <1>7
<1>6. CASE m = k + 1 /\ k < Len(ch)
  <2>1. m \in DOMAIN ch /\ ch[m] \in Seq(Elem)
    BY <1>3, <1>6
  <2>2. Append(ch[m], el) # << >> /\ ch[m] # << >>
    BY <1>2, <2>1
  <2> QED
    BY <1>1, <1>6, <2>2
<1> QED
  BY <1>1, <1>3, <1>4, <1>5, <1>6

\* An iteration of predictor().
LEMMA PredictRuleComplete ==
  ASSUME IInv, Complete, PredictRule
  PROVE  Complete'
<1>1. /\ GoodChart(chart) /\ i \in Nat /\ Len(chart) \in {i + 1, i + 2}
      /\ El \in ElemsAt(i + 1)
  BY InHandler DEF PredictRule, Handlers, El
<1>2. /\ pc = "predictor" /\ pc \in Handlers /\ UNCHANGED << tokens, pc, i, j >>
      /\ ~ IsComplete(El) /\ NextSymbol(El) \notin Terminals
  BY DEF PredictRule, Handlers, Complete, CalledFor
<1>3. GoodChart(chart') /\ Extends(chart', chart) /\ \A m \in 1 .. i : chart'[m] = chart[m]
  <2>1. Grows(i)
    BY PredictRuleGrows
  <2>2. \A m \in 1 .. i : m \in 1 .. Len(chart) /\ m # i + 1
    BY <1>1
  <2> QED
    BY <2>1, <2>2 DEF Grows
<1>4. PICK r \in x .. Len(CFG) :
        /\ Predicts(r)
        /\ \A q \in x .. (r - 1) : ~ Predicts(q)
        /\ LET predicted == AddToChart(chart, [rule |-> r, start |-> i, dot |-> 0], i)
           IN  chart' = IF Nullable(NextSymbol(El))
                        THEN AddToChart(predicted, Advance(El), i)
                        ELSE predicted
        /\ x' = r + 1
  BY DEF PredictRule
<1>5. x \in Nat \ {0} /\ r \in 1 .. Len(CFG) /\ r \in Nat /\ DOMAIN CFG = 1 .. Len(CFG)
  <2>1. x \in Nat \ {0} /\ Len(CFG) \in Nat /\ DOMAIN CFG = 1 .. Len(CFG)
    BY GrammarAssumption DEF IInv, TypeOK
  <2> QED
    BY <1>4, <2>1
<1> DEFINE new == [rule |-> r, start |-> i, dot |-> 0]
           predicted == AddToChart(chart, new, i)
<1>6. new \in ElemsAt(i + 1) /\ new \in Elem /\ Advance(El) \in Elem
  BY <1>1, <1>2, <1>5, PredictedElem, AdvanceElem DEF ElemsAt
<1>7. chart \in Seq(Seq(Elem)) /\ i <= Len(chart) /\ i # Len(chart)
  BY <1>1 DEF GoodChart
<1>8. predicted \in Seq(Seq(Elem)) /\ i <= Len(predicted)
  BY <1>1, <1>6, <1>7, AddToChartEffect
<1>9. Has(predicted, new, i)
  BY <1>1, <1>6, <1>7, AddToChartHas
<1>10. chart' = IF Nullable(NextSymbol(El)) THEN AddToChart(predicted, Advance(El), i)
                ELSE predicted
  BY <1>4
<1>11. \A m \in DOMAIN predicted : predicted[m] # << >>
  BY <1>1, <1>6, <1>7, AddToChartNonEmpty DEF Complete, Ends
<1> HIDE DEF predicted, new
<1>12. /\ Has(chart', new, i)
       /\ Nullable(NextSymbol(El)) => Has(chart', Advance(El), i)
       /\ \A m \in DOMAIN chart' : chart'[m] # << >>
  <2>1. CASE ~ Nullable(NextSymbol(El))
    BY <1>9, <1>10, <1>11, <2>1
  <2>2. CASE Nullable(NextSymbol(El))
    <3>1. chart' = AddToChart(predicted, Advance(El), i)
      BY <1>10, <2>2
    <3>2. Has(chart', Advance(El), i)
      BY <1>1, <1>6, <1>8, <3>1, AddToChartHas
    <3>3. \A m \in DOMAIN chart' : chart'[m] # << >>
      BY <1>1, <1>6, <1>8, <1>11, <3>1, AddToChartNonEmpty
    <3>4. \E m \in DOMAIN predicted[i + 1] : predicted[i + 1][m] = new
      BY <1>9 DEF Has, ExistsInStateList
    <3>5. Has(chart', new, i)
      <4>1. Len(predicted) = Len(chart) /\ i < Len(predicted)
        BY <1>1, <1>6, <1>7, AddToChartEffect DEF predicted
      <4>2. GoodChart(predicted)
        BY <1>1, <1>6, <1>7, AddToChartGood DEF predicted
      <4>3. Advance(El) \in ElemsAt(i + 1) /\ i + 1 \in Nat
        BY <1>1, <1>2, AdvanceElem
      <4>4. Extends(chart', predicted) /\ GoodChart(chart')
        BY <1>1, <1>8, <3>1, <4>2, <4>3, AddToChartGood
      <4> QED
        BY <1>8, <1>9, <4>4, HasExtends DEF GoodChart
    <3> QED
      BY <3>2, <3>3, <3>5
  <2> QED
    BY <2>1, <2>2
<1>13. /\ Has(chart', StartElem, 0) /\ CalledFor' /\ WalkedProcessed' /\ El' = El
       /\ \A el, q : IsPredicted(chart, el, i, q) => IsPredicted(chart', el, i, q)
  BY <1>2, <1>3, HandlerKeeps
<1>14. ASSUME NEW q \in DOMAIN CFG, q < r + 1 PROVE IsPredicted(chart', El, i, q)
  <2>1. CASE q < x
    BY <1>2, <1>13, <1>14, <2>1 DEF Complete, HandlerProgress
  <2>2. CASE q = r
    BY <1>12, <2>2 DEF IsPredicted, new
  <2>3. CASE q \in x .. (r - 1)
    BY <1>4, <2>3 DEF IsPredicted, Predicts
  <2>4. q \in Nat /\ q <= r
    BY <1>5, <1>14
  <2> QED
    BY <1>5, <2>1, <2>2, <2>3, <2>4
<1>15. HandlerProgress'
  BY <1>2, <1>4, <1>13, <1>14 DEF HandlerProgress
<1>16. Ends'
  BY <1>2, <1>12 DEF Ends
<1> QED
  BY <1>13, <1>15, <1>16 DEF Complete

\* An iteration of scanner().
LEMMA ScanElemComplete ==
  ASSUME IInv, Complete, ScanElem
  PROVE  Complete'
<1>1. /\ GoodChart(chart) /\ i \in Nat /\ Len(chart) \in {i + 1, i + 2}
      /\ List(i) \in Seq(Elem) /\ j \in DOMAIN List(i)
      /\ \A n \in DOMAIN List(i) : List(i)[n] \in ElemsAt(i + 1)
  BY InHandler DEF ScanElem, Handlers
<1>2. /\ pc = "scanner" /\ pc \in Handlers /\ UNCHANGED << tokens, pc, i, j >>
  BY DEF ScanElem, Handlers
<1>3. /\ GoodChart(chart') /\ Extends(chart', chart)
      /\ \A m \in 1 .. (i + 1) : chart'[m] = chart[m]
  <2>1. Grows(i + 1)
    BY ScanElemGrows
  <2>2. \A m \in 1 .. (i + 1) : m \in 1 .. Len(chart) /\ m # (i + 1) + 1
    BY <1>1
  <2> QED
    BY <2>1, <2>2 DEF Grows
<1>4. PICK n \in x .. Len(List(i)) :
        /\ Scans(n)
        /\ \A m \in x .. (n - 1) : ~ Scans(m)
        /\ chart' = AddToChart(chart, Advance(List(i)[n]), i + 1)
        /\ x' = n + 1
  BY DEF ScanElem
<1>5. x \in Nat \ {0} /\ n \in DOMAIN List(i) /\ n \in Nat
  <2>1. x \in Nat \ {0}
    BY DEF IInv, TypeOK
  <2> QED
    BY <1>1, <1>4, <2>1
<1>6. Advance(List(i)[n]) \in Elem
  BY <1>1, <1>4, <1>5, AdvanceElem DEF Scans, Expects, ElemsAt
<1>7. chart \in Seq(Seq(Elem)) /\ i + 1 \in Nat /\ i + 1 <= Len(chart)
  BY <1>1 DEF GoodChart
<1>8. Has(chart', Advance(List(i)[n]), i + 1)
  BY <1>4, <1>6, <1>7, AddToChartHas
<1>9. \A m \in DOMAIN chart' : chart'[m] # << >>
  BY <1>4, <1>6, <1>7, AddToChartNonEmpty DEF Complete, Ends
<1>10. /\ Has(chart', StartElem, 0) /\ CalledFor' /\ WalkedProcessed'
       /\ \A el : IsScanned(chart, tokens, el, i) => IsScanned(chart', tokens, el, i)
  <2>1. \A m \in 1 .. i : chart'[m] = chart[m]
    BY <1>1, <1>3
  <2> QED
    BY <1>2, <1>3, <2>1, HandlerKeeps
<1>11. List(i)' = List(i)
  BY <1>1, <1>2, <1>3 DEF List
<1>12. ASSUME NEW m \in DOMAIN List(i), m < n + 1
       PROVE  IsScanned(chart', tokens, List(i)[m], i)
  <2>1. CASE m < x
    BY <1>2, <1>10, <1>12, <2>1 DEF Complete, HandlerProgress
  <2>2. CASE m = n
    BY <1>8, <2>2 DEF IsScanned
  <2>3. CASE m \in x .. (n - 1)
    BY <1>4, <2>3 DEF IsScanned, Scans
  <2>4. m \in Nat /\ m <= n
    BY <1>1, <1>5, <1>12
  <2> QED
    BY <1>5, <2>1, <2>2, <2>3, <2>4
<1>13. HandlerProgress'
  BY <1>2, <1>4, <1>11, <1>12 DEF HandlerProgress
<1>14. Ends'
  BY <1>2, <1>9 DEF Ends
<1> QED
  BY <1>10, <1>13, <1>14 DEF Complete

\* An iteration of the inner loop of completer().
LEMMA CompleteElemComplete ==
  ASSUME IInv, Complete, CompleteElem
  PROVE  Complete'
<1>1. /\ GoodChart(chart) /\ i \in Nat /\ Len(chart) \in {i + 1, i + 2}
      /\ List(i) \in Seq(Elem) /\ j \in DOMAIN List(i)
      /\ \A n \in DOMAIN List(i) : List(i)[n] \in ElemsAt(i + 1)
  BY InHandler DEF CompleteElem, Handlers
<1>2. /\ pc = "completer" /\ pc \in Handlers /\ UNCHANGED << tokens, pc, i, j, c >>
  BY DEF CompleteElem, Handlers
<1>3. GoodChart(chart') /\ Extends(chart', chart) /\ \A m \in 1 .. i : chart'[m] = chart[m]
  <2>1. Grows(i)
    BY CompleteElemGrows
  <2>2. \A m \in 1 .. i : m \in 1 .. Len(chart) /\ m # i + 1
    BY <1>1
  <2> QED
    BY <2>1, <2>2 DEF Grows
<1>4. PICK n \in x .. Len(Origin) :
        /\ Completes(n)
        /\ \A m \in x .. (n - 1) : ~ Completes(m)
        /\ chart' = AddToChart(chart, Advance(Origin[n]), i)
        /\ x' = n + 1
  BY DEF CompleteElem
<1>5. /\ x \in Nat \ {0} /\ c \in DOMAIN List(i)
      /\ Completed.start + 1 \in DOMAIN chart /\ Completed.start \in Nat
  <2>1. c \in DOMAIN List(i) /\ Completed.start + 1 \in DOMAIN chart
    BY CompleteElemGrows
  <2>2. Completed.start \in Nat
    BY <1>1, <2>1, ElemFields DEF Completed
  <2> QED
    BY <2>1, <2>2 DEF IInv, TypeOK
<1>6. chart \in Seq(Seq(Elem)) /\ i <= Len(chart)
  BY <1>1 DEF GoodChart
<1>7. Origin \in Seq(Elem) /\ n \in DOMAIN Origin /\ n \in Nat
  <2>1. Origin \in Seq(Elem)
    BY <1>5, <1>6 DEF Origin, List
  <2> QED
    BY <1>4, <1>5, <2>1
<1>8. Advance(Origin[n]) \in Elem
  <2>1. Origin[n] \in ElemsAt(Completed.start + 1)
    BY <1>1, <1>5, <1>7 DEF GoodChart, Origin, List
  <2> QED
    BY <1>4, <1>5, <2>1, AdvanceElem DEF Completes, Expects, ElemsAt
<1>9. Has(chart', Advance(Origin[n]), i)
  BY <1>1, <1>4, <1>6, <1>8, AddToChartHas
<1>10. \A m \in DOMAIN chart' : chart'[m] # << >>
  BY <1>1, <1>4, <1>6, <1>8, AddToChartNonEmpty DEF Complete, Ends
<1>11. /\ Has(chart', StartElem, 0) /\ CalledFor' /\ WalkedProcessed'
       /\ \A m \in DOMAIN List(i) : m \in DOMAIN List(i)' /\ List(i)'[m] = List(i)[m]
       /\ \A m \in DOMAIN List(i) :
            IsCompleted(chart, List(i)[m], i) => IsCompleted(chart', List(i)[m], i)
  BY <1>2, <1>3, HandlerKeeps
<1>12. Completed' = Completed
  BY <1>2, <1>5, <1>11 DEF Completed
<1>13. \A e, m : Has(chart, e, m) => Has(chart', e, m)
  BY <1>3, <1>6, HasExtends DEF GoodChart
<1>14. \A m \in DOMAIN List(i)' : m < c => IsCompleted(chart', List(i)'[m], i)
  <2> SUFFICES ASSUME NEW m \in DOMAIN List(i)', m < c PROVE IsCompleted(chart', List(i)'[m], i)
    OBVIOUS
  <2>1. m \in DOMAIN List(i)
    <3>1. List(i)' \in Seq(Elem)
      BY <1>1, <1>3, <1>6, <1>2 DEF List, GoodChart, Extends
    <3> QED
      BY <1>1, <1>5, <3>1
  <2> QED
    BY <1>2, <1>11, <2>1 DEF Complete, HandlerProgress
<1>15. ASSUME Completed.start < i
       PROVE  /\ Origin' = Origin
              /\ \A m \in DOMAIN Origin : m < n + 1 => IsAdvanced(chart', Completed, i, m)
  <2>1. Completed.start + 1 \in 1 .. i
    BY <1>1, <1>5, <1>15
  <2>2. chart'[Completed.start + 1] = Origin /\ chart[Completed.start + 1] = Origin
    BY <1>3, <2>1 DEF Origin, List
  <2>3. Origin' = Origin
    BY <1>12, <2>2 DEF Origin, List
  <2>4. ASSUME NEW m \in DOMAIN Origin, m < n + 1 PROVE IsAdvanced(chart', Completed, i, m)
    <3>1. CASE m < x
      <4>1. IsAdvanced(chart, Completed, i, m)
        BY <1>2, <1>5, <1>15, <2>4, <3>1 DEF Complete, HandlerProgress, CompleteElem
      <4> QED
        BY <1>13, <2>2, <4>1 DEF IsAdvanced
    <3>2. CASE m = n
      BY <1>9, <2>2, <3>2 DEF IsAdvanced
    <3>3. CASE m \in x .. (n - 1)
      BY <1>4, <2>2, <3>3 DEF IsAdvanced, Completes
    <3>4. m \in Nat /\ m <= n
      BY <1>7, <2>4
    <3> QED
      BY <1>5, <1>7, <3>1, <3>2, <3>3, <3>4
  <2> QED
    BY <2>3, <2>4
<1>16. HandlerProgress'
  BY <1>2, <1>4, <1>12, <1>14, <1>15 DEF HandlerProgress
<1>17. Ends'
  BY <1>2, <1>10 DEF Ends
<1> QED
  BY <1>11, <1>16, <1>17 DEF Complete

\* completer() starts at the beginning of the list that an element started in.
LEMMA FromTheBeginning ==
  ASSUME IInv, pc \in Walking, NEW m \in DOMAIN List(i),
         NEW n \in DOMAIN chart[List(i)[m].start + 1]
  PROVE  ~ (n < 1)
<1>1. /\ GoodChart(chart) /\ i \in Nat /\ Len(chart) \in {i + 1, i + 2}
  BY InvGoodChart DEF IInv, TypeOK, ChartInBounds
<1>2. chart \in Seq(Seq(Elem)) /\ i + 1 \in DOMAIN chart /\ i + 1 \in Nat
  BY <1>1 DEF GoodChart
<1>3. List(i)[m] \in ElemsAt(i + 1)
  BY <1>1, <1>2 DEF GoodChart, List
<1>4. List(i)[m].start \in Nat /\ List(i)[m].start < i + 1
  BY <1>2, <1>3, ElemFields
<1>5. List(i)[m].start + 1 \in DOMAIN chart
  BY <1>1, <1>2, <1>4
<1>6. chart[List(i)[m].start + 1] \in Seq(Elem)
  BY <1>2, <1>5
<1> QED
  BY <1>6

\* The other steps leave the chart as it is.
LEMMA CompleterNextComplete ==
  ASSUME IInv, Complete, CompleterNext
  PROVE  Complete'
<1>1. /\ GoodChart(chart) /\ i \in Nat /\ Len(chart) \in {i + 1, i + 2}
      /\ List(i) \in Seq(Elem) /\ j \in DOMAIN List(i)
      /\ \A n \in DOMAIN List(i) : List(i)[n] \in ElemsAt(i + 1)
  BY InHandler DEF CompleterNext, Handlers
<1>2. /\ pc = "completer" /\ pc' = pc /\ UNCHANGED << tokens, chart, i, j >>
      /\ c <= Len(List(i)) /\ c' = c + 1 /\ x' = 1
      /\ IsComplete(Completed) => \A n \in x .. Len(Origin) : ~ Completes(n)
  BY DEF CompleterNext
<1>3. c \in DOMAIN List(i) /\ c \in Nat
  BY <1>1, <1>2 DEF IInv, TypeOK, HandlerInv
<1>4. IsCompleted(chart, Completed, i)
  <2> SUFFICES ASSUME IsComplete(Completed), Completed.start < i,
                      NEW n \in DOMAIN chart[Completed.start + 1]
               PROVE  IsAdvanced(chart, Completed, i, n)
    BY DEF IsCompleted
  <2>1. Origin = chart[Completed.start + 1]
    BY DEF Origin, List
  <2>2. CASE n < x
    BY <1>2, <1>3, <2>1, <2>2 DEF Complete, HandlerProgress
  <2>3. CASE n \in x .. Len(Origin)
    BY <1>2, <2>1, <2>3 DEF IsAdvanced, Completes
  <2>4. n \in 1 .. Len(Origin) /\ x \in Nat
    <3>1. Completed.start \in Nat
      BY <1>1, <1>3, ElemFields DEF Completed
    <3>2. Completed.start + 1 \in DOMAIN chart /\ chart \in Seq(Seq(Elem))
      BY <1>1, <3>1 DEF GoodChart
    <3>3. Origin \in Seq(Elem)
      BY <2>1, <3>2
    <3> QED
      BY <2>1, <3>3 DEF IInv, TypeOK
  <2> QED
    BY <2>2, <2>3, <2>4
<1>5. \A m \in DOMAIN List(i) : m < c + 1 => IsCompleted(chart, List(i)[m], i)
  <2> SUFFICES ASSUME NEW m \in DOMAIN List(i), m < c + 1
               PROVE  IsCompleted(chart, List(i)[m], i)
    OBVIOUS
  <2>1. CASE m < c
    BY <1>2, <2>1 DEF Complete, HandlerProgress
  <2>2. CASE m = c
    BY <1>4, <2>2 DEF Completed
  <2>3. m \in Nat
    BY <1>1
  <2> QED
    BY <1>3, <2>1, <2>2, <2>3
<1>6. List(i)' = List(i) /\ El' = El
  BY <1>2 DEF List, El
<1>7. HandlerProgress'
  <2>1. c' \in DOMAIN List(i) => \A n \in DOMAIN Origin' : ~ (n < x')
    <3> SUFFICES ASSUME c' \in DOMAIN List(i), NEW n \in DOMAIN Origin' PROVE ~ (n < 1)
      BY <1>2
    <3>1. Origin' = chart[List(i)[c'].start + 1]
      BY <1>2, <1>6 DEF Origin, List, Completed
    <3> QED
      BY <1>2, <3>1, FromTheBeginning DEF Walking, Handlers
  <2> QED
    BY <1>2, <1>5, <1>6, <2>1 DEF HandlerProgress
<1>8. CalledFor' /\ WalkedProcessed' /\ Ends' /\ Has(chart, StartElem, 0)'
  BY <1>2, <1>6
     DEF Complete, CalledFor, WalkedProcessed, Ends, List, IsComplete, NextSymbol, Rhs, Has,
         ExistsInStateList
<1> QED
  BY <1>7, <1>8 DEF Complete

\* recognise() calls a handler for the element at hand.
LEMMA CallComplete ==
  ASSUME IInv, Complete, CallCompleter \/ CallScanner \/ CallPredictor
  PROVE  Complete'
<1>1. /\ pc = "elems" /\ UNCHANGED << tokens, chart, i, j >> /\ x' = 1
      /\ pc' \in Handlers
  BY DEF CallCompleter, CallScanner, CallPredictor, Handlers
<1>2. List(i)' = List(i) /\ El' = El
  BY <1>1 DEF List, El
<1>3. CalledFor'
  <2>1. /\ pc' = "predictor" => ~ IsComplete(El) /\ NextSymbol(El) \notin Terminals
        /\ pc' = "scanner" => ~ IsComplete(El) /\ NextSymbol(El) \in Terminals
        /\ pc' = "completer" => IsComplete(El)
    BY DEF CallCompleter, CallScanner, CallPredictor
  <2> QED
    BY <1>2, <2>1 DEF CalledFor, IsComplete, NextSymbol, Rhs
<1>4. WalkedProcessed' /\ Ends' /\ Has(chart, StartElem, 0)'
  BY <1>1, <1>2
     DEF Complete, WalkedProcessed, Ends, List, Has, ExistsInStateList, Handlers, Walking
<1>5. HandlerProgress'
  <2>1. pc' = "predictor" => \A r \in DOMAIN CFG : ~ (r < x')
    <3>1. DOMAIN CFG = 1 .. Len(CFG)
      BY GrammarAssumption
    <3> QED
      BY <1>1, <3>1
  <2>2. List(i) \in Seq(Elem)
    <3>1. chart \in Seq(Seq(Elem)) /\ i + 1 \in DOMAIN chart
      BY <1>1 DEF IInv, TypeOK, ChartInBounds, Walking
    <3> QED
      BY <3>1 DEF List
  <2>3. \A n \in DOMAIN List(i) : ~ (n < 1)
    BY <2>2
  <2>4. pc' = "completer" => c' = 1
    BY DEF CallCompleter, CallScanner, CallPredictor
  <2>5. c' \in DOMAIN List(i) => \A n \in DOMAIN Origin' : ~ (n < x')
    <3> SUFFICES ASSUME c' \in DOMAIN List(i), NEW n \in DOMAIN Origin' PROVE ~ (n < 1)
      BY <1>1
    <3>1. Origin' = chart[List(i)[c'].start + 1]
      BY <1>1, <1>2 DEF Origin, List, Completed
    <3> QED
      BY <1>1, <3>1, FromTheBeginning DEF Walking
  <2> QED
    BY <1>1, <1>2, <2>1, <2>3, <2>4, <2>5 DEF HandlerProgress
<1> QED
  BY <1>3, <1>4, <1>5 DEF Complete

\* A handler returns: nothing is owed to its element any more.
LEMMA ReturnComplete ==
  ASSUME IInv, Complete, PredictorReturns \/ ScannerReturns \/ CompleterReturns
  PROVE  Complete'
<1>1. /\ pc \in Handlers /\ pc' = "elems" /\ UNCHANGED << tokens, chart, i >> /\ j' = j + 1
  BY DEF PredictorReturns, ScannerReturns, CompleterReturns, Handlers
<1>2. /\ GoodChart(chart) /\ i \in Nat /\ i < Len(tokens)
      /\ List(i) \in Seq(Elem) /\ j \in DOMAIN List(i) /\ El \in ElemsAt(i + 1)
  BY <1>1, InHandler DEF El
<1>3. x \in Nat /\ c \in Nat /\ tokens \in Seq(Token)
  BY DEF IInv, TypeOK
<1>4. tokens[i + 1].type \in Terminals
  <2>1. tokens[i + 1] \in Token
    BY <1>2, <1>3
  <2> QED
    BY <2>1 DEF Token
<1>5. Processed(chart, tokens, El, i)
  <2>1. CASE PredictorReturns
    <3>1. pc = "predictor" /\ \A r \in x .. Len(CFG) : ~ Predicts(r)
      BY <2>1 DEF PredictorReturns
    <3>2. ~ IsComplete(El) /\ NextSymbol(El) \notin Terminals
      BY <3>1 DEF Complete, CalledFor
    <3>3. ASSUME NEW r \in DOMAIN CFG PROVE IsPredicted(chart, El, i, r)
      <4>1. CASE r < x
        BY <3>1, <4>1 DEF Complete, HandlerProgress
      <4>2. CASE r \in x .. Len(CFG)
        BY <3>1, <4>2 DEF IsPredicted, Predicts
      <4>3. r \in 1 .. Len(CFG) /\ Len(CFG) \in Nat
        BY GrammarAssumption
      <4> QED
        BY <1>3, <4>1, <4>2, <4>3
    <3>4. IsScanned(chart, tokens, El, i)
      BY <1>4, <3>2 DEF IsScanned, Expects
    <3>5. IsCompleted(chart, El, i)
      BY <3>2 DEF IsCompleted
    <3> QED
      BY <3>3, <3>4, <3>5 DEF Processed
  <2>2. CASE ScannerReturns
    <3>1. pc = "scanner" /\ \A n \in x .. Len(List(i)) : ~ Scans(n)
      BY <2>2 DEF ScannerReturns
    <3>2. ~ IsComplete(El) /\ NextSymbol(El) \in Terminals
      BY <3>1 DEF Complete, CalledFor
    <3>3. IsScanned(chart, tokens, El, i)
      <4>1. CASE j < x
        BY <1>2, <3>1, <4>1 DEF Complete, HandlerProgress, El
      <4>2. CASE j \in x .. Len(List(i))
        BY <3>1, <4>2 DEF IsScanned, Scans, El
      <4>3. j \in 1 .. Len(List(i))
        BY <1>2
      <4> QED
        BY <1>3, <4>1, <4>2, <4>3
    <3>5. IsCompleted(chart, El, i)
      BY <3>2 DEF IsCompleted
    <3> QED
      BY <3>2, <3>3, <3>5 DEF Processed
  <2>3. CASE CompleterReturns
    <3>1. pc = "completer" /\ c > Len(List(i))
      BY <2>3 DEF CompleterReturns
    <3>2. IsComplete(El)
      BY <3>1 DEF Complete, CalledFor
    <3>3. j < c
      BY <1>2, <1>3, <3>1
    <3>4. IsCompleted(chart, El, i)
      BY <1>2, <3>1, <3>3 DEF Complete, HandlerProgress, El
    <3>5. IsScanned(chart, tokens, El, i)
      BY <3>2 DEF IsScanned, Expects
    <3> QED
      BY <3>2, <3>4, <3>5 DEF Processed
  <2> QED
    BY <2>1, <2>2, <2>3
<1>6. \A n \in DOMAIN List(i) : n < j + 1 => Processed(chart, tokens, List(i)[n], i)
  <2> SUFFICES ASSUME NEW n \in DOMAIN List(i), n < j + 1
               PROVE  Processed(chart, tokens, List(i)[n], i)
    OBVIOUS
  <2>1. CASE n < j
    BY <1>1, <2>1 DEF Complete, WalkedProcessed, Walking
  <2>2. CASE n = j
    BY <1>5, <2>2 DEF El
  <2>3. n \in Nat /\ j \in Nat
    BY <1>2
  <2> QED
    BY <2>1, <2>2, <2>3
<1>7. List(i)' = List(i)
  BY <1>1 DEF List
<1>8. WalkedProcessed'
  BY <1>1, <1>6, <1>7 DEF Complete, WalkedProcessed, List
<1>9. CalledFor' /\ HandlerProgress' /\ Ends' /\ Has(chart, StartElem, 0)'
  BY <1>1 DEF Complete, CalledFor, HandlerProgress, Ends, Has, ExistsInStateList
<1> QED
  BY <1>8, <1>9 DEF Complete

\* The loop over the lists.
LEMMA ListsComplete ==
  ASSUME IInv, Complete,
         BeginList \/ EndList \/ InvalidToken \/ InvalidCode \/ Accept \/ PopulateElem
           \/ PopulateNextList \/ PopulateDone \/ UNCHANGED vars
  PROVE  Complete'
<1>1. UNCHANGED << tokens, chart >>
  BY DEF BeginList, EndList, InvalidToken, InvalidCode, Accept, PopulateElem,
         PopulateNextList, PopulateDone, vars
<1>2. Has(chart, StartElem, 0)'
  BY <1>1 DEF Complete, Has, ExistsInStateList
<1>3. /\ chart \in Seq(Seq(Elem)) /\ i \in Nat /\ j \in Nat \ {0} /\ tokens \in Seq(Token)
  BY DEF IInv, TypeOK
<1>4. CASE BeginList
  <2>1. pc' = "elems" /\ j' = 1 /\ i' = i /\ i < Len(chart)
    BY <1>4 DEF BeginList
  <2>2. List(i)' = List(i) /\ List(i) \in Seq(Elem)
    BY <1>1, <1>3, <2>1 DEF List
  <2>3. \A n \in DOMAIN List(i) : ~ (n < 1)
    BY <2>2
  <2> QED
    BY <1>1, <1>2, <2>1, <2>2, <2>3
       DEF Complete, CalledFor, WalkedProcessed, HandlerProgress, Ends, List
<1>5. CASE EndList
  <2>1. pc = "elems" /\ pc' = "lists" /\ i' = i + 1 /\ j > Len(List(i))
    BY <1>5 DEF EndList
  <2>2. List(i) \in Seq(Elem)
    <3>1. i + 1 \in DOMAIN chart
      BY <1>3, <2>1 DEF IInv, ChartInBounds, Walking
    <3> QED
      BY <1>3, <3>1 DEF List
  <2>3. \A n \in DOMAIN List(i) : n < j
    BY <1>3, <2>1, <2>2
  <2>4. \A n \in DOMAIN List(i) : Processed(chart, tokens, List(i)[n], i)
    BY <2>1, <2>3 DEF Complete, WalkedProcessed, Walking
  <2>5. \A k \in 0 .. ((i + 1) - 1) : k \in 0 .. (i - 1) \/ k = i
    BY <1>3
  <2>6. WalkedProcessed'
    <3>1. \A k \in 0 .. (i' - 1) : \A n \in DOMAIN List(k) : Processed(chart, tokens, List(k)[n], k)
      BY <2>1, <2>4, <2>5 DEF Complete, WalkedProcessed
    <3> QED
      BY <1>1, <2>1, <3>1 DEF WalkedProcessed, List, Walking, Handlers
  <2> QED
    BY <1>1, <1>2, <2>1, <2>6 DEF Complete, CalledFor, HandlerProgress, Ends
<1>6. CASE InvalidToken \/ InvalidCode \/ Accept \/ PopulateElem \/ PopulateNextList \/ PopulateDone
  <2>1. i' = i /\ pc' \in {"rejected", "populate", "accepted"}
    BY <1>6 DEF InvalidToken, InvalidCode, Accept, PopulateElem, PopulateNextList,
                PopulateDone, Loops
  <2>2. pc' = "rejected" => Len(chart) = i /\ i <= Len(tokens)
    <3>1. CASE InvalidToken \/ InvalidCode
      <4>1. /\ pc = "lists"
            /\ \/ i < Len(tokens) /\ i >= Len(chart)
               \/ i >= Len(tokens) /\ Len(chart) # Len(tokens) + 1
        BY <3>1 DEF InvalidToken, InvalidCode
      <4>2. i <= Len(tokens) /\ Len(chart) \in {i, i + 1}
        BY <4>1 DEF IInv, ChartInBounds
      <4> QED
        BY <1>3, <4>1, <4>2
    <3>2. CASE Accept \/ PopulateElem \/ PopulateNextList \/ PopulateDone
      BY <3>2 DEF Accept, PopulateElem, PopulateNextList, PopulateDone
    <3> QED
      BY <1>6, <3>1, <3>2
  <2>3. pc' \in {"populate", "accepted"} => Len(chart) = Len(tokens) + 1
    BY <1>6 DEF Complete, Ends, InvalidToken, InvalidCode, Accept, PopulateElem,
                PopulateNextList, PopulateDone
  <2> QED
    BY <1>1, <1>2, <2>1, <2>2, <2>3
       DEF Complete, CalledFor, WalkedProcessed, HandlerProgress, Ends, List, Walking, Handlers
<1>7. CASE UNCHANGED vars
  BY <1>7
     DEF vars, Complete, CalledFor, WalkedProcessed, HandlerProgress, Ends, List, El, Has,
         ExistsInStateList, IsComplete, NextSymbol, Rhs, Completed, Origin
<1> QED
  BY <1>4, <1>5, <1>6, <1>7

\* The initial chart is complete as far as it was walked, which is nowhere.
LEMMA InitComplete == Init => Complete
<1> SUFFICES ASSUME Init PROVE Complete
  OBVIOUS
<1>1. chart \in Seq(Seq(Elem)) /\ Len(chart) = 1 /\ chart[1] = << StartElem >>
  BY InitChart
<1>2. /\ DOMAIN chart = {1} /\ DOMAIN chart[1] = {1} /\ chart[1][1] = StartElem
      /\ << StartElem >> # << >> /\ 0 + 1 = 1
  BY <1>1
<1>3. Has(chart, StartElem, 0)
  BY <1>2 DEF Has, ExistsInStateList
<1>4. pc = "lists" /\ i = 0
  BY DEF Init
<1> QED
  BY <1>1, <1>2, <1>3, <1>4
     DEF Complete, CalledFor, WalkedProcessed, HandlerProgress, Ends, Walking, Handlers

\* Every step keeps the chart complete as far as it was walked.
LEMMA NextComplete == IInv /\ Complete /\ [Next]_vars => Complete'
<1> SUFFICES ASSUME IInv, Complete, [Next]_vars PROVE Complete'
  OBVIOUS
<1> QED
  BY PredictRuleComplete, ScanElemComplete, CompleteElemComplete, CompleterNextComplete,
     CallComplete, ReturnComplete, ListsComplete DEF Next, Step, Terminated

-----------------------------------------------------------------------------
(* A chart that was walked to its end holds all that is derived.           *)

\* Spans that do not go back and that are empty for nullable symbols only.
Flat(spans) ==
  \A B, a, b : << B, a, b >> \in spans => a <= b /\ (a = b => Nullable(B))

\* Symbols that derive the empty word are nullable.
LEMMA FlatEnds ==
  ASSUME NEW w, Len(w) \in Nat, NEW spans, Flat(spans), NEW rhs, NEW a \in Positions(w)
  PROVE  \A d \in Nat : \A b \in StringEnds(w, spans, rhs, a)[d] :
           a <= b /\ (a = b => \A e \in 1 .. d : Nullable(rhs[e]))
<1> DEFINE ends == StringEnds(w, spans, rhs, a)
           S == { d \in Nat : \A b \in ends[d] :
                    a <= b /\ (a = b => \A e \in 1 .. d : Nullable(rhs[e])) }
<1>1. /\ ends[0] = {a}
      /\ \A n \in Nat : ends[n] \subseteq Positions(w)
  BY StringEndsSteps
<1>2. \A n \in Nat : ends[n + 1] = UNION { SymbolEnds(w, spans, rhs[n + 1], b) : b \in ends[n] }
  BY StringEndsSteps
<1>3. \A p \in Positions(w) : p \in Nat
  BY DEF Positions
<1> HIDE DEF ends
<1>4. 0 \in S
  BY <1>1, <1>3
<1>5. ASSUME NEW d \in Nat, d \in S PROVE d + 1 \in S
  <2> SUFFICES ASSUME NEW b \in ends[d + 1]
               PROVE  a <= b /\ (a = b => \A e \in 1 .. (d + 1) : Nullable(rhs[e]))
    OBVIOUS
  <2>1. PICK m \in ends[d] : b \in SymbolEnds(w, spans, rhs[d + 1], m)
    BY <1>2
  <2>2. m \in Nat /\ b \in Nat /\ a \in Nat
    BY <1>1, <1>3
  <2>3. a <= m /\ (a = m => \A e \in 1 .. d : Nullable(rhs[e]))
    BY <1>5
  <2>4. m <= b /\ (m = b => Nullable(rhs[d + 1]))
    <3>1. CASE rhs[d + 1] \in Terminals
      BY <2>1, <2>2, <3>1 DEF SymbolEnds
    <3>2. CASE rhs[d + 1] \notin Terminals
      <4>1. << rhs[d + 1], m, b >> \in spans
        BY <2>1, <3>2 DEF SymbolEnds
      <4> QED
        BY <4>1 DEF Flat
    <3> QED
      BY <3>1, <3>2
  <2>5. \A e \in 1 .. (d + 1) : e \in 1 .. d \/ e = d + 1
    OBVIOUS
  <2>6. a <= b /\ (a = b => a = m /\ m = b)
    BY <2>2, <2>3, <2>4
  <2> QED
    BY <2>3, <2>4, <2>5, <2>6
<1> HIDE DEF S
<1>6. \A d \in Nat : d \in S
  BY <1>4, <1>5, Induction
<1> QED
  BY <1>6 DEF S, ends

\* Every stage of the derived spans consists of spans that begin before they
\* end.
LEMMA SpansFlat ==
  ASSUME NEW w, Len(w) \in Nat
  PROVE  \A n \in Nat : Flat(SpanStages(w)[n])
<1> DEFINE stage == SpanStages(w)
           S == { n \in Nat : Flat(stage[n]) }
<1>1. stage[0] = {} /\ \A n \in Nat : stage[n + 1] = Derived(w, stage[n])
  BY SpanStagesSteps
<1> HIDE DEF stage
<1>2. 0 \in S
  BY <1>1 DEF Flat
<1>3. ASSUME NEW n \in Nat, n \in S PROVE n + 1 \in S
  <2>1. ASSUME NEW B, NEW a, NEW b, << B, a, b >> \in Derived(w, stage[n])
        PROVE  a <= b /\ (a = b => Nullable(B))
    <3>1. /\ a \in Positions(w)
          /\ \E r \in DOMAIN CFG :
               CFG[r].lhs = B /\ b \in StringEnds(w, stage[n], CFG[r].rhs, a)[Len(CFG[r].rhs)]
      BY <2>1, InDerived
    <3>2. PICK r \in DOMAIN CFG :
            CFG[r].lhs = B /\ b \in StringEnds(w, stage[n], CFG[r].rhs, a)[Len(CFG[r].rhs)]
      BY <3>1
    <3>3. CFG[r].rhs \in Seq(Symbols) /\ Len(CFG[r].rhs) \in Nat
      BY RuleLength
    <3>4. Flat(stage[n])
      BY <1>3
    <3>5. a <= b /\ (a = b => \A e \in 1 .. Len(CFG[r].rhs) : Nullable(CFG[r].rhs[e]))
      BY <3>1, <3>2, <3>3, <3>4, FlatEnds
    <3>6. ASSUME a = b PROVE Nullable(B)
      <4>1. \A e \in DOMAIN CFG[r].rhs : Nullable(CFG[r].rhs[e])
        BY <3>3, <3>5, <3>6
      <4>2. CFG[r].rhs = << >>
        BY <4>1, NullableAssumption
      <4> QED
        BY <3>2, <4>2 DEF Nullable
    <3> QED
      BY <3>5, <3>6
  <2>2. Flat(Derived(w, stage[n]))
    BY <2>1 DEF Flat
  <2> QED
    BY <1>1, <2>2
<1> HIDE DEF S
<1>4. \A n \in Nat : n \in S
  BY <1>2, <1>3, Induction
<1> QED
  BY <1>4 DEF S, stage

ElAt(r, a, d) == [rule |-> r, start |-> a, dot |-> d]

\* The chart has what the spans say of symbols whose rules were all begun.
Covered(spans) ==
  \A B, a, b :
    /\ << B, a, b >> \in spans
    /\ a \in 0 .. (Len(chart) - 1)
    /\ \A r \in DOMAIN CFG : CFG[r].lhs = B => Has(chart, ElAt(r, a, 0), a)
    => /\ b \in 0 .. (Len(chart) - 1)
       /\ \E r \in DOMAIN CFG : CFG[r].lhs = B /\ Has(chart, ElAt(r, a, Len(CFG[r].rhs)), b)

\* An element of a chart whose lists have all been walked was processed.
LEMMA AllProcessed ==
  ASSUME IInv, Complete, pc = "rejected", NEW k \in Nat, NEW el, Has(chart, el, k)
  PROVE  k \in 0 .. (Len(chart) - 1) /\ Processed(chart, tokens, el, k) /\ el \in ElemsAt(k + 1)
<1>1. Len(chart) = i /\ i \in Nat /\ chart \in Seq(Seq(Elem)) /\ GoodChart(chart)
  BY InvGoodChart DEF Complete, Ends, IInv, TypeOK
<1>2. k + 1 \in DOMAIN chart /\ \E n \in DOMAIN chart[k + 1] : chart[k + 1][n] = el
  BY DEF Has, ExistsInStateList
<1>3. k \in 0 .. (i - 1)
  BY <1>1, <1>2
<1>4. PICK n \in DOMAIN List(k) : List(k)[n] = el
  BY <1>2 DEF List
<1>5. Processed(chart, tokens, el, k)
  BY <1>3, <1>4 DEF Complete, WalkedProcessed
<1>6. el \in ElemsAt(k + 1)
  BY <1>1, <1>2 DEF GoodChart
<1> QED
  BY <1>1, <1>3, <1>5, <1>6

\* Along a right-hand side: wherever its beginning can end, the chart has the
\* element with the dot there.
LEMMA Walk ==
  ASSUME IInv, Complete, pc = "rejected", NEW spans, Flat(spans), Covered(spans),
         NEW r \in DOMAIN CFG, NEW a \in 0 .. (Len(chart) - 1), Has(chart, ElAt(r, a, 0), a)
  PROVE  \A d \in 0 .. Len(CFG[r].rhs) : \A b \in StringEnds(tokens, spans, CFG[r].rhs, a)[d] :
           b \in 0 .. (Len(chart) - 1) /\ Has(chart, ElAt(r, a, d), b)
<1> DEFINE rhs == CFG[r].rhs
           ends == StringEnds(tokens, spans, rhs, a)
           M == Len(chart)
           S == { d \in Nat : d <= Len(rhs) =>
                    \A b \in ends[d] : b \in 0 .. (M - 1) /\ Has(chart, ElAt(r, a, d), b) }
<1>1. /\ M = i /\ M \in Nat /\ M <= Len(tokens) /\ Len(tokens) \in Nat /\ a \in Nat
      /\ a \in Positions(tokens)
  BY DEF Complete, Ends, IInv, TypeOK, Positions
<1>2. rhs \in Seq(Symbols) /\ Len(rhs) \in Nat
  BY RuleLength
<1>3. ends[0] = {a}
  BY <1>1, StringEndsSteps
<1>4. \A n \in Nat : ends[n + 1] = UNION { SymbolEnds(tokens, spans, rhs[n + 1], b) : b \in ends[n] }
  BY <1>1, StringEndsSteps
<1> HIDE DEF ends
<1>5. 0 \in S
  BY <1>3
<1>6. ASSUME NEW d \in Nat, d \in S PROVE d + 1 \in S
  <2> SUFFICES ASSUME d + 1 <= Len(rhs), NEW b \in ends[d + 1]
               PROVE  b \in 0 .. (M - 1) /\ Has(chart, ElAt(r, a, d + 1), b)
    OBVIOUS
  <2>0. b \in UNION { SymbolEnds(tokens, spans, rhs[d + 1], m) : m \in ends[d] }
    BY <1>4
  <2>1. PICK m \in ends[d] : b \in SymbolEnds(tokens, spans, rhs[d + 1], m)
    BY <2>0
  <2> DEFINE el == ElAt(r, a, d)
  <2>2. m \in 0 .. (M - 1) /\ m \in Nat /\ Has(chart, el, m)
    BY <1>2, <1>6, <2>1
  <2>3. Processed(chart, tokens, el, m)
    BY <2>2, AllProcessed
  <2>4. /\ ~ IsComplete(el) /\ NextSymbol(el) = rhs[d + 1] /\ Rhs(el) = rhs
        /\ Advance(el) = ElAt(r, a, d + 1)
    <3>1. el.rule = r /\ el.start = a /\ el.dot = d
      BY DEF ElAt
    <3>2. Rhs(el) = rhs
      BY <3>1 DEF Rhs
    <3>3. Advance(el) = ElAt(r, a, d + 1)
      BY DEF Advance, ElAt
    <3> QED
      BY <1>2, <3>1, <3>2, <3>3 DEF IsComplete, NextSymbol
  <2> HIDE DEF el
  <2>5. CASE rhs[d + 1] \in Terminals
    <3>1. b = m + 1 /\ tokens[m + 1].type = rhs[d + 1]
      BY <2>1, <2>5 DEF SymbolEnds
    <3>2. Has(chart, Advance(el), m + 1)
      BY <2>3, <2>4, <3>1 DEF Processed, IsScanned, Expects
    <3>3. m + 1 \in 0 .. (M - 1)
      BY <2>2, <3>2, AllProcessed
    <3> QED
      BY <2>4, <3>1, <3>2, <3>3
  <2>6. CASE rhs[d + 1] \notin Terminals
    <3>1. << rhs[d + 1], m, b >> \in spans
      BY <2>1, <2>6 DEF SymbolEnds
    <3>2. \A q \in DOMAIN CFG : IsPredicted(chart, el, m, q)
      BY <2>3, <2>4, <2>6 DEF Processed
    <3>3. \A q \in DOMAIN CFG : CFG[q].lhs = rhs[d + 1] => Has(chart, ElAt(q, m, 0), m)
      BY <2>4, <3>2 DEF IsPredicted, ElAt
    <3>4. /\ b \in 0 .. (M - 1)
          /\ \E q \in DOMAIN CFG :
               CFG[q].lhs = rhs[d + 1] /\ Has(chart, ElAt(q, m, Len(CFG[q].rhs)), b)
      BY <2>2, <3>1, <3>3 DEF Covered
    <3>5. m <= b /\ (m = b => Nullable(rhs[d + 1]))
      BY <3>1 DEF Flat
    <3>6. CASE m = b
      <4>1. PICK q \in DOMAIN CFG : CFG[q].lhs = rhs[d + 1]
        BY <3>4
      <4>2. Has(chart, Advance(el), m)
        BY <2>4, <3>2, <3>5, <3>6, <4>1 DEF IsPredicted
      <4> QED
        BY <2>4, <3>4, <3>6, <4>2
    <3>7. CASE m < b
      <4>1. PICK q \in DOMAIN CFG :
              CFG[q].lhs = rhs[d + 1] /\ Has(chart, ElAt(q, m, Len(CFG[q].rhs)), b)
        BY <3>4
      <4> DEFINE h == ElAt(q, m, Len(CFG[q].rhs))
      <4>2. h.rule = q /\ h.start = m /\ h.dot = Len(CFG[q].rhs)
        BY DEF ElAt
      <4>3. IsComplete(h) /\ Lhs(h) = rhs[d + 1]
        BY <4>1, <4>2 DEF IsComplete, Rhs, Lhs
      <4>4. b \in Nat
        BY <1>1, <3>4
      <4> HIDE DEF h
      <4>5. Processed(chart, tokens, h, b)
        BY <4>1, <4>4, AllProcessed DEF h
      <4>6. \A n \in DOMAIN chart[m + 1] : IsAdvanced(chart, h, b, n)
        BY <3>7, <4>2, <4>3, <4>5 DEF Processed, IsCompleted
      <4>7. PICK n \in DOMAIN chart[m + 1] : chart[m + 1][n] = el
        BY <2>2 DEF Has, ExistsInStateList
      <4>8. Has(chart, Advance(el), b)
        BY <2>4, <4>2, <4>3, <4>6, <4>7 DEF IsAdvanced, Expects
      <4> QED
        BY <2>4, <3>4, <4>8
    <3>8. b \in Nat
      BY <1>1, <3>4
    <3> QED
      BY <2>2, <3>5, <3>6, <3>7, <3>8
  <2> QED
    BY <2>5, <2>6
<1> HIDE DEF S
<1>7. \A d \in Nat : d \in S
  BY <1>5, <1>6, Induction
<1> QED
  BY <1>2, <1>7 DEF S, ends

\* A complete chart of a rejected text has, by induction over the stages, every
\* derived span: whatever was called for at its beginning is completed.
LEMMA StagesCovered ==
  ASSUME IInv, Complete, pc = "rejected"
  PROVE  \A n \in Nat : Covered(SpanStages(tokens)[n])
<1> DEFINE stage == SpanStages(tokens)
           S == { n \in Nat : Covered(stage[n]) }
<1>0. Len(tokens) \in Nat
  BY DEF IInv, TypeOK
<1>1. stage[0] = {} /\ \A n \in Nat : stage[n + 1] = Derived(tokens, stage[n])
  BY SpanStagesSteps
<1>2. \A n \in Nat : Flat(stage[n])
  BY <1>0, SpansFlat
<1> HIDE DEF stage
<1>3. 0 \in S
  BY <1>1 DEF Covered
<1>4. ASSUME NEW n \in Nat, n \in S PROVE n + 1 \in S
  <2>1. ASSUME NEW B, NEW a, NEW b, << B, a, b >> \in Derived(tokens, stage[n]),
               a \in 0 .. (Len(chart) - 1),
               \A r \in DOMAIN CFG : CFG[r].lhs = B => Has(chart, ElAt(r, a, 0), a)
        PROVE  /\ b \in 0 .. (Len(chart) - 1)
               /\ \E r \in DOMAIN CFG : CFG[r].lhs = B /\ Has(chart, ElAt(r, a, Len(CFG[r].rhs)), b)
    <3>1. PICK r \in DOMAIN CFG :
            CFG[r].lhs = B /\ b \in StringEnds(tokens, stage[n], CFG[r].rhs, a)[Len(CFG[r].rhs)]
      BY <2>1, InDerived
    <3>2. Len(CFG[r].rhs) \in 0 .. Len(CFG[r].rhs)
      BY RuleLength
    <3>3. Flat(stage[n]) /\ Covered(stage[n])
      BY <1>2, <1>4
    <3>4. Has(chart, ElAt(r, a, 0), a)
      BY <2>1, <3>1
    <3>5. b \in 0 .. (Len(chart) - 1) /\ Has(chart, ElAt(r, a, Len(CFG[r].rhs)), b)
      BY <2>1, <3>1, <3>2, <3>3, <3>4, Walk
    <3> QED
      BY <3>1, <3>5
  <2>2. Covered(Derived(tokens, stage[n]))
    BY <2>1 DEF Covered
  <2> QED
    BY <1>1, <2>2
<1> HIDE DEF S
<1>5. \A n \in Nat : n \in S
  BY <1>3, <1>4, Induction
<1> QED
  BY <1>5 DEF S, stage

\* The spans of the input, in a chart that was walked to its end.
LEMMA SpansCovered ==
  ASSUME IInv, Complete, pc = "rejected"
  PROVE  Flat(Spans(tokens)) /\ Covered(Spans(tokens))
<1>1. Len(tokens) \in Nat
  BY DEF IInv, TypeOK
<1>2. PICK n \in Nat : Spans(tokens) = SpanStages(tokens)[n]
  BY <1>1, SpansFixed
<1>3. Flat(SpanStages(tokens)[n])
  BY <1>1, SpansFlat
<1>4. Covered(SpanStages(tokens)[n])
  BY StagesCovered
<1> QED
  BY <1>2, <1>3, <1>4

\* The rules of the start symbol were begun: there is one.
LEMMA StartBegun ==
  ASSUME IInv, Complete
  PROVE  /\ 0 \in 0 .. (Len(chart) - 1)
         /\ \A r \in DOMAIN CFG : CFG[r].lhs = CFG[1].lhs => Has(chart, ElAt(r, 0, 0), 0)
<1>1. Len(chart) \in 1 .. (Len(tokens) + 1) /\ Len(tokens) \in Nat
  BY DEF IInv, TypeOK, ChartInBounds
<1>2. Has(chart, ElAt(1, 0, 0), 0)
  BY DEF Complete, StartElem, ElAt
<1> QED
  BY <1>1, <1>2, StartAssumption

\* Whatever can begin was begun.
Reached(S) ==
  \A A, a : << A, a >> \in S =>
    /\ a \in 0 .. (Len(chart) - 1)
    /\ \A r \in DOMAIN CFG : CFG[r].lhs = A => Has(chart, ElAt(r, a, 0), a)

\* What can begin in a derivation of a nonterminal that the chart calls for is
\* called for as well.
LEMMA BegunReached ==
  ASSUME IInv, Complete, pc = "rejected", NEW spans, Flat(spans), Covered(spans),
         NEW A, NEW a, a \in 0 .. (Len(chart) - 1),
         \A r \in DOMAIN CFG : CFG[r].lhs = A => Has(chart, ElAt(r, a, 0), a)
  PROVE  Reached(BegunIn(tokens, spans, A, a))
<1> SUFFICES ASSUME NEW B, NEW b, << B, b >> \in BegunIn(tokens, spans, A, a)
             PROVE  /\ b \in 0 .. (Len(chart) - 1)
                    /\ \A q \in DOMAIN CFG : CFG[q].lhs = B => Has(chart, ElAt(q, b, 0), b)
  BY DEF Reached
<1>1. PICK r \in DOMAIN CFG : \E d \in DOMAIN CFG[r].rhs :
        /\ CFG[r].lhs = A
        /\ CFG[r].rhs[d] \in LeftSides
        /\ \E e \in StringEnds(tokens, spans, CFG[r].rhs, a)[d - 1] : << B, b >> = << CFG[r].rhs[d], e >>
  BY InBegunIn
<1>2. PICK d \in DOMAIN CFG[r].rhs :
        /\ CFG[r].lhs = A
        /\ CFG[r].rhs[d] \in LeftSides /\ B = CFG[r].rhs[d]
        /\ b \in StringEnds(tokens, spans, CFG[r].rhs, a)[d - 1]
  BY <1>1
<1>3. /\ CFG[r].rhs \in Seq(Symbols) /\ d - 1 \in 0 .. Len(CFG[r].rhs) /\ d - 1 \in Nat
      /\ (d - 1) + 1 = d /\ d - 1 # Len(CFG[r].rhs)
  BY RuleLength
<1>4. Has(chart, ElAt(r, a, 0), a)
  BY <1>2
<1> DEFINE el == ElAt(r, a, d - 1)
<1>5. b \in 0 .. (Len(chart) - 1) /\ Has(chart, el, b)
  BY <1>2, <1>3, <1>4, Walk
<1>6. ~ IsComplete(el) /\ NextSymbol(el) = B
  <2>1. el.rule = r /\ el.dot = d - 1
    BY DEF ElAt
  <2> QED
    BY <1>2, <1>3, <2>1 DEF IsComplete, NextSymbol, Rhs
<1> HIDE DEF el
<1>7. Processed(chart, tokens, el, b)
  BY <1>5, AllProcessed
<1>8. B \notin Terminals
  BY <1>2, RuleLength, GrammarAssumption DEF LeftSides
<1>9. \A q \in DOMAIN CFG : IsPredicted(chart, el, b, q)
  BY <1>6, <1>7, <1>8 DEF Processed
<1> QED
  BY <1>5, <1>6, <1>9 DEF IsPredicted, ElAt

\* By induction over the stages, the chart calls for whatever can begin.
LEMMA StagesReached ==
  ASSUME IInv, Complete, pc = "rejected", NEW spans, Flat(spans), Covered(spans)
  PROVE  \A n \in Nat : Reached(BegunStages(tokens, spans)[n])
<1> DEFINE stage == BegunStages(tokens, spans)
           S == { n \in Nat : Reached(stage[n]) }
<1>0. Len(tokens) \in Nat
  BY DEF IInv, TypeOK
<1>1. /\ stage[0] = { << CFG[1].lhs, 0 >> }
      /\ \A n \in Nat : stage[n + 1] = Begun(tokens, spans, stage[n])
      /\ \A n \in Nat : stage[n] \in SUBSET AllBegun(tokens)
  <2>1. stage[0] = { << CFG[1].lhs, 0 >> } /\ stage \in [Nat -> SUBSET AllBegun(tokens)]
    BY <1>0, BegunStagesSteps
  <2>2. \A n \in Nat : stage[n + 1] = Begun(tokens, spans, stage[n])
    BY <1>0, BegunStagesSteps
  <2> HIDE DEF stage
  <2> QED
    BY <2>1, <2>2
<1> HIDE DEF stage
<1>2. 0 \in S
  BY <1>1, StartBegun DEF Reached
<1>3. ASSUME NEW n \in Nat, n \in S PROVE n + 1 \in S
  <2> SUFFICES ASSUME NEW B, NEW b, << B, b >> \in Begun(tokens, spans, stage[n])
               PROVE  /\ b \in 0 .. (Len(chart) - 1)
                      /\ \A r \in DOMAIN CFG : CFG[r].lhs = B => Has(chart, ElAt(r, b, 0), b)
    BY <1>1 DEF Reached
  <2>1. Reached(stage[n])
    BY <1>3
  <2>2. CASE << B, b >> \in stage[n]
    BY <2>1, <2>2 DEF Reached
  <2>3. CASE \E p \in stage[n] : << B, b >> \in BegunIn(tokens, spans, p[1], p[2])
    <3>1. PICK p \in stage[n] : << B, b >> \in BegunIn(tokens, spans, p[1], p[2])
      BY <2>3
    <3>2. p = << p[1], p[2] >>
      BY <1>1 DEF AllBegun
    <3>3. /\ p[2] \in 0 .. (Len(chart) - 1)
          /\ \A r \in DOMAIN CFG : CFG[r].lhs = p[1] => Has(chart, ElAt(r, p[2], 0), p[2])
      BY <2>1, <3>2 DEF Reached
    <3>4. Reached(BegunIn(tokens, spans, p[1], p[2]))
      BY <3>3, BegunReached
    <3> QED
      BY <3>1, <3>4 DEF Reached
  <2> QED
    BY <2>2, <2>3, InBegun
<1> HIDE DEF S
<1>4. \A n \in Nat : n \in S
  BY <1>2, <1>3, Induction
<1> QED
  BY <1>4 DEF S, stage

\* What is rejected is no sentence and does not begin one.
LEMMA RejectedRight ==
  ASSUME IInv, Complete, pc = "rejected"
  PROVE  ~ IsSentence(tokens) /\ ~ IsViablePrefix(tokens)
<1>1. Len(tokens) \in Nat /\ Len(chart) <= Len(tokens) /\ Len(chart) \in Nat
  BY DEF Complete, Ends, IInv, TypeOK
<1>2. Len(tokens) \notin 0 .. (Len(chart) - 1)
  BY <1>1
<1>3. Flat(Spans(tokens)) /\ Covered(Spans(tokens))
  BY SpansCovered
<1>4. ~ IsSentence(tokens)
  BY <1>2, <1>3, StartBegun DEF IsSentence, Covered
<1>5. ASSUME IsViablePrefix(tokens) PROVE FALSE
  <2> DEFINE spans == Spans(tokens)
  <2>1. PICK p \in Reach(tokens, spans) : \E r \in RulesOf(p[1]) : \E d \in 0 .. Len(CFG[r].rhs) :
          Len(tokens) \in StringEnds(tokens, spans, CFG[r].rhs, p[2])[d]
    BY <1>5 DEF IsViablePrefix
  <2>2. PICK r \in RulesOf(p[1]) : \E d \in 0 .. Len(CFG[r].rhs) :
          Len(tokens) \in StringEnds(tokens, spans, CFG[r].rhs, p[2])[d]
    BY <2>1
  <2>3. PICK d \in 0 .. Len(CFG[r].rhs) :
          Len(tokens) \in StringEnds(tokens, spans, CFG[r].rhs, p[2])[d]
    BY <2>2
  <2> HIDE DEF spans
  <2>4. Flat(spans) /\ Covered(spans)
    BY <1>3 DEF spans
  <2>5. Reach(tokens, spans) \subseteq AllBegun(tokens)
    BY <1>1, ReachFixed
  <2>6. PICK n \in Nat : Reach(tokens, spans) = BegunStages(tokens, spans)[n]
    BY <1>1, ReachFixed
  <2>7. Reached(Reach(tokens, spans))
    BY <2>4, <2>6, StagesReached
  <2>8. r \in DOMAIN CFG /\ CFG[r].lhs = p[1] /\ p = << p[1], p[2] >>
    BY <2>5 DEF RulesOf, AllBegun
  <2>9. p[2] \in 0 .. (Len(chart) - 1) /\ Has(chart, ElAt(r, p[2], 0), p[2])
    BY <2>7, <2>8 DEF Reached
  <2>10. Len(tokens) \in 0 .. (Len(chart) - 1)
    BY <2>3, <2>4, <2>8, <2>9, Walk
  <2> QED
    BY <1>2, <2>10
<1> QED
  BY <1>4, <1>5

\* What is accepted begins a sentence: the last list has an element.
LEMMA AcceptedRight ==
  ASSUME IInv, Complete, Sound, pc = "accepted"
  PROVE  IsViablePrefix(tokens)
<1>1. /\ Len(tokens) \in Nat /\ Len(chart) = Len(tokens) + 1 /\ chart \in Seq(Seq(Elem))
      /\ \A k \in DOMAIN chart : chart[k] # << >>
  BY DEF Complete, Ends, IInv, TypeOK
<1> DEFINE k == Len(tokens)
<1>2. k + 1 \in DOMAIN chart /\ k \in Nat
  BY <1>1
<1>3. List(k) \in Seq(Elem) /\ List(k) # << >>
  BY <1>1, <1>2 DEF List
<1>4. 1 \in DOMAIN List(k)
  BY <1>3
<1> DEFINE el == List(k)[1]
           f == [el |-> el, at |-> k]
<1>5. f \in ChartFacts
  BY <1>2, <1>4, ElemFact
<1>6. Derivable(el, k)
  BY <1>5 DEF Sound
<1>7. /\ el.rule \in DOMAIN CFG /\ el.dot \in Nat /\ el \in ElemsAt(k + 1)
  BY <1>5, FactType DEF IInv
<1>8. el.dot \in 0 .. Len(Rhs(el))
  <2>1. k + 1 \in Nat
    BY <1>2
  <2>2. Rhs(el) \in Seq(Symbols) /\ el.dot <= Len(Rhs(el)) /\ el.dot \in Nat
    BY <1>7, <2>1, ElemFields
  <2> QED
    BY <2>2
<1> DEFINE spans == Spans(tokens)
           p == << Lhs(el), el.start >>
           r == el.rule
<1>9. /\ p \in Reach(tokens, spans)
      /\ r \in RulesOf(p[1])
      /\ el.dot \in 0 .. Len(CFG[r].rhs)
      /\ Len(tokens) \in StringEnds(tokens, spans, CFG[r].rhs, p[2])[el.dot]
  BY <1>6, <1>7, <1>8 DEF Derivable, RulesOf, Lhs, Rhs
<1> HIDE DEF p, r, spans, el
<1>10. \E q \in RulesOf(p[1]) : \E d \in 0 .. Len(CFG[q].rhs) :
         Len(tokens) \in StringEnds(tokens, spans, CFG[q].rhs, p[2])[d]
  BY <1>9
<1> QED
  BY <1>9, <1>10 DEF IsViablePrefix, spans

-----------------------------------------------------------------------------

\* For every grammar and every input: no sentence is rejected, whatever the
\* order in which elements reach the lists that recognise() walks.
THEOREM AcceptsSentences == Spec => []AcceptsEverySentence
<1>1. IInv /\ Complete => AcceptsEverySentence
  BY RejectedRight DEF AcceptsEverySentence
<1> QED
  BY <1>1, SpecInv, InitComplete, NextComplete, PTL DEF Spec

\* For every grammar and every input: the verdict tells exactly the inputs
\* with which a sentence can begin from all others.
THEOREM ExactVerdict == Spec => []AcceptsViablePrefixes
<1>1. IInv /\ Complete /\ Sound => AcceptsViablePrefixes
  BY RejectedRight, AcceptedRight DEF AcceptsViablePrefixes
<1> QED
  BY <1>1, SpecInv, InitComplete, NextComplete, InitSound, NextSound, PTL DEF Spec

-----------------------------------------------------------------------------
(* recognise() runs out of steps.                                          *)

\* There are finitely many elements that can be in a list.
LEMMA PossibleFinite ==
  ASSUME Len(tokens) \in Nat
  PROVE  IsFiniteSet(PossibleElems) /\ Cardinality(PossibleElems) \in Nat
<1> DEFINE S == 0 .. Len(tokens)
           DotsOf(r) == 0 .. Len(CFG[r].rhs)
           Dots == UNION { DotsOf(r) : r \in DOMAIN CFG }
           Numbers == DOMAIN CFG
           P == Numbers \X (S \X Dots)
           f == [p \in P |-> [rule |-> p[1], start |-> p[2][1], dot |-> p[2][2]]]
<1>1. IsFiniteSet(DOMAIN CFG) /\ Numbers = DOMAIN CFG
  BY GrammarAssumption, FS_Interval
<1>2. IsFiniteSet(S)
  BY FS_Interval
<1>3. IsFiniteSet(Dots)
  <2> DEFINE D == { DotsOf(r) : r \in DOMAIN CFG }
             g == [r \in DOMAIN CFG |-> DotsOf(r)]
  <2>1. g \in Surjection(DOMAIN CFG, D)
    BY DEF Surjection
  <2>2. \A d \in D : IsFiniteSet(d)
    <3> SUFFICES ASSUME NEW r \in DOMAIN CFG PROVE IsFiniteSet(DotsOf(r))
      OBVIOUS
    <3>1. r \in 1 .. Len(CFG)
      BY GrammarAssumption
    <3>2. Len(CFG[r].rhs) \in Nat
      BY <3>1, RuleOf
    <3> QED
      BY <3>2, FS_Interval
  <2> HIDE DEF D, g
  <2>3. IsFiniteSet(D)
    BY <1>1, <2>1, FS_Surjection
  <2>4. IsFiniteSet(UNION D)
    BY <2>2, <2>3, FS_UNION
  <2> QED
    BY <2>4 DEF D
<1>4. PossibleElems = [rule : Numbers, start : S, dot : Dots]
  BY DEF PossibleElems
<1> HIDE DEF S, Dots, Numbers
<1>5. IsFiniteSet(P)
  <2>1. IsFiniteSet(S \X Dots)
    BY <1>2, <1>3, FS_Product
  <2> QED
    BY <1>1, <2>1, FS_Product
<1>6. f \in Surjection(P, PossibleElems)
  <2>1. f \in [P -> PossibleElems]
    BY <1>4
  <2>2. ASSUME NEW el \in PossibleElems PROVE \E p \in P : f[p] = el
    <3> DEFINE p == << el.rule, << el.start, el.dot >> >>
    <3>1. p \in P /\ el = [rule |-> el.rule, start |-> el.start, dot |-> el.dot]
      BY <1>4
    <3>2. f[p] = [rule |-> el.rule, start |-> el.start, dot |-> el.dot]
      BY <3>1
    <3> QED
      BY <3>1, <3>2
  <2> HIDE DEF f
  <2> QED
    BY <2>1, <2>2 DEF Surjection
<1> HIDE DEF f, P
<1>7. IsFiniteSet(PossibleElems)
  BY <1>5, <1>6, FS_Surjection
<1> QED
  BY <1>7, FS_CardinalityType

\* No list is longer than there are elements.
LEMMA ListsBounded ==
  ASSUME IInv, NEW k \in DOMAIN chart
  PROVE  Len(chart[k]) \in Nat /\ Len(chart[k]) <= Cardinality(PossibleElems)
<1> DEFINE list == chart[k]
<1>1. GoodChart(chart) /\ chart \in Seq(Seq(Elem))
  BY InvGoodChart DEF IInv, TypeOK
<1>2. list \in Seq(Elem) /\ Len(list) \in Nat /\ DOMAIN list = 1 .. Len(list)
  BY <1>1
<1>3. Len(tokens) \in Nat /\ Len(chart) <= Len(tokens) + 1
  BY DEF IInv, TypeOK, ChartInBounds
<1>4. k \in Nat /\ k <= Len(chart) /\ Len(chart) \in Nat
  BY <1>1
<1>5. ASSUME NEW n \in DOMAIN list PROVE list[n] \in PossibleElems
  <2>1. list[n] \in ElemsAt(k)
    BY <1>1, <1>5 DEF GoodChart
  <2> DEFINE el == list[n]
  <2>2. /\ el \in Elem /\ el.rule \in 1 .. Len(CFG) /\ el.start \in Nat /\ el.dot \in Nat
        /\ el.start < k /\ Rhs(el) \in Seq(Symbols) /\ el.dot <= Len(Rhs(el))
    BY <1>4, <2>1, ElemFields
  <2> HIDE DEF el
  <2>3. DOMAIN CFG = 1 .. Len(CFG)
    BY GrammarAssumption
  <2>4. el.start \in 0 .. Len(tokens)
    BY <1>3, <1>4, <2>2
  <2>5. el.dot \in 0 .. Len(CFG[el.rule].rhs)
    BY <2>2 DEF Rhs
  <2>6. el = [rule |-> el.rule, start |-> el.start, dot |-> el.dot]
    BY <2>2 DEF Elem
  <2>7. el \in PossibleElems
    BY <2>2, <2>3, <2>4, <2>5, <2>6 DEF PossibleElems
  <2> QED
    BY <2>7 DEF el
<1>6. \A m, n \in DOMAIN list : list[m] = list[n] => m = n
  BY <1>1 DEF GoodChart
<1> HIDE DEF list
<1>7. list \in Injection(1 .. Len(list), PossibleElems)
  <2>1. list = [n \in 1 .. Len(list) |-> list[n]]
    BY <1>2
  <2>2. list \in [1 .. Len(list) -> PossibleElems]
    BY <1>2, <1>5, <2>1
  <2> QED
    BY <1>2, <1>6, <2>2 DEF Injection, IsInjective
<1>8. Cardinality(1 .. Len(list)) = Len(list)
  <2>1. \A n \in Nat : Cardinality(1 .. n) = n
    BY FS_Interval
  <2> QED
    BY <1>2, <2>1
<1>9. Cardinality(1 .. Len(list)) <= Cardinality(PossibleElems)
  BY <1>3, <1>7, PossibleFinite, FS_Injection
<1> QED
  BY <1>2, <1>8, <1>9 DEF list

\* Round as a number, larger than the length of anything a loop is over.
LEMMA RoundBounds ==
  ASSUME IInv
  PROVE  /\ Round \in Nat /\ Round > 0
         /\ Len(CFG) + 1 \in 0 .. Round
         /\ Len(chart) + 1 \in 0 .. Round
         /\ \A k \in DOMAIN chart : Len(chart[k]) + 1 \in 0 .. Round
<1>1. /\ Len(tokens) \in Nat /\ Len(chart) <= Len(tokens) + 1 /\ Len(chart) \in Nat
      /\ Len(CFG) \in Nat
  BY GrammarAssumption DEF IInv, TypeOK, ChartInBounds
<1>2. Cardinality(PossibleElems) \in Nat
  BY <1>1, PossibleFinite
<1>3. Round = Cardinality(PossibleElems) + Len(CFG) + Len(tokens) + 3
  BY DEF Round
<1>4. ASSUME NEW k \in DOMAIN chart PROVE Len(chart[k]) + 1 \in 0 .. Round
  <2>1. Len(chart[k]) \in Nat /\ Len(chart[k]) <= Cardinality(PossibleElems)
    BY ListsBounded
  <2> HIDE DEF Round
  <2> QED
    BY <1>1, <1>2, <1>3, <2>1
<1> QED
  BY <1>1, <1>2, <1>3, <1>4

\* The loops stay within r rounds.
Within(r) == j <= r /\ c <= r /\ x <= r

\* No step takes a loop further than there is something to loop over.
LEMMA StaysWithin ==
  ASSUME IInv, Within(Round), Step
  PROVE  Within(Round)'
<1>1. /\ i \in Nat /\ j \in Nat \ {0} /\ c \in Nat /\ x \in Nat \ {0}
      /\ chart \in Seq(Seq(Elem)) /\ Len(chart) \in Nat
  BY DEF IInv, TypeOK
<1>2. Round' = Round
  BY DEF Step, Round, PossibleElems, BeginList, InvalidToken, EndList, CallCompleter, CallScanner,
         CallPredictor, PredictRule, PredictorReturns, ScanElem, ScannerReturns, CompleteElem,
         CompleterNext, CompleterReturns, Accept, InvalidCode, PopulateElem,
         PopulateNextList, PopulateDone
<1>3. /\ Round \in Nat /\ Round > 0
      /\ Len(CFG) + 1 \in 0 .. Round
      /\ Len(chart) + 1 \in 0 .. Round
      /\ \A k \in DOMAIN chart : Len(chart[k]) + 1 \in 0 .. Round
  BY RoundBounds
<1>4. \A k \in Nat : k < Len(chart) => Len(List(k)) \in Nat /\ Len(List(k)) + 1 <= Round
  <2> SUFFICES ASSUME NEW k \in Nat, k < Len(chart)
               PROVE  Len(List(k)) \in Nat /\ Len(List(k)) + 1 <= Round
    OBVIOUS
  <2>1. k + 1 \in DOMAIN chart
    BY <1>1
  <2>2. Len(chart[k + 1]) \in Nat /\ Len(chart[k + 1]) + 1 \in 0 .. Round
    BY <1>1, <1>3, <2>1
  <2> QED
    BY <1>3, <2>2 DEF List
<1>5. pc \in Walking => i < Len(chart)
  BY <1>1 DEF IInv, ChartInBounds
<1>6. pc \in Handlers => j \in 1 .. Len(List(i))
  BY InHandler
<1> DEFINE R == Round
<1>7. R \in Nat /\ R > 0 /\ Len(CFG) + 1 <= R /\ Len(chart) + 1 <= R /\ Len(CFG) \in Nat
  BY <1>3, GrammarAssumption
<1>8. \A k \in Nat : k < Len(chart) => Len(List(k)) \in Nat /\ Len(List(k)) + 1 <= R
  BY <1>4
<1>9. j <= R /\ c <= R /\ x <= R
  BY DEF Within
<1> SUFFICES j' <= R /\ c' <= R /\ x' <= R
  BY <1>2 DEF Within
<1> HIDE DEF R
<1>10. CASE UNCHANGED << j, c, x >>
  BY <1>9, <1>10
<1>11. CASE BeginList \/ CallCompleter \/ CallScanner \/ CallPredictor \/ Accept
  BY <1>7, <1>9, <1>11 DEF BeginList, CallCompleter, CallScanner, CallPredictor, Accept
<1>12. CASE PredictRule
  <2>1. PICK r \in x .. Len(CFG) : x' = r + 1
    BY <1>12 DEF PredictRule
  <2> QED
    BY <1>1, <1>7, <1>9, <1>12, <2>1 DEF PredictRule
<1>13. CASE PredictorReturns \/ ScannerReturns \/ CompleterReturns
  <2>1. pc \in Handlers /\ pc \in Walking /\ j' = j + 1 /\ UNCHANGED << c, x >>
    BY <1>13 DEF PredictorReturns, ScannerReturns, CompleterReturns, Handlers, Walking
  <2> QED
    BY <1>1, <1>5, <1>6, <1>7, <1>8, <1>9, <2>1
<1>14. CASE ScanElem
  <2>1. PICK n \in x .. Len(List(i)) : x' = n + 1
    BY <1>14 DEF ScanElem
  <2>2. pc \in Walking /\ UNCHANGED << j, c >>
    BY <1>14 DEF ScanElem, Walking, Handlers
  <2> QED
    BY <1>1, <1>5, <1>7, <1>8, <1>9, <2>1, <2>2
<1>15. CASE CompleteElem
  <2>1. PICK n \in x .. Len(Origin) : x' = n + 1
    BY <1>15 DEF CompleteElem
  <2>2. UNCHANGED << j, c >>
    BY <1>15 DEF CompleteElem
  <2>3. Completed.start + 1 \in DOMAIN chart /\ c \in DOMAIN List(i)
    BY <1>15, CompleteElemGrows
  <2>4. Completed.start \in Nat
    <3>1. pc \in Handlers
      BY <1>15 DEF CompleteElem, Handlers
    <3>2. Completed \in ElemsAt(i + 1)
      BY <2>3, <3>1, InHandler DEF Completed
    <3> QED
      BY <1>1, <3>2, ElemFields
  <2>5. Completed.start < Len(chart)
    BY <1>1, <2>3, <2>4
  <2>6. Len(Origin) \in Nat /\ Len(Origin) + 1 <= R
    BY <1>8, <2>4, <2>5 DEF Origin
  <2> QED
    BY <1>1, <1>7, <1>9, <2>1, <2>2, <2>6
<1>16. CASE CompleterNext
  <2>1. pc \in Walking /\ c <= Len(List(i)) /\ c' = c + 1 /\ x' = 1 /\ j' = j
    BY <1>16 DEF CompleterNext, Walking, Handlers
  <2> QED
    BY <1>1, <1>5, <1>7, <1>8, <1>9, <2>1
<1>17. CASE PopulateElem
  <2>1. PICK n \in x .. Len(List(c)) : x' = n + 1
    BY <1>17 DEF PopulateElem
  <2>2. c < Len(chart) /\ UNCHANGED << j, c >>
    BY <1>17 DEF PopulateElem
  <2> QED
    BY <1>1, <1>7, <1>8, <1>9, <2>1, <2>2
<1>18. CASE PopulateNextList
  <2>1. c < Len(chart) /\ c' = c + 1 /\ x' = 1 /\ j' = j
    BY <1>18 DEF PopulateNextList
  <2> QED
    BY <1>1, <1>7, <1>9, <2>1
<1>19. CASE InvalidToken \/ EndList \/ InvalidCode \/ PopulateDone
  BY <1>10, <1>19 DEF InvalidToken, EndList, InvalidCode, PopulateDone, Loops
<1> QED
  BY <1>11, <1>12, <1>13, <1>14, <1>15, <1>16, <1>17, <1>18, <1>19 DEF Step

\* Numbers of which only the first may be large, and their order.
Digits(n, r) == n[1] \in Nat /\ n[2] \in 0 .. r /\ n[3] \in 0 .. r /\ n[4] \in 0 .. r

Less(m, n) ==
  \/ m[1] < n[1]
  \/ m[1] = n[1] /\ m[2] < n[2]
  \/ m[1] = n[1] /\ m[2] = n[2] /\ m[3] < n[3]
  \/ m[1] = n[1] /\ m[2] = n[2] /\ m[3] = n[3] /\ m[4] < n[4]

\* One digit more.
LEMMA Carry ==
  ASSUME NEW base \in Nat, NEW a \in Nat, NEW b \in Nat, NEW d \in Nat, NEW e \in Nat, e < base
  PROVE  /\ a * base + b \in Nat
         /\ d < a => d * base + e < a * base + b
         /\ d = a /\ e < b => d * base + e < a * base + b
<1>1. a * base + b \in Nat
  OBVIOUS
<1>2. ASSUME d < a PROVE d * base + e < a * base + b
  <2> DEFINE rest == a - d - 1
  <2>1. rest \in Nat /\ a = d + 1 + rest
    BY <1>2
  <2> HIDE DEF rest
  <2>2. a * base = d * base + base + rest * base
    BY <2>1
  <2>3. rest * base \in Nat /\ d * base \in Nat
    BY <2>1
  <2> QED
    BY <2>2, <2>3
<1>3. ASSUME d = a, e < b PROVE d * base + e < a * base + b
  <2>1. a * base \in Nat
    OBVIOUS
  <2> QED
    BY <1>3, <2>1
<1> QED
  BY <1>1, <1>2, <1>3

\* The order of the digits is that of what they weigh.
LEMMA WeighLess ==
  ASSUME NEW r \in Nat, NEW m, NEW n, Digits(m, r), Digits(n, r), Less(m, n)
  PROVE  Weigh(m, r + 1) \in Nat /\ Weigh(n, r + 1) \in Nat /\ Weigh(m, r + 1) < Weigh(n, r + 1)
<1> DEFINE base == r + 1
           Two(d) == d[1] * base + d[2]
           Three(d) == Two(d) * base + d[3]
           Four(d) == Three(d) * base + d[4]
<1>1. /\ base \in Nat
      /\ m[1] \in Nat /\ m[2] \in Nat /\ m[3] \in Nat /\ m[4] \in Nat
      /\ m[2] < base /\ m[3] < base /\ m[4] < base
      /\ n[1] \in Nat /\ n[2] \in Nat /\ n[3] \in Nat /\ n[4] \in Nat
  BY DEF Digits
<1>2. Weigh(m, r + 1) = Four(m) /\ Weigh(n, r + 1) = Four(n)
  BY DEF Weigh
<1> HIDE DEF base
<1>3. /\ Two(m) \in Nat /\ Two(n) \in Nat
      /\ m[1] < n[1] => Two(m) < Two(n)
      /\ m[1] = n[1] /\ m[2] < n[2] => Two(m) < Two(n)
      /\ m[1] = n[1] /\ m[2] = n[2] => Two(m) = Two(n)
  BY <1>1, Carry
<1> HIDE DEF Two
<1>4. /\ Three(m) \in Nat /\ Three(n) \in Nat
      /\ Two(m) < Two(n) => Three(m) < Three(n)
      /\ Two(m) = Two(n) /\ m[3] < n[3] => Three(m) < Three(n)
      /\ Two(m) = Two(n) /\ m[3] = n[3] => Three(m) = Three(n)
  BY <1>1, <1>3, Carry
<1> HIDE DEF Three
<1>5. /\ Four(m) \in Nat /\ Four(n) \in Nat
      /\ Three(m) < Three(n) => Four(m) < Four(n)
      /\ Three(m) = Three(n) /\ m[4] < n[4] => Four(m) < Four(n)
  BY <1>1, <1>4, Carry
<1> HIDE DEF Four
<1> QED
  BY <1>2, <1>3, <1>4, <1>5 DEF Less

\* What is left to do is four such numbers.
LEMMA ToGoDigits ==
  ASSUME IInv, NEW r \in Nat, r > 0, Within(r)
  PROVE  Digits(ToGo(r), r)
<1>1. /\ i \in Nat /\ j \in 1 .. r /\ c \in 0 .. r /\ x \in 1 .. r
      /\ Len(tokens) \in Nat /\ pc \in Locations
  BY DEF IInv, TypeOK, Within
<1>2. pc = "lists" \/ pc \in Walking => i <= Len(tokens)
  BY <1>1 DEF IInv, ChartInBounds
<1>3. /\ 0 \in 0 .. r /\ r \in 0 .. r /\ r - j \in 0 .. r /\ r - c \in 0 .. r /\ r - x \in 0 .. r
  BY <1>1
<1>4. i <= Len(tokens) => 2 + Len(tokens) - i \in Nat
  BY <1>1
<1>5. CASE pc \in {"lists"} \cup Walking
  BY <1>2, <1>3, <1>4, <1>5 DEF ToGo, Digits, Walking, Handlers
<1>6. CASE pc \in {"populate", "accepted", "rejected"}
  BY <1>3, <1>6 DEF ToGo, Digits
<1> QED
  BY <1>1, <1>5, <1>6 DEF Locations, Walking, Handlers

\* The same of whatever state.
LEMMA AllDigits == \A q \in Nat : q > 0 /\ IInv /\ Within(q) => Digits(ToGo(q), q)
  BY ToGoDigits

\* Every step leaves less to do.
LEMMA StepsForward ==
  ASSUME IInv, NEW r \in Nat, r > 0, Within(r), Within(r)', Step
  PROVE  Less(ToGo(r)', ToGo(r))
<1>1. /\ i \in Nat /\ j \in 1 .. r /\ c \in 0 .. r /\ x \in 1 .. r
      /\ Len(tokens) \in Nat /\ Len(chart) \in Nat
  BY DEF IInv, TypeOK, Within
<1>2. pc = "lists" \/ pc \in Walking => i <= Len(tokens)
  BY <1>1 DEF IInv, ChartInBounds
<1>3. CASE BeginList
  BY <1>1, <1>3 DEF BeginList, ToGo, Less
<1>4. CASE InvalidToken \/ InvalidCode
  BY <1>1, <1>2, <1>4 DEF InvalidToken, InvalidCode, Loops, ToGo, Less
<1>5. CASE EndList
  BY <1>1, <1>5 DEF EndList, ToGo, Less
<1>6. CASE CallCompleter
  BY <1>1, <1>6 DEF CallCompleter, ToGo, Less
<1>7. CASE CallScanner
  BY <1>1, <1>7 DEF CallScanner, ToGo, Less
<1>8. CASE CallPredictor
  BY <1>1, <1>8 DEF CallPredictor, ToGo, Less
<1>9. CASE PredictRule
  <2>1. PICK q \in x .. Len(CFG) : x' = q + 1
    BY <1>9 DEF PredictRule
  <2>2. x' \in Int /\ x' > x
    BY <1>1, <2>1
  <2> QED
    BY <1>1, <1>9, <2>2 DEF PredictRule, ToGo, Less
<1>10. CASE ScanElem
  <2>1. PICK q \in x .. Len(List(i)) : x' = q + 1
    BY <1>10 DEF ScanElem
  <2>2. x' \in Int /\ x' > x
    BY <1>1, <2>1
  <2> QED
    BY <1>1, <1>10, <2>2 DEF ScanElem, ToGo, Less
<1>11. CASE CompleteElem
  <2>1. PICK q \in x .. Len(Origin) : x' = q + 1
    BY <1>11 DEF CompleteElem
  <2>2. x' \in Int /\ x' > x
    BY <1>1, <2>1
  <2> QED
    BY <1>1, <1>11, <2>2 DEF CompleteElem, ToGo, Less
<1>12. CASE PredictorReturns
  BY <1>1, <1>12 DEF PredictorReturns, ToGo, Less
<1>13. CASE ScannerReturns
  BY <1>1, <1>13 DEF ScannerReturns, ToGo, Less
<1>14. CASE CompleterReturns
  BY <1>1, <1>14 DEF CompleterReturns, ToGo, Less
<1>15. CASE CompleterNext
  BY <1>1, <1>15 DEF CompleterNext, ToGo, Less
<1>16. CASE Accept
  BY <1>1, <1>2, <1>16 DEF Accept, ToGo, Less
<1>17. CASE PopulateElem
  <2>1. PICK q \in x .. Len(List(c)) : x' = q + 1
    BY <1>17 DEF PopulateElem
  <2>2. x' \in Int /\ x' > x
    BY <1>1, <2>1
  <2> QED
    BY <1>1, <1>17, <2>2 DEF PopulateElem, ToGo, Less
<1>18. CASE PopulateNextList
  BY <1>1, <1>18 DEF PopulateNextList, ToGo, Less
<1>19. CASE PopulateDone
  BY <1>1, <1>19 DEF PopulateDone, Loops, ToGo, Less
<1> QED
  BY <1>3, <1>4, <1>5, <1>6, <1>7, <1>8, <1>9, <1>10, <1>11, <1>12, <1>13, <1>14, <1>15, <1>16,
     <1>17, <1>18, <1>19 DEF Step

\* The input and with it Round never change.
LEMMA SameRound == [Next]_vars => Round' = Round
  BY DEF Next, Step, Terminated, vars, Round, PossibleElems, BeginList, InvalidToken, EndList,
         CallCompleter, CallScanner, CallPredictor, PredictRule, PredictorReturns, ScanElem,
         ScannerReturns, CompleteElem, CompleterNext, CompleterReturns, Accept, InvalidCode,
         PopulateElem, PopulateNextList, PopulateDone

\* The loops are within Round rounds, always.
LEMMA NextWithin == IInv /\ Within(Round) /\ [Next]_vars => Within(Round)'
<1> SUFFICES ASSUME IInv, Within(Round), [Next]_vars PROVE Within(Round)'
  OBVIOUS
<1>1. CASE Step
  BY <1>1, StaysWithin
<1>2. CASE UNCHANGED vars
  BY <1>2, SameRound DEF vars, Within
<1> QED
  BY <1>1, <1>2 DEF Next, Terminated

\* And at first.
LEMMA InitWithin == Init => Within(Round)
<1> SUFFICES ASSUME Init PROVE Within(Round)
  OBVIOUS
<1>1. Round \in Nat /\ Round > 0
  BY InitInv, RoundBounds
<1> QED
  BY <1>1 DEF Init, Within

\* For every grammar and every input: each step of recognise() takes it nearer
\* to its end, by a number that it cannot go below, although the lists that its
\* loops walk grow while they do.
THEOREM RunsOut == Spec => StepsRunOut
<1>1. IInv /\ Within(Round) /\ [Next]_vars => StepsLeft' \in 0 .. (StepsLeft - 1) \/ UNCHANGED vars
  <2> SUFFICES ASSUME IInv, Within(Round), Step PROVE StepsLeft' \in 0 .. (StepsLeft - 1)
    BY DEF Next, Terminated
  <2>1. PICK r \in Nat : r = Round /\ r > 0
    BY RoundBounds
  <2>2. Round' = r /\ Within(r) /\ Within(r)' /\ IInv'
    BY <2>1, SameRound, NextInv, StaysWithin DEF Next, Within
  <2> DEFINE n == ToGo(r)
             m == ToGo(r)'
  <2>3. Digits(n, r)
    BY <2>1, <2>2, ToGoDigits
  <2>4. Digits(m, r)
    <3>1. (\A q \in Nat : q > 0 /\ IInv /\ Within(q) => Digits(ToGo(q), q))'
      BY AllDigits, PTL
    <3> QED
      BY <2>1, <2>2, <3>1 DEF Digits
  <2>5. Less(m, n)
    BY <2>1, <2>2, StepsForward
  <2>6. StepsLeft = Weigh(n, r + 1) /\ StepsLeft' = Weigh(m, r + 1)
    BY <2>1, <2>2 DEF StepsLeft, Weigh
  <2> HIDE DEF m, n
  <2>7. Weigh(m, r + 1) \in Nat /\ Weigh(n, r + 1) \in Nat /\ Weigh(m, r + 1) < Weigh(n, r + 1)
    BY <2>3, <2>4, <2>5, WeighLess
  <2> QED
    BY <2>6, <2>7
<1> QED
  BY <1>1, SpecInv, InitWithin, NextWithin, PTL DEF Spec, StepsRunOut
=============================================================================
