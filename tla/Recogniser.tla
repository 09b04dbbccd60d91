----------------------------- MODULE Recogniser -----------------------------
(***************************************************************************)
(* The Earley recogniser of src/recogniser.cpp, loop by loop, with the     *)
(* filtering of the final chart it hands to State (state.cpp).             *)
(*                                                                         *)
(* Every loop that can add an element to the chart is a program-counter    *)
(* location, and one of its iterations that reaches addToChart() is one    *)
(* step; iterations that only `continue' are skipped by taking the first   *)
(* matching index.  chart[k + 1] is the code's _chart[k].                  *)
(***************************************************************************)
EXTENDS Grammar, FiniteSets

CONSTANTS
  Lexemes,  \* token values
  Programs  \* the token sequences the tokeniser may hand over

Token == [type : Terminals, value : Lexemes]

ASSUME ProgramsAssumption == Programs \subseteq Seq(Token)

VARIABLES
  tokens,      \* STATE's tokens
  chart,       \* _chart
  pc,          \* the loop the program is in
  i,           \* recognise(): the list being processed, from 0
  j,           \* recognise(): the element of that list, from 1
  c,           \* completer(): element index; populateFinalChart(): list index
  x,           \* innermost loop: rule or element index
  finalChart   \* STATE's _chart: the complete elements

vars == << tokens, chart, pc, i, j, c, x, finalChart >>

Loops == << i, j, c, x >>

List(k) == chart[k + 1]

ExistsInStateList(el, list) == \E n \in DOMAIN list : list[n] = el

\* Mutant: existsInStateList() is not asked.
AddToChart_Unchecked(ch, el, k) ==
  LET grown == IF k = Len(ch) THEN Append(ch, << >>) ELSE ch
  IN  [grown EXCEPT ![k + 1] = Append(@, el)]

AddToChart(ch, el, k) ==
  LET grown == IF k = Len(ch) THEN Append(ch, << >>) ELSE ch
  IN  IF ExistsInStateList(el, grown[k + 1])
      THEN grown
      ELSE [grown EXCEPT ![k + 1] = Append(@, el)]

StartElem == [rule |-> 1, start |-> 0, dot |-> 0]

Init ==
  /\ tokens \in Programs
  /\ chart = AddToChart(<< >>, StartElem, 0)
  /\ pc = "lists"
  /\ i = 0
  /\ j = 1
  /\ c = 0
  /\ x = 1
  /\ finalChart = << >>

-----------------------------------------------------------------------------
(* recognise(): the loop over the lists, then over the elements of a list. *)

\* Mutant: the list of the previous token is not looked for.
BeginList_Unchecked ==
  /\ pc = "lists"
  /\ i < Len(tokens)
  /\ pc' = "elems"
  /\ j' = 1
  /\ UNCHANGED << tokens, chart, i, c, x, finalChart >>

\* Mutant: indices of lists and of elements are confused.
BeginList_FromZero ==
  /\ pc = "lists"
  /\ i < Len(tokens)
  /\ i < Len(chart)
  /\ pc' = "elems"
  /\ j' = 0
  /\ UNCHANGED << tokens, chart, i, c, x, finalChart >>

BeginList ==
  /\ pc = "lists"
  /\ i < Len(tokens)
  /\ i < Len(chart)
  /\ pc' = "elems"
  /\ j' = 1
  /\ UNCHANGED << tokens, chart, i, c, x, finalChart >>

\* No element survived the previous token: `invalid token'.
InvalidToken ==
  /\ pc = "lists"
  /\ i < Len(tokens)
  /\ i >= Len(chart)
  /\ pc' = "rejected"
  /\ UNCHANGED << tokens, chart, Loops, finalChart >>

El == List(i)[j]

CallCompleter ==
  /\ pc = "elems"
  /\ j <= Len(List(i))
  /\ IsComplete(El)
  /\ pc' = "completer"
  /\ c' = 1
  /\ x' = 1
  /\ UNCHANGED << tokens, chart, i, j, finalChart >>

CallScanner ==
  /\ pc = "elems"
  /\ j <= Len(List(i))
  /\ ~ IsComplete(El)
  /\ NextSymbol(El) \in Terminals
  /\ pc' = "scanner"
  /\ x' = 1
  /\ UNCHANGED << tokens, chart, i, j, c, finalChart >>

CallPredictor ==
  /\ pc = "elems"
  /\ j <= Len(List(i))
  /\ ~ IsComplete(El)
  /\ NextSymbol(El) \notin Terminals
  /\ pc' = "predictor"
  /\ x' = 1
  /\ UNCHANGED << tokens, chart, i, j, c, finalChart >>

EndList ==
  /\ pc = "elems"
  /\ j > Len(List(i))
  /\ pc' = "lists"
  /\ i' = i + 1
  /\ UNCHANGED << tokens, chart, j, c, x, finalChart >>

-----------------------------------------------------------------------------
(* predictor(): every rule of the symbol after the dot; over a nullable    *)
(* symbol the element itself moves on as well.                             *)

Predicts(r) == CFG[r].lhs = NextSymbol(El)

PredictRule ==
  /\ pc = "predictor"
  /\ \E r \in x .. Len(CFG) :
       /\ Predicts(r)
       /\ \A q \in x .. (r - 1) : ~ Predicts(q)
       /\ LET predicted == AddToChart(chart, [rule |-> r, start |-> i, dot |-> 0], i)
          IN  chart' = IF Nullable(NextSymbol(El))
                       THEN AddToChart(predicted, Advance(El), i)
                       ELSE predicted
       /\ x' = r + 1
  /\ UNCHANGED << tokens, pc, i, j, c, finalChart >>

\* Mutant: the element is predicted from again.
PredictorReturns_Again ==
  /\ pc = "predictor"
  /\ \A r \in x .. Len(CFG) : ~ Predicts(r)
  /\ pc' = "elems"
  /\ UNCHANGED << tokens, chart, i, j, c, x, finalChart >>

PredictorReturns ==
  /\ pc = "predictor"
  /\ \A r \in x .. Len(CFG) : ~ Predicts(r)
  /\ pc' = "elems"
  /\ j' = j + 1
  /\ UNCHANGED << tokens, chart, i, c, x, finalChart >>

-----------------------------------------------------------------------------
(* scanner(): every element of the list that expects the current token.    *)

Scans(n) == Expects(List(i)[n], tokens[i + 1].type)

\* Mutant: what is scanned goes to the list that is walked.
ScanElem_SameList ==
  /\ pc = "scanner"
  /\ \E n \in x .. Len(List(i)) :
       /\ Scans(n)
       /\ \A m \in x .. (n - 1) : ~ Scans(m)
       /\ chart' = AddToChart(chart, Advance(List(i)[n]), i)
       /\ x' = n + 1
  /\ UNCHANGED << tokens, pc, i, j, c, finalChart >>

ScanElem ==
  /\ pc = "scanner"
  /\ \E n \in x .. Len(List(i)) :
       /\ Scans(n)
       /\ \A m \in x .. (n - 1) : ~ Scans(m)
       /\ chart' = AddToChart(chart, Advance(List(i)[n]), i + 1)
       /\ x' = n + 1
  /\ UNCHANGED << tokens, pc, i, j, c, finalChart >>

ScannerReturns ==
  /\ pc = "scanner"
  /\ \A n \in x .. Len(List(i)) : ~ Scans(n)
  /\ pc' = "elems"
  /\ j' = j + 1
  /\ UNCHANGED << tokens, chart, i, c, x, finalChart >>

-----------------------------------------------------------------------------
(* completer(): every complete element of the list against every element   *)
(* of the list it started in, which may be the list that is growing.       *)

Completed == List(i)[c]

Origin == List(Completed.start)

\* Mutant: the symbol after the dot is not compared.
Completes_Any(n) == ~ IsComplete(Origin[n])

Completes(n) == Expects(Origin[n], Lhs(Completed))

\* Mutant: the inner loop ends with the first element that is completed.
CompleteElem_FirstOnly ==
  /\ pc = "completer"
  /\ c <= Len(List(i))
  /\ IsComplete(Completed)
  /\ \E n \in x .. Len(Origin) :
       /\ Completes(n)
       /\ \A m \in x .. (n - 1) : ~ Completes(m)
       /\ chart' = AddToChart(chart, Advance(Origin[n]), i)
       /\ x' = Len(Origin) + 1
  /\ UNCHANGED << tokens, pc, i, j, c, finalChart >>

CompleteElem ==
  /\ pc = "completer"
  /\ c <= Len(List(i))
  /\ IsComplete(Completed)
  /\ \E n \in x .. Len(Origin) :
       /\ Completes(n)
       /\ \A m \in x .. (n - 1) : ~ Completes(m)
       /\ chart' = AddToChart(chart, Advance(Origin[n]), i)
       /\ x' = n + 1
  /\ UNCHANGED << tokens, pc, i, j, c, finalChart >>

\* Mutant: the outer loop does not move on.
CompleterNext_Stuck ==
  /\ pc = "completer"
  /\ c <= Len(List(i))
  /\ IsComplete(Completed) => \A n \in x .. Len(Origin) : ~ Completes(n)
  /\ x' = 1
  /\ UNCHANGED << tokens, chart, pc, i, j, c, finalChart >>

CompleterNext ==
  /\ pc = "completer"
  /\ c <= Len(List(i))
  /\ IsComplete(Completed) => \A n \in x .. Len(Origin) : ~ Completes(n)
  /\ c' = c + 1
  /\ x' = 1
  /\ UNCHANGED << tokens, chart, pc, i, j, finalChart >>

CompleterReturns ==
  /\ pc = "completer"
  /\ c > Len(List(i))
  /\ pc' = "elems"
  /\ j' = j + 1
  /\ UNCHANGED << tokens, chart, i, c, x, finalChart >>

-----------------------------------------------------------------------------
(* The verdict, and the final chart.                                       *)

\* Mutant: one list too few is enough.
Accept_Early ==
  /\ pc = "lists"
  /\ i >= Len(tokens)
  /\ Len(chart) >= Len(tokens)
  /\ pc' = "populate"
  /\ c' = 0
  /\ x' = 1
  /\ UNCHANGED << tokens, chart, i, j, finalChart >>

\* The last token was scanned; the list it led to is not processed.
Accept ==
  /\ pc = "lists"
  /\ i >= Len(tokens)
  /\ Len(chart) = Len(tokens) + 1
  /\ pc' = "populate"
  /\ c' = 0
  /\ x' = 1
  /\ UNCHANGED << tokens, chart, i, j, finalChart >>

\* `invalid WLP4 code'
InvalidCode ==
  /\ pc = "lists"
  /\ i >= Len(tokens)
  /\ Len(chart) # Len(tokens) + 1
  /\ pc' = "rejected"
  /\ UNCHANGED << tokens, chart, Loops, finalChart >>

\* Mutant: any rule of two symbols counts.
IsPointerType_AnyLhs(el) == Len(Rhs(el)) = 2

\* type -> INT STAR: the element added last is dropped.
IsPointerType(el) == Lhs(el) = "type" /\ Len(Rhs(el)) = 2

\* Mutant: nothing is dropped.
AddToFinalChart_KeepsAll(fc, el) == Append(fc, el)

AddToFinalChart(fc, el) ==
  Append(IF IsPointerType(el) THEN SubSeq(fc, 1, Len(fc) - 1) ELSE fc, el)

PopulateElem ==
  /\ pc = "populate"
  /\ c < Len(chart)
  /\ \E n \in x .. Len(List(c)) :
       /\ IsComplete(List(c)[n])
       /\ \A m \in x .. (n - 1) : ~ IsComplete(List(c)[m])
       /\ finalChart' = AddToFinalChart(finalChart, List(c)[n])
       /\ x' = n + 1
  /\ UNCHANGED << tokens, chart, pc, i, j, c >>

PopulateNextList ==
  /\ pc = "populate"
  /\ c < Len(chart)
  /\ \A n \in x .. Len(List(c)) : ~ IsComplete(List(c)[n])
  /\ c' = c + 1
  /\ x' = 1
  /\ UNCHANGED << tokens, chart, pc, i, j, finalChart >>

PopulateDone ==
  /\ pc = "populate"
  /\ c >= Len(chart)
  /\ pc' = "accepted"
  /\ UNCHANGED << tokens, chart, Loops, finalChart >>

\* recognise() has returned or thrown.
Terminated ==
  /\ pc \in {"accepted", "rejected"}
  /\ UNCHANGED vars

Step ==
  \/ BeginList \/ InvalidToken \/ EndList
  \/ CallCompleter \/ CallScanner \/ CallPredictor
  \/ PredictRule \/ PredictorReturns
  \/ ScanElem \/ ScannerReturns
  \/ CompleteElem \/ CompleterNext \/ CompleterReturns
  \/ Accept \/ InvalidCode
  \/ PopulateElem \/ PopulateNextList \/ PopulateDone

Next == Step \/ Terminated

Spec == Init /\ [][Next]_vars /\ WF_vars(Next)

-----------------------------------------------------------------------------
(* Properties.                                                             *)

Locations == {"lists", "elems", "predictor", "scanner", "completer",
              "populate", "accepted", "rejected"}

Handlers == {"predictor", "scanner", "completer"}

Walking == {"elems"} \cup Handlers

\* Types of the variables.
TypeOK ==
  /\ tokens \in Seq(Token)
  /\ chart \in Seq(Seq(Elem))
  /\ pc \in Locations
  /\ i \in Nat /\ j \in Nat \ {0} /\ c \in Nat /\ x \in Nat \ {0}
  /\ finalChart \in Seq(Elem)

\* addToChart() keeps every list free of duplicates, whichever of the four
\* callers asks and in whatever order they find the same element: the only
\* reason why the loops over growing lists end.
NoDuplicates ==
  \A k \in DOMAIN chart : \A m, n \in DOMAIN chart[k] :
    chart[k][m] = chart[k][n] => m = n

\* Every index the loops use is there although none is checked: an element of
\* list k started in a list no later than k and its dot is inside its rule;
\* at most one list exists beyond the one being walked, and none is missing
\* before it; the element whose handler runs is in that list.  So no
\* _chart[...] is out of range and `_chart.size() - 1' never wraps around.
ChartInBounds ==
  /\ Len(chart) \in 1 .. (Len(tokens) + 1)
  /\ \A k \in DOMAIN chart : \A n \in DOMAIN chart[k] :
       chart[k][n].start < k /\ chart[k][n].dot <= Len(Rhs(chart[k][n]))
  /\ pc = "lists" => i <= Len(tokens) /\ Len(chart) \in {i, i + 1}
  /\ pc \in Walking => i < Len(tokens) /\ Len(chart) \in {i + 1, i + 2}
  /\ pc \in Handlers => j \in DOMAIN List(i)

\* A list that has been walked is never added to again, and neither is the
\* one the scanner is walking: its range-for would read freed memory if the
\* list it iterates over were reallocated.
WalkedListsFrozen ==
  [][ /\ \A k \in 1 .. i : chart'[k] = chart[k]
      /\ pc = "scanner" => chart'[i + 1] = chart[i + 1] ]_vars

\* The facts the chart stands for.
ChartFacts ==
  UNION { { [el |-> chart[k][n], at |-> k - 1] : n \in DOMAIN chart[k] } :
          k \in DOMAIN chart }

\* The recogniser only ever adds what Earley's rules allow.
Rules == INSTANCE Deduction WITH Words <- Programs, word <- tokens, facts <- ChartFacts

FollowsTheRules == Rules!Spec

\* The elements that can be in a list.
PossibleElems ==
  [rule  : DOMAIN CFG,
   start : 0 .. Len(tokens),
   dot   : UNION { 0 .. Len(CFG[r].rhs) : r \in DOMAIN CFG }]

\* No loop, over a list, the lists or the rules, gets further.
Round == Cardinality(PossibleElems) + Len(CFG) + Len(tokens) + 3

\* How far the loops have to go, from the outermost to the innermost.
ToGo(round) ==
  LET lists == 2 + Len(tokens) - i
  IN  CASE pc = "lists" -> << lists, round, 0, 0 >>
        [] pc = "elems" -> << lists, round - j, round, 0 >>
        [] pc \in {"predictor", "scanner"} -> << lists, round - j, 0, round - x >>
        [] pc = "completer" -> << lists, round - j, round - c, round - x >>
        [] pc = "populate" -> << 1, 0, round - c, round - x >>
        [] pc \in {"accepted", "rejected"} -> << 0, 0, 0, 0 >>

\* Four numbers as one, the last three of them less than base.
Weigh(n, base) == ((n[1] * base + n[2]) * base + n[3]) * base + n[4]

StepsLeft == LET round == Round IN Weigh(ToGo(round), round + 1)

\* No step leaves as much to do as there was, although almost all of them may
\* make the lists longer that the loops have to walk: on every input
\* recognise() is through after as many steps as StepsLeft says at first.
StepsRunOut == [][StepsLeft' \in 0 .. (StepsLeft - 1)]_vars

\* recognise() ends, with a verdict.
Terminates == <>(pc \in {"accepted", "rejected"})
=============================================================================
