----------------------------- MODULE FinalChart -----------------------------
(***************************************************************************)
(* What the parser relies on, without a look, in the final chart that the  *)
(* recogniser hands to State: what addToFinalChart() has dropped, and      *)
(* where the type of a declaration stands.                                 *)
(***************************************************************************)
EXTENDS Recogniser, FiniteSets

\* The grammars for which the filtering is meant: a type is INT or INT STAR and
\* begins a dcl, which ends with an ID; in any other rule an INT is followed by
\* a terminal that is not a STAR and that is not the last of the rule.
ASSUME TypesAssumption ==
  /\ {"INT", "STAR", "ID"} \subseteq Terminals
  /\ {"type", "dcl"} \subseteq NonTerminals
  /\ CFG[1].lhs \notin {"type", "dcl"}
  /\ \E r \in DOMAIN CFG : CFG[r] = [lhs |-> "type", rhs |-> << "INT" >>]
  /\ \A r \in DOMAIN CFG :
       /\ CFG[r].lhs = "type" => CFG[r].rhs \in {<< "INT" >>, << "INT", "STAR" >>}
       /\ CFG[r].lhs = "dcl" => CFG[r].rhs = << "type", "ID" >>
       /\ CFG[r].lhs \in {"type", "dcl"} => \A q \in DOMAIN CFG : CFG[q] = CFG[r] => q = r
       /\ \A d \in DOMAIN CFG[r].rhs :
            /\ CFG[r].rhs[d] = "type" => CFG[r].lhs = "dcl"
            /\ CFG[r].rhs[d] = "INT" /\ CFG[r].lhs # "type" =>
                 /\ d + 1 < Len(CFG[r].rhs)
                 /\ CFG[r].rhs[d + 1] \in Terminals \ {"STAR"}

\* A list of declarations with initial values: each a dcl, an equals sign, a
\* value that fits one of the types, and a semicolon.
ASSUME DclsAssumption ==
  /\ {"BECOMES", "NUM", "NULL_S", "SEMI"} \subseteq Terminals
  /\ "dcls" \in NonTerminals
  /\ CFG[1].lhs # "dcls"
  /\ \A r \in DOMAIN CFG :
       CFG[r].lhs = "dcls" =>
         CFG[r].rhs \in {<< >>, << "dcls", "dcl", "BECOMES", "NUM", "SEMI" >>,
                               << "dcls", "dcl", "BECOMES", "NULL_S", "SEMI" >>}

\* The elements of the chart by their places: element n of the k-th list.
Places == UNION { { << k, n >> : n \in DOMAIN chart[k] } : k \in DOMAIN chart }

ElemAt(p) == chart[p[1]][p[2]]

Before(p, q) == p[1] < q[1] \/ (p[1] = q[1] /\ p[2] < q[2])

\* fc holds the elements at the places S, one each, in the order of the places.
Lists(fc, S) ==
  /\ Len(fc) = Cardinality(S)
  /\ \A p \in S : fc[1 + Cardinality({ q \in S : Before(q, p) })] = ElemAt(p)

\* A type -> INT at the place of a type -> INT STAR.
Shadowed(el) ==
  /\ Lhs(el) = "type"
  /\ Len(Rhs(el)) = 1
  /\ \E p \in Places :
       /\ IsComplete(ElemAt(p))
       /\ IsPointerType(ElemAt(p))
       /\ ElemAt(p).start = el.start

KeptPlaces == { p \in Places : IsComplete(ElemAt(p)) /\ ~ Shadowed(ElemAt(p)) }

\* populateFinalChart() is about to return.
Populated == pc = "populate" /\ c >= Len(chart)

\* addToFinalChart() drops, unseen, whatever was added last before a type ->
\* INT STAR.  In the end it has dropped exactly the types that read only the
\* INT of an INT STAR, and no other complete element, nor their order.
DropsShadowedTypes == Populated => Lists(finalChart, KeptPlaces)

\* The element before element n of the final chart is the type of a
\* declaration n.
TypeBefore(n) ==
  /\ n > 1
  /\ Lhs(finalChart[n - 1]) = "type"
  /\ finalChart[n - 1].start = finalChart[n].start

\* parseDcl() reads the type of a declaration, and skips it, at the index
\* before the declaration without a look at what is there: it is its type.
TypeBeforeDcl ==
  Populated => \A n \in DOMAIN finalChart : Lhs(finalChart[n]) = "dcl" => TypeBefore(n)

IsToken(n, sym) == n \in DOMAIN tokens /\ tokens[n].type = sym

\* The terminals that the rule of el begins with stand where el starts.
BeginsWithItsTokens(el) ==
  \A d \in DOMAIN Rhs(el) :
    (\A e \in 1 .. d : Rhs(el)[e] \in Terminals) => IsToken(el.start + d, Rhs(el)[d])

\* A declaration n has its ID right after its type.
IdAfterType(n) ==
  n > 1 /\ IsToken(finalChart[n].start + Len(Rhs(finalChart[n - 1])) + 1, "ID")

\* gotoCorrectRule(dcl) goes from element n to element m.
DclBelow(m, n) ==
  /\ m \in 1 .. (n - 1)
  /\ Lhs(finalChart[m]) = "dcl"
  /\ \A l \in 1 .. (n - 1) : Lhs(finalChart[l]) = "dcl" => l <= m

\* The value of a list of declarations n, the fourth token after its dcl for a
\* NUM and the fifth for a NULL_S: that value if it fits the dcl's type, and
\* the BECOMES or the SEMI next to it if it does not.
ReadAsValue(sym, type) ==
  CASE sym = "NUM" /\ Len(type) = 1 -> "NUM"
    [] sym = "NUM" /\ Len(type) = 2 -> "BECOMES"
    [] sym = "NULL_S" /\ Len(type) = 1 -> "SEMI"
    [] sym = "NULL_S" /\ Len(type) = 2 -> "NULL_S"

InitialValueRead(n) ==
  LET sym == Rhs(finalChart[n])[4]
  IN  \E m \in 2 .. (n - 1) :
        /\ DclBelow(m, n)
        /\ IsToken(finalChart[m].start + (IF sym = "NUM" THEN 4 ELSE 5),
                   ReadAsValue(sym, Rhs(finalChart[m - 1])))

\* parse() and its functions read names and numbers by counting tokens from
\* where an element starts, without a look at their kinds.  The first to third
\* token are of the kind the rule says.  So is the initial value of a
\* declaration, the fourth or fifth, if it is a NUM for an INT or a NULL for an
\* INT STAR; otherwise, which nothing forbids, it is the token next to it.
TokensAtOffsets ==
  Populated =>
    \A n \in DOMAIN finalChart :
      /\ BeginsWithItsTokens(finalChart[n])
      /\ Lhs(finalChart[n]) = "dcl" => IdAfterType(n)
      /\ Lhs(finalChart[n]) = "dcls" /\ Rhs(finalChart[n]) # << >> => InitialValueRead(n)
=============================================================================
