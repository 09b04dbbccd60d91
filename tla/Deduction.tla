----------------------------- MODULE Deduction ------------------------------
(***************************************************************************)
(* Earley's rules of inference with no algorithm: a set of facts "element  *)
(* el is in the state list after at tokens" grows by facts that follow     *)
(* from it, in any order and any number at a time.  What a recogniser of   *)
(* this grammar promises never to exceed.                                  *)
(***************************************************************************)
EXTENDS Grammar

CONSTANT Words    \* the inputs

VARIABLES word, facts

Fact == [el : Elem, at : Nat]

Axiom == [el |-> [rule |-> 1, start |-> 0, dot |-> 0], at |-> 0]

\* A rule of the symbol that some element of the same list expects.
Predicted(f) ==
  /\ f.el.dot = 0
  /\ f.el.start = f.at
  /\ \E g \in facts : g.at = f.at /\ Expects(g.el, Lhs(f.el))

\* The next token is the terminal after the dot.
Scanned(f) ==
  \E g \in facts :
    /\ g.at < Len(word)
    /\ f.at = g.at + 1
    /\ Expects(g.el, word[f.at].type)
    /\ f.el = Advance(g.el)

\* The symbol after the dot has an empty rule.
Skipped(f) ==
  \E g \in facts :
    /\ f.at = g.at
    /\ ~ IsComplete(g.el)
    /\ Nullable(NextSymbol(g.el))
    /\ f.el = Advance(g.el)

\* A complete element and one, where it started, that expects its symbol.
Completed(f) ==
  \E g, h \in facts :
    /\ h.at = f.at
    /\ IsComplete(h.el)
    /\ g.at = h.el.start
    /\ Expects(g.el, Lhs(h.el))
    /\ f.el = Advance(g.el)

Follows(f) == Predicted(f) \/ Scanned(f) \/ Skipped(f) \/ Completed(f)

Init ==
  /\ word \in Words
  /\ facts = {Axiom}

Next ==
  /\ facts \subseteq facts'
  /\ \A f \in facts' \ facts : Follows(f)
  /\ word' = word

Spec == Init /\ [][Next]_<< word, facts >>
=============================================================================
