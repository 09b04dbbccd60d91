----------------------------- MODULE SyntaxTree -----------------------------
(***************************************************************************)
(* The trees of src/ast as records: a form, a name and children.  A unit   *)
(* expr or term is the term or factor that it consists of.                 *)
(***************************************************************************)
Node(form, name, kids) == [form |-> form, name |-> name, kids |-> kids]

\* Expr::type() of a sum and of a difference, Term::type() of a product.
PlusType(left, right) ==
  CASE left = "INT" /\ right = "INT" -> "INT"
    [] {left, right} = {"INT", "INT_STAR"} -> "INT_STAR"
    [] OTHER -> "INVALID"

MinusType(left, right) ==
  CASE left = "INT" /\ right = "INT" -> "INT"
    [] left = "INT_STAR" /\ right = "INT" -> "INT_STAR"
    [] left = "INT_STAR" /\ right = "INT_STAR" -> "INT"
    [] OTHER -> "INVALID"

TermType(left, right) == IF left = "INT" /\ right = "INT" THEN "INT" ELSE "INVALID"
=============================================================================
