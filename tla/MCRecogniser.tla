---------------------------- MODULE MCRecogniser ----------------------------
(***************************************************************************)
(* The recogniser on a cut-down grammar with the rule shapes of WLP4 that  *)
(* make Earley's algorithm hard (a nullable left-recursive list, another   *)
(* one next to it, left-recursive operators, an ID that may also begin a   *)
(* call) and on every word over its terminals up to MaxLength tokens.      *)
(***************************************************************************)
EXTENDS CFGReference

CONSTANT MaxLength   \* bound on the length of the words

MCTerminals == {"INT", "ID", "RETURN", "SEMI", "PLUS", "LPAREN", "RPAREN"}

MCNonTerminals == {"start", "dcls", "statements", "statement", "expr", "factor"}

MCRules == <<
  [lhs |-> "start",      rhs |-> << "dcls", "statements", "RETURN", "expr" >>],
  [lhs |-> "dcls",       rhs |-> << >>],
  [lhs |-> "dcls",       rhs |-> << "dcls", "INT" >>],
  [lhs |-> "statements", rhs |-> << >>],
  [lhs |-> "statements", rhs |-> << "statements", "statement" >>],
  [lhs |-> "statement",  rhs |-> << "expr", "SEMI" >>],
  [lhs |-> "expr",       rhs |-> << "factor" >>],
  [lhs |-> "expr",       rhs |-> << "expr", "PLUS", "factor" >>],
  [lhs |-> "factor",     rhs |-> << "ID" >>],
  [lhs |-> "factor",     rhs |-> << "ID", "LPAREN", "RPAREN" >>],
  [lhs |-> "factor",     rhs |-> << "LPAREN", "expr", "RPAREN" >>] >>

MCLexemes == {"lexeme"}

MCPrograms ==
  UNION { [1 .. n -> { [type |-> t, value |-> "lexeme"] : t \in MCTerminals }] :
          n \in 0 .. MaxLength }
=============================================================================
