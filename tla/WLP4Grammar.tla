---------------------------- MODULE WLP4Grammar ----------------------------
(***************************************************************************)
(* The symbols of include/symbol.hpp and the rules that State's            *)
(* constructor pushes onto CFG (src/state.cpp), in that order: rule n here *)
(* is CFG[n - 1].                                                          *)
(***************************************************************************)
EXTENDS Sequences

WLP4Terminals == {
    "ID", "NUM", "LPAREN", "RPAREN", "LBRACE", "RBRACE", "RETURN", "IF",
    "ELSE", "WHILE", "PRINTLN", "WAIN", "BECOMES", "INT", "EQ", "NE", "LT",
    "GT", "LE", "GE", "PLUS", "MINUS", "STAR", "SLASH", "PCT", "COMMA",
    "SEMI", "NEW", "DELETE", "LBRACK", "RBRACK", "AMP", "NULL_S" }

WLP4NonTerminals == {
    "procedures", "procedure", "main_s", "params", "paramlist", "type",
    "dcl", "dcls", "statements", "lvalue", "expr", "statement", "test",
    "term", "factor", "arglist", "start" }

LOCAL R(lhs, rhs) == [lhs |-> lhs, rhs |-> rhs]

WLP4Rules == <<
  R("start", << "procedures" >>),
  R("procedures", << "procedure", "procedures" >>),
  R("procedures", << "main_s" >>),
  R("procedure", << "INT", "ID", "LPAREN", "params", "RPAREN", "LBRACE",
                    "dcls", "statements", "RETURN", "expr", "SEMI", "RBRACE" >>),
  R("main_s", << "INT", "WAIN", "LPAREN", "dcl", "COMMA", "dcl", "RPAREN",
                 "LBRACE", "dcls", "statements", "RETURN", "expr", "SEMI",
                 "RBRACE" >>),
  R("params", << >>),
  R("params", << "paramlist" >>),
  R("paramlist", << "dcl" >>),
  R("paramlist", << "dcl", "COMMA", "paramlist" >>),
  R("type", << "INT" >>),
  R("type", << "INT", "STAR" >>),
  R("dcls", << >>),
  R("dcls", << "dcls", "dcl", "BECOMES", "NUM", "SEMI" >>),
  R("dcls", << "dcls", "dcl", "BECOMES", "NULL_S", "SEMI" >>),
  R("dcl", << "type", "ID" >>),
  R("statements", << >>),
  R("statements", << "statements", "statement" >>),
  R("statement", << "lvalue", "BECOMES", "expr", "SEMI" >>),
  R("statement", << "IF", "LPAREN", "test", "RPAREN", "LBRACE",
                    "statements", "RBRACE", "ELSE", "LBRACE", "statements",
                    "RBRACE" >>),
  R("statement", << "WHILE", "LPAREN", "test", "RPAREN", "LBRACE",
                    "statements", "RBRACE" >>),
  R("statement", << "PRINTLN", "LPAREN", "expr", "RPAREN", "SEMI" >>),
  R("statement", << "DELETE", "LBRACK", "RBRACK", "expr", "SEMI" >>),
  R("test", << "expr", "EQ", "expr" >>),
  R("test", << "expr", "NE", "expr" >>),
  R("test", << "expr", "LT", "expr" >>),
  R("test", << "expr", "LE", "expr" >>),
  R("test", << "expr", "GE", "expr" >>),
  R("test", << "expr", "GT", "expr" >>),
  R("expr", << "term" >>),
  R("expr", << "expr", "PLUS", "term" >>),
  R("expr", << "expr", "MINUS", "term" >>),
  R("term", << "factor" >>),
  R("term", << "term", "STAR", "factor" >>),
  R("term", << "term", "SLASH", "factor" >>),
  R("term", << "term", "PCT", "factor" >>),
  R("factor", << "ID" >>),
  R("factor", << "NUM" >>),
  R("factor", << "NULL_S" >>),
  R("factor", << "LPAREN", "expr", "RPAREN" >>),
  R("factor", << "AMP", "lvalue" >>),
  R("factor", << "STAR", "factor" >>),
  R("factor", << "NEW", "INT", "LBRACK", "expr", "RBRACK" >>),
  R("factor", << "ID", "LPAREN", "RPAREN" >>),
  R("factor", << "ID", "LPAREN", "arglist", "RPAREN" >>),
  R("arglist", << "expr" >>),
  R("arglist", << "expr", "COMMA", "arglist" >>),
  R("lvalue", << "ID" >>),
  R("lvalue", << "STAR", "factor" >>),
  R("lvalue", << "LPAREN", "lvalue", "RPAREN" >>) >>
=============================================================================
