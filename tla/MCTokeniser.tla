---------------------------- MODULE MCTokeniser -----------------------------
(***************************************************************************)
(* The tokeniser on every text of up to MaxLength characters of an         *)
(* alphabet with one or two characters of every kind.                      *)
(***************************************************************************)
EXTENDS LexicalReference

CONSTANT MaxLength   \* bound on the length of the texts

MCLetters == {"i", "f"}

MCOthers == {"$"}

MCKeywords == << "i", "f" >> :> "IF"

MCAlphabet == MCLetters \cup MCOthers \cup {"0", "1", "(", "/", "=", "!", " ", "\n"}

MCTexts == UNION { [1 .. n -> MCAlphabet] : n \in 0 .. MaxLength }

-----------------------------------------------------------------------------

\* Only a text with a bad lexeme is rejected: `unknown token'.
AcceptsGoodTexts == pc = "error" => ~ WellFormed(text, Pieces(text))
=============================================================================
