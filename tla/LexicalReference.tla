-------------------------- MODULE LexicalReference --------------------------
(***************************************************************************)
(* What the tokens of a text w are, without a stream or a loop: the text   *)
(* is cut into the longest lexemes, from left to right, and a token is     *)
(* where its lexeme begins.  Reference for the tokeniser; the tables of    *)
(* symbols are the tokeniser's.                                            *)
(***************************************************************************)
EXTENDS Tokeniser

Within(w, a, b, chars) == \A p \in a .. b : w[p] \in chars

IsBlank(w, a, b) == a = b /\ w[a] \in Spaces \cup {Newline}

IsComment(w, a, b) ==
  /\ b > a
  /\ w[a] = "/"
  /\ w[a + 1] = "/"
  /\ \A p \in a .. b : w[p] # Newline

IsWord(w, a, b) == w[a] \in Letters /\ Within(w, a, b, Letters \cup Digits)

IsDigits(w, a, b) == Within(w, a, b, Digits)

IsSymbol(w, a, b) ==
  \/ a = b /\ w[a] \in DOMAIN Single \cup DOMAIN Short
  \/ b = a + 1 /\ w[a] \in DOMAIN WithEquals /\ w[b] = "="

IsLexeme(w, a, b) ==
  IsBlank(w, a, b) \/ IsComment(w, a, b) \/ IsWord(w, a, b) \/ IsDigits(w, a, b) \/ IsSymbol(w, a, b)

\* Where the lexemes that begin at a can end.
LexemeEnds(w, a) == { b \in a .. Len(w) : IsLexeme(w, a, b) }

\* Decimal, without a superfluous zero, and an int.
IsNumber(digits) == (Len(digits) > 1 => digits[1] # "0") /\ Number(digits) <= MaxInt

\* A piece of the text, from its first character to its last, and none if no
\* lexeme begins there.
Piece(w, a) == << a, Max(LexemeEnds(w, a) \cup {0}) >>

Spelling(w, piece) == SubSeq(w, piece[1], piece[2])

IsBad(w, piece) ==
  \/ piece[2] = 0
  \/ IsDigits(w, piece[1], piece[2]) /\ ~ IsNumber(Spelling(w, piece))

IsToken(w, piece) ==
  ~ (IsBad(w, piece) \/ IsBlank(w, piece[1], piece[2]) \/ IsComment(w, piece[1], piece[2]))

WellFormed(w, pieces) == \A n \in DOMAIN pieces : ~ IsBad(w, pieces[n])

\* Where the piece after some pieces begins.
NextBegin(pieces) == IF pieces = << >> THEN 1 ELSE Last(pieces)[2] + 1

\* One piece more, unless the last was bad or the text ends.
Cut(w, pieces) ==
  IF WellFormed(w, pieces) /\ NextBegin(pieces) <= Len(w)
  THEN Append(pieces, Piece(w, NextBegin(pieces)))
  ELSE pieces

Cuts(w) ==
  LET cut[n \in Nat] == IF n = 0 THEN << >> ELSE Cut(w, cut[n - 1])
  IN  cut

\* The text in pieces, up to the first that is bad: no more than characters.
Pieces(w) == Cuts(w)[Len(w)]

SymbolOf(w, piece) ==
  LET value == Spelling(w, piece)
  IN  CASE IsWord(w, piece[1], piece[2])   -> IF value \in DOMAIN Keywords THEN Keywords[value] ELSE "ID"
        [] IsDigits(w, piece[1], piece[2]) -> "NUM"
        [] IsSymbol(w, piece[1], piece[2]) ->
             IF Len(value) = 2 THEN WithEquals[value[1]]
             ELSE IF value[1] \in DOMAIN Single THEN Single[value[1]] ELSE Short[value[1]]

NewlinesBefore(w, a) == { p \in 1 .. (a - 1) : w[p] = Newline }

TokenOf(w, piece) ==
  [type  |-> SymbolOf(w, piece),
   line  |-> Cardinality(NewlinesBefore(w, piece[1])) + 1,
   col   |-> piece[1] - Max(NewlinesBefore(w, piece[1]) \cup {0}),
   value |-> Spelling(w, piece)]

\* The tokens among the first pieces.
Found(w, pieces) ==
  LET found[n \in Nat] ==
        IF n = 0 THEN << >>
        ELSE IF IsToken(w, pieces[n]) THEN Append(found[n - 1], TokenOf(w, pieces[n]))
        ELSE found[n - 1]
  IN  found

TokensOf(w, pieces) == Found(w, pieces)[Len(pieces)]

\* The text ends where one more character was asked for: in a comment, or
\* in an operator that might have been longer.
EndsAskingForMore(w, pieces) ==
  /\ pieces # << >>
  /\ LET a == Last(pieces)[1]
         b == Last(pieces)[2]
     IN  b = Len(w) /\ (IsComment(w, a, b) \/ (a = b /\ w[a] \in DOMAIN Short))

-----------------------------------------------------------------------------

Stopped == pc \in {"done", "error"}

\* Two tokens have the same symbol, spelling and line.
SameToken(s, t) == s.type = t.type /\ s.value = t.value /\ s.line = t.line

\* The tokens read, and the lines they are said to be on, are those of the text
\* up to its first bad lexeme, whatever was read ahead and put back.
ReadsLongestLexemes ==
  Stopped =>
    \E reference \in {TokensOf(text, Pieces(text))} :
      /\ Len(tokens) = Len(reference)
      /\ \A n \in DOMAIN reference : SameToken(tokens[n], reference[n])

\* Exactly the texts with a bad lexeme are rejected, and those that end where
\* the tokeniser had asked for one more character.
RejectsBadTexts ==
  Stopped =>
    \E pieces \in {Pieces(text)} :
      pc = "error" <=> ~ WellFormed(text, pieces) \/ EndsAskingForMore(text, pieces)

IsLong(token) == Len(token.value) = 2 /\ token.value[2] = "="

\* The tokens of two characters before token n on its line.
LongBefore(read, n) == { m \in 1 .. (n - 1) : read[m].line = read[n].line /\ IsLong(read[m]) }

\* The column of token n, given where its lexeme begins.
ColumnFrom(read, n, begin) ==
  begin - Cardinality(LongBefore(read, n))
    + IF read[n].type = "NUM" THEN Len(read[n].value) ELSE 0

\* How far columns are off, and no further: one to the left for each operator
\* of two characters before on the line, and a number is where it ends.
ColumnsOffByOperators ==
  Stopped =>
    \E reference \in {TokensOf(text, Pieces(text))} :
      \A n \in DOMAIN tokens :
        tokens[n].col = ColumnFrom(tokens, n, reference[n].col)
=============================================================================
