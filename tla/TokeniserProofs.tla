-------------------------- MODULE TokeniserProofs ---------------------------
(***************************************************************************)
(* For every alphabet, keyword table and file: the tokeniser's types, that *)
(* it reads its file to the end, and that what it reads are the tokens of  *)
(* the longest lexemes, rejecting exactly the files with a bad one.        *)
(*                                                                         *)
(* The argument: between two steps the text is cut, as the reference cuts  *)
(* it, up to some place a, its tokens are those read, and what was read    *)
(* from a on begins the next lexeme (Reading).  Each loop of the tokeniser *)
(* either adds a character to that lexeme or ends it, which is when it is  *)
(* the longest (the lemmas on pieces).                                     *)
(***************************************************************************)
EXTENDS LexicalReference, Induction

\* Reading a character, which may be the last, keeps the stream's types.
LEMMA GetTyped ==
  ASSUME TypeOK, Get, text' = text
  PROVE  /\ pos' \in 1 .. (Len(text') + 1)
         /\ eof' \in BOOLEAN /\ fail' \in BOOLEAN
         /\ ch' \in Chars \cup {End}
<1>1. text \in Seq(Chars \cup {End})
  BY TextAssumption DEF TypeOK
<1>2. CASE ~ eof /\ ~ fail /\ pos <= Len(text)
  <2>1. text[pos] \in Chars \cup {End}
    BY <1>1, <1>2 DEF TypeOK
  <2> QED
    BY <1>1, <1>2, <2>1 DEF TypeOK, Get
<1>3. CASE ~ (~ eof /\ ~ fail /\ pos <= Len(text))
  BY <1>3 DEF TypeOK, Get
<1> QED
  BY <1>2, <1>3

\* A token of a symbol in one of the tables has the type of a token.
LEMMA AppendTyped ==
  ASSUME TypeOK, NEW type \in TokenSymbols, NEW value \in Seq(Chars), NEW c \in Nat \ {0},
         tokens' = Append(tokens, Token(type, value, c))
  PROVE  tokens' \in Seq([type : TokenSymbols, col : Nat \ {0}, line : Nat \ {0}, value : Seq(Chars)])
<1>1. Token(type, value, c) \in [type : TokenSymbols, col : Nat \ {0}, line : Nat \ {0}, value : Seq(Chars)]
  BY DEF TypeOK, Token
<1> QED
  BY <1>1 DEF TypeOK

\* The initial state has the types.
LEMMA InitTyped == Init => TypeOK
<1> SUFFICES ASSUME Init
             PROVE  TypeOK
  OBVIOUS
<1>1. pos \in 1 .. (Len(text) + 1)
  <2>1. Len(text) \in Nat
    BY TextAssumption DEF Init
  <2> QED
    BY <2>1 DEF Init
<1>2. lexeme \in Seq(Chars)
  BY DEF Init
<1>3. tokens \in Seq([type : TokenSymbols, col : Nat \ {0}, line : Nat \ {0}, value : Seq(Chars)])
  BY DEF Init
<1>4. line \in Nat \ {0} /\ col \in Nat \ {0}
  BY DEF Init
<1>5. eof \in BOOLEAN /\ fail \in BOOLEAN
  BY Zenon DEF Init
<1>6. ch \in Chars \cup {End}
  BY Zenon DEF Init
<1>7. /\ text \in Texts
      /\ pc \in {"open", "loop", "operator", "comment", "word", "number", "done", "error", "unopened"}
  BY DEF Init
<1> QED
  BY <1>1, <1>2, <1>3, <1>4, <1>5, <1>6, <1>7 DEF TypeOK

\* The parts of TypeOK that a step disturbs which emits no token.
LEMMA QuietTyped ==
  ASSUME TypeOK, text' = text, tokens' = tokens,
         \/ Get
         \/ UngetAndGet
         \/ UNCHANGED stream,
         pc' \in {"open", "loop", "operator", "comment", "word", "number", "done", "error", "unopened"},
         lexeme' \in Seq(Chars),
         line' \in Nat \ {0}, col' \in Nat \ {0}
  PROVE  TypeOK'
<1>1. /\ pos' \in 1 .. (Len(text') + 1)
      /\ eof' \in BOOLEAN /\ fail' \in BOOLEAN
      /\ ch' \in Chars \cup {End}
  <2>1. CASE Get
    BY <2>1, GetTyped
  <2>2. CASE UngetAndGet
    BY <2>2 DEF TypeOK, UngetAndGet
  <2>3. CASE UNCHANGED stream
    BY <2>3 DEF TypeOK, stream
  <2> QED
    BY <2>1, <2>2, <2>3
<1> QED
  BY <1>1 DEF TypeOK

\* The same for a step that emits one.
LEMMA EmitTyped ==
  ASSUME TypeOK, text' = text,
         NEW type \in TokenSymbols, NEW value \in Seq(Chars), NEW c \in Nat \ {0},
         tokens' = Append(tokens, Token(type, value, c)),
         \/ Get
         \/ UngetAndGet
         \/ UNCHANGED stream,
         pc' = "loop", lexeme' \in Seq(Chars), line' = line, col' \in Nat \ {0}
  PROVE  TypeOK'
<1>1. /\ pos' \in 1 .. (Len(text') + 1)
      /\ eof' \in BOOLEAN /\ fail' \in BOOLEAN
      /\ ch' \in Chars \cup {End}
  <2>1. CASE Get
    BY <2>1, GetTyped
  <2>2. CASE UngetAndGet
    BY <2>2 DEF TypeOK, UngetAndGet
  <2>3. CASE UNCHANGED stream
    BY <2>3 DEF TypeOK, stream
  <2> QED
    BY <2>1, <2>2, <2>3
<1>2. tokens' \in Seq([type : TokenSymbols, col : Nat \ {0}, line : Nat \ {0}, value : Seq(Chars)])
  BY AppendTyped
<1> QED
  BY <1>1, <1>2 DEF TypeOK

\* Every step keeps the types.
LEMMA NextTyped == TypeOK /\ [Next]_vars => TypeOK'
<1> SUFFICES ASSUME TypeOK, [Next]_vars
             PROVE  TypeOK'
  OBVIOUS
<1> USE DEF TypeOK
<1>1. CASE Open \/ OpenFails \/ Unknown \/ EndOfFile \/ LoneBang \/ BadNumber
  BY <1>1, QuietTyped DEF Open, OpenFails, Unknown, EndOfFile, LoneBang, BadNumber
<1>2. CASE Space
  BY <1>2, QuietTyped DEF Space, AtLoop
<1>3. CASE BeginComment \/ CommentChar \/ EndComment
  <2>1. << >> \in Seq(Chars) /\ lexeme \in Seq(Chars)
    OBVIOUS
  <2>2. CASE BeginComment
    BY <2>1, <2>2, QuietTyped DEF BeginComment
  <2>3. CASE CommentChar
    BY <2>1, <2>3, QuietTyped DEF CommentChar
  <2>4. CASE EndComment
    BY <2>1, <2>4, QuietTyped DEF EndComment
  <2> QED
    BY <1>3, <2>2, <2>3, <2>4
<1>4. CASE BeginOperator
  <2>1. ch \in Chars
    BY <1>4 DEF BeginOperator, Chars
  <2> QED
    BY <1>4, <2>1, QuietTyped DEF BeginOperator, AtLoop
<1>5. CASE BeginWord
  <2>1. ch \in Chars
    BY <1>5 DEF BeginWord, Chars
  <2> QED
    BY <1>5, <2>1, QuietTyped DEF BeginWord, AtLoop
<1>6. CASE WordChar
  <2>1. ch \in Chars
    BY <1>6 DEF WordChar, WordGoesOn, NumberGoesOn, Chars
  <2> QED
    BY <1>6, <2>1, QuietTyped DEF WordChar
<1>7. CASE SingleToken
  <2>1. ch \in Chars /\ Single[ch] \in TokenSymbols
    BY <1>7 DEF SingleToken, Chars, TokenSymbols
  <2>2. << ch >> \in Seq(Chars) /\ lexeme \in Seq(Chars)
    BY <2>1
  <2>3. col \in Nat \ {0} /\ col + 1 \in Nat \ {0}
    OBVIOUS
  <2>4. tokens' = Append(tokens, Token(Single[ch], << ch >>, col))
    BY <1>7 DEF SingleToken
  <2> QED
    BY <1>7, <2>1, <2>2, <2>3, <2>4, EmitTyped DEF SingleToken, AtLoop
<1>8. CASE LongOperator
  <2>1. ch \in Chars /\ WithEquals[lexeme[1]] \in TokenSymbols
    BY <1>8 DEF LongOperator, InOperator, TokenSymbols, End
  <2>2. Append(lexeme, ch) \in Seq(Chars) /\ << >> \in Seq(Chars)
    BY <2>1
  <2>3. col \in Nat \ {0} /\ col + 1 \in Nat \ {0}
    OBVIOUS
  <2>4. tokens' = Append(tokens, Token(WithEquals[lexeme[1]], Append(lexeme, ch), col))
    BY <1>8 DEF LongOperator
  <2> QED
    BY <1>8, <2>1, <2>2, <2>3, <2>4, EmitTyped DEF LongOperator
<1>9. CASE ShortOperator
  <2>1. Short[lexeme[1]] \in TokenSymbols
    BY <1>9 DEF ShortOperator, InOperator, TokenSymbols
  <2> QED
    BY <1>9, <2>1, EmitTyped DEF ShortOperator
<1>10. CASE EndWord
  <2> DEFINE type == IF lexeme \in DOMAIN Keywords THEN Keywords[lexeme] ELSE "ID"
  <2>1. type \in TokenSymbols
    BY DEF TokenSymbols
  <2>2. col + Len(lexeme) \in Nat \ {0}
    OBVIOUS
  <2>3. tokens' = Append(tokens, Token(type, lexeme, col))
    BY <1>10 DEF EndWord
  <2> HIDE DEF type
  <2> QED
    BY <1>10, <2>1, <2>2, <2>3, EmitTyped DEF EndWord
<1>11. CASE EndNumber
  <2>1. "NUM" \in TokenSymbols
    BY DEF TokenSymbols
  <2>2. col + Len(lexeme) \in Nat \ {0}
    OBVIOUS
  <2> QED
    BY <1>11, <2>1, <2>2, EmitTyped DEF EndNumber
<1>12. CASE Terminated \/ UNCHANGED vars
  BY <1>12 DEF Terminated, vars, stream
<1> QED
  BY <1>1, <1>2, <1>3, <1>4, <1>5, <1>6, <1>7, <1>8, <1>9, <1>10, <1>11, <1>12 DEF Next, Step

\* The variables of the tokeniser keep their types: the stream is never read
\* outside the file, and every token has a symbol, a line and a column.
THEOREM TokeniserTypes == Spec => []TypeOK
<1> QED
  BY InitTyped, NextTyped, PTL DEF Spec

-----------------------------------------------------------------------------

\* The flags: a stream at its end has failed, and fails at its end only.
StreamInv ==
  /\ eof => fail
  /\ fail => pos = Len(text) + 1 /\ ch = End
  /\ pc = "done" => fail

\* Reading, or putting back and reading again, keeps the flags right.
LEMMA StreamKept ==
  ASSUME TypeOK, StreamInv, text' = text, pc' = "done" => pc = "done",
         Get \/ UngetAndGet \/ UNCHANGED stream
  PROVE  StreamInv'
<1>1. Len(text) \in Nat
  BY TextAssumption DEF TypeOK
<1>2. CASE Get
  BY <1>1, <1>2 DEF TypeOK, StreamInv, Get
<1>3. CASE UngetAndGet
  BY <1>3 DEF StreamInv, UngetAndGet
<1>4. CASE UNCHANGED stream
  BY <1>4 DEF StreamInv, stream
<1> QED
  BY <1>2, <1>3, <1>4

\* Every step keeps them right; only the end of the file ends the loop.
LEMMA NextStream == TypeOK /\ StreamInv /\ [Next]_vars => StreamInv'
<1> SUFFICES ASSUME TypeOK, StreamInv, [Next]_vars
             PROVE  StreamInv'
  OBVIOUS
<1>1. CASE EndOfFile
  BY <1>1 DEF EndOfFile, StreamInv, stream
<1>2. CASE Open \/ OpenFails \/ Unknown \/ LoneBang \/ BadNumber
  BY <1>2, StreamKept DEF Open, OpenFails, Unknown, LoneBang, BadNumber
<1>3. CASE Space \/ SingleToken \/ BeginOperator \/ LongOperator \/ ShortOperator
  BY <1>3, StreamKept DEF Space, SingleToken, BeginOperator, LongOperator, ShortOperator
<1>4. CASE BeginComment \/ CommentChar \/ EndComment
  BY <1>4, StreamKept DEF BeginComment, CommentChar, EndComment
<1>5. CASE BeginWord \/ WordChar \/ EndWord \/ EndNumber
  BY <1>5, StreamKept DEF BeginWord, WordChar, EndWord, EndNumber
<1>6. CASE Terminated \/ UNCHANGED vars
  BY <1>6 DEF Terminated, vars, stream, StreamInv
<1> QED
  BY <1>1, <1>2, <1>3, <1>4, <1>5, <1>6 DEF Next, Step

\* No part of a file is dropped: the tokeniser is done, and the stream fails,
\* after the last character only.
THEOREM ReadToTheEnd == Spec => []ReadsWholeFile
<1>1. Init => StreamInv
  BY DEF Init, StreamInv
<1>2. StreamInv => ReadsWholeFile
  BY DEF StreamInv, ReadsWholeFile
<1> QED
  BY TokeniserTypes, NextStream, <1>1, <1>2, PTL DEF Spec

-----------------------------------------------------------------------------
(* The reference: pieces are the longest lexemes.                          *)

\* A set of numbers up to a bound has a greatest element.
LEMMA GreatestElement ==
  ASSUME NEW n \in Nat, NEW T \in SUBSET (0 .. n), T # {}
  PROVE  \E m \in T : \A k \in T : k <= m
<1> DEFINE R == { n - k : k \in T }
<1>1. R \in SUBSET Nat /\ R # {}
  <2>1. \A k \in T : n - k \in Nat
    OBVIOUS
  <2> QED
    BY <2>1
<1>2. \A k \in T : n - k \in R /\ k \in Nat
  <2>1. \A k \in T : k \in Nat
    OBVIOUS
  <2>2. \A k \in T : n - k \in R
    OBVIOUS
  <2> QED
    BY <2>1, <2>2
<1>3. \A r \in R : \E k \in T : r = n - k
  OBVIOUS
<1> HIDE DEF R
<1>4. PICK r \in R : \A q \in R : r <= q
  BY <1>1, LeastElement
<1>5. PICK m \in T : r = n - m
  BY <1>3
<1> QED
  BY <1>2, <1>4, <1>5

\* The piece that begins at a character ends where the longest lexeme does.
LEMMA LongestPiece ==
  ASSUME NEW w, Len(w) \in Nat, NEW a \in Nat,
         NEW b \in a .. Len(w), IsLexeme(w, a, b),
         \A c \in (b + 1) .. Len(w) : ~ IsLexeme(w, a, c)
  PROVE  Piece(w, a) = << a, b >>
<1> DEFINE S == LexemeEnds(w, a) \cup {0}
<1>1. b \in S /\ \A c \in S : b >= c
  BY DEF LexemeEnds
<1>2. \A c \in S : (\A d \in S : c >= d) => c = b
  BY DEF LexemeEnds
<1> HIDE DEF S
<1>3. Max(S) = b
  BY <1>1, <1>2 DEF Max
<1> QED
  BY <1>3 DEF Piece, S

\* Where no lexeme begins there is no piece.
LEMMA NoPiece ==
  ASSUME NEW w, NEW a, \A c \in a .. Len(w) : ~ IsLexeme(w, a, c)
  PROVE  Piece(w, a) = << a, 0 >>
<1>1. LexemeEnds(w, a) = {}
  BY DEF LexemeEnds
<1>2. Max({0}) = 0
  BY DEF Max
<1> QED
  BY <1>1, <1>2 DEF Piece

\* A piece is a pair of numbers, the first where it begins.
LEMMA PieceTyped ==
  ASSUME NEW w, Len(w) \in Nat, NEW a \in Nat
  PROVE  Piece(w, a) \in Nat \X Nat /\ Piece(w, a)[1] = a
<1> DEFINE S == LexemeEnds(w, a) \cup {0}
<1>1. S \in SUBSET (0 .. Len(w)) /\ S # {}
  BY DEF LexemeEnds
<1> HIDE DEF S
<1>2. PICK m \in S : \A k \in S : k <= m
  BY <1>1, GreatestElement
<1>3. \A k \in S : k \in Nat
  BY <1>1
<1>4. Max(S) \in S
  BY <1>2, <1>3 DEF Max
<1> QED
  BY <1>3, <1>4 DEF Piece, S

-----------------------------------------------------------------------------
(* The kinds of pieces.  Every character has one meaning only.             *)

\* Letters and characters without meaning are nothing else.
LEMMA LetterKinds ==
  ASSUME NEW c \in Letters \cup Others \cup {End}
  PROVE  /\ c \notin Digits \cup Spaces \cup {Newline, "/"}
         /\ c \notin DOMAIN Single \cup DOMAIN Short \cup DOMAIN WithEquals
         /\ c \notin Letters <=> c \in Others \cup {End}
<1>1. End \notin Digits \cup Spaces \cup {Newline, "/"}
  BY DEF End, Digits, Spaces, Newline
<1>2. End \notin DOMAIN Single \cup DOMAIN Short \cup DOMAIN WithEquals
  BY DEF End, Single, Short, WithEquals
<1>3. "/" \in Operators
  BY DEF Operators, Short
<1>4. /\ Letters \cap (Digits \cup Spaces \cup Operators \cup DOMAIN Single \cup {Newline, End}) = {}
      /\ Others \cap (Letters \cup Digits \cup Spaces \cup Operators \cup DOMAIN Single \cup {Newline}) = {}
  BY TextAssumption
<1>5. Operators = DOMAIN Short \cup DOMAIN WithEquals
  BY DEF Operators
<1> QED
  BY <1>1, <1>2, <1>3, <1>4, <1>5, Zenon

\* A blank is a piece of its own and no token.
LEMMA BlankPiece ==
  ASSUME NEW w, Len(w) \in Nat, NEW a \in 1 .. Len(w), w[a] \in Spaces \cup {Newline}
  PROVE  Piece(w, a) = << a, a >> /\ ~ IsBad(w, << a, a >>) /\ ~ IsToken(w, << a, a >>)
<1>0. w[a] \notin Letters \cup Digits \cup DOMAIN Single \cup DOMAIN Short \cup DOMAIN WithEquals \cup {"/"}
  BY TextAssumption DEF Spaces, Newline, Digits, Operators, Single, Short, WithEquals
<1>1. IsBlank(w, a, a) /\ a \in a .. a
  BY DEF IsBlank
<1>2. ~ IsDigits(w, a, a)
  BY <1>0, <1>1 DEF IsDigits, Within
<1>3. \A c \in (a + 1) .. Len(w) : ~ IsLexeme(w, a, c)
  BY <1>0 DEF IsLexeme, IsBlank, IsComment, IsWord, IsDigits, IsSymbol, Within
<1>4. Piece(w, a) = << a, a >>
  BY <1>1, <1>3, LongestPiece DEF IsLexeme
<1> QED
  BY <1>1, <1>2, <1>4 DEF IsBad, IsToken

\* A comment goes up to the end of its line.
LEMMA CommentPiece ==
  ASSUME NEW w, Len(w) \in Nat, NEW a \in 1 .. Len(w), NEW b \in a .. Len(w), IsComment(w, a, b),
         b = Len(w) \/ w[b + 1] = Newline
  PROVE  Piece(w, a) = << a, b >> /\ ~ IsBad(w, << a, b >>) /\ ~ IsToken(w, << a, b >>)
<1>0. w[a] \notin Letters \cup Digits \cup DOMAIN Single \cup DOMAIN WithEquals \cup Spaces \cup {Newline}
  BY TextAssumption DEF IsComment, Spaces, Newline, Digits, Operators, Single, Short, WithEquals
<1>1. a \in a .. b /\ b > a
  BY DEF IsComment
<1>2. ~ IsDigits(w, a, b)
  BY <1>0, <1>1 DEF IsDigits, Within
<1>3. ASSUME NEW c \in (b + 1) .. Len(w) PROVE ~ IsLexeme(w, a, c)
  <2>1. c > b /\ c # a /\ b + 1 \in a .. c /\ w[b + 1] = Newline /\ a \in a .. c
    BY <1>1
  <2>2. ~ IsComment(w, a, c)
    BY <2>1 DEF IsComment
  <2>3. ~ IsWord(w, a, c) /\ ~ IsDigits(w, a, c) /\ ~ IsBlank(w, a, c) /\ ~ IsSymbol(w, a, c)
    BY <1>0, <2>1 DEF IsBlank, IsWord, IsDigits, IsSymbol, Within
  <2> QED
    BY <2>2, <2>3 DEF IsLexeme
<1>4. Piece(w, a) = << a, b >>
  BY <1>3, LongestPiece DEF IsLexeme
<1> QED
  BY <1>1, <1>2, <1>4 DEF IsBad, IsToken

\* A word goes up to the first character that is no letter or digit.
LEMMA WordPiece ==
  ASSUME NEW w, Len(w) \in Nat, NEW a \in 1 .. Len(w), NEW b \in a .. Len(w), IsWord(w, a, b),
         b = Len(w) \/ w[b + 1] \notin Letters \cup Digits
  PROVE  /\ Piece(w, a) = << a, b >> /\ ~ IsBad(w, << a, b >>) /\ IsToken(w, << a, b >>)
         /\ ~ IsDigits(w, a, b) /\ ~ IsSymbol(w, a, b)
<1>0. w[a] \notin Digits \cup DOMAIN Single \cup DOMAIN Short \cup DOMAIN WithEquals \cup Spaces \cup {Newline, "/"}
  BY LetterKinds DEF IsWord
<1>1. a \in a .. b
  OBVIOUS
<1>2. ~ IsDigits(w, a, b) /\ ~ IsBlank(w, a, b) /\ ~ IsComment(w, a, b) /\ ~ IsSymbol(w, a, b)
  BY <1>0, <1>1 DEF IsDigits, IsBlank, IsComment, IsSymbol, Within
<1>3. ASSUME NEW c \in (b + 1) .. Len(w) PROVE ~ IsLexeme(w, a, c)
  <2>1. c > b /\ c # a /\ b + 1 \in a .. c /\ w[b + 1] \notin Letters \cup Digits /\ a \in a .. c
    OBVIOUS
  <2>2. ~ IsWord(w, a, c)
    BY <2>1 DEF IsWord, Within
  <2>3. ~ IsComment(w, a, c) /\ ~ IsDigits(w, a, c) /\ ~ IsBlank(w, a, c) /\ ~ IsSymbol(w, a, c)
    BY <1>0, <2>1 DEF IsBlank, IsComment, IsDigits, IsSymbol, Within
  <2> QED
    BY <2>2, <2>3 DEF IsLexeme
<1>4. Piece(w, a) = << a, b >>
  BY <1>3, LongestPiece DEF IsLexeme
<1> QED
  BY <1>1, <1>2, <1>4 DEF IsBad, IsToken

\* So does a number, up to the first that is no digit; it may be a bad one.
LEMMA DigitsPiece ==
  ASSUME NEW w, Len(w) \in Nat, NEW a \in 1 .. Len(w), NEW b \in a .. Len(w), IsDigits(w, a, b),
         b = Len(w) \/ w[b + 1] \notin Digits
  PROVE  /\ Piece(w, a) = << a, b >> /\ ~ IsWord(w, a, b) /\ ~ IsSymbol(w, a, b)
         /\ IsBad(w, << a, b >>) <=> ~ IsNumber(SubSeq(w, a, b))
         /\ IsToken(w, << a, b >>) <=> IsNumber(SubSeq(w, a, b))
<1>1. a \in a .. b /\ w[a] \in Digits
  BY DEF IsDigits, Within
<1>0. w[a] \notin Letters \cup DOMAIN Single \cup DOMAIN Short \cup DOMAIN WithEquals \cup Spaces \cup {Newline, "/"}
  BY <1>1, TextAssumption DEF Spaces, Newline, Digits, Operators, Single, Short, WithEquals
<1>2. ~ IsWord(w, a, b) /\ ~ IsBlank(w, a, b) /\ ~ IsComment(w, a, b) /\ ~ IsSymbol(w, a, b)
  BY <1>0, <1>1 DEF IsWord, IsBlank, IsComment, IsSymbol, Within
<1>3. ASSUME NEW c \in (b + 1) .. Len(w) PROVE ~ IsLexeme(w, a, c)
  <2>1. c > b /\ c # a /\ b + 1 \in a .. c /\ w[b + 1] \notin Digits /\ a \in a .. c
    OBVIOUS
  <2>2. ~ IsDigits(w, a, c)
    BY <2>1 DEF IsDigits, Within
  <2>3. ~ IsComment(w, a, c) /\ ~ IsWord(w, a, c) /\ ~ IsBlank(w, a, c) /\ ~ IsSymbol(w, a, c)
    BY <1>0, <2>1 DEF IsBlank, IsComment, IsWord, IsSymbol, Within
  <2> QED
    BY <2>2, <2>3 DEF IsLexeme
<1>4. Piece(w, a) = << a, b >>
  BY <1>3, LongestPiece DEF IsLexeme
<1> QED
  BY <1>1, <1>2, <1>4 DEF IsBad, IsToken, Spelling

\* A character that is always a symbol of its own.
LEMMA SinglePiece ==
  ASSUME NEW w, Len(w) \in Nat, NEW a \in 1 .. Len(w), w[a] \in DOMAIN Single
  PROVE  /\ Piece(w, a) = << a, a >> /\ ~ IsBad(w, << a, a >>) /\ IsToken(w, << a, a >>)
         /\ ~ IsWord(w, a, a) /\ ~ IsDigits(w, a, a) /\ ~ IsComment(w, a, a) /\ IsSymbol(w, a, a)
         /\ w[a] \notin DOMAIN Short
<1>0. w[a] \notin Letters \cup Digits \cup DOMAIN Short \cup DOMAIN WithEquals \cup Spaces \cup {Newline, "/"}
  BY TextAssumption DEF Spaces, Newline, Digits, Operators, Single, Short, WithEquals
<1>1. a \in a .. a /\ IsSymbol(w, a, a)
  BY DEF IsSymbol
<1>2. ~ IsDigits(w, a, a) /\ ~ IsWord(w, a, a) /\ ~ IsBlank(w, a, a) /\ ~ IsComment(w, a, a)
  BY <1>0, <1>1 DEF IsDigits, IsWord, IsBlank, IsComment, Within
<1>3. \A c \in (a + 1) .. Len(w) : ~ IsLexeme(w, a, c)
  BY <1>0 DEF IsLexeme, IsBlank, IsComment, IsWord, IsDigits, IsSymbol, Within
<1>4. Piece(w, a) = << a, a >>
  BY <1>1, <1>3, LongestPiece DEF IsLexeme
<1> QED
  BY <1>0, <1>1, <1>2, <1>4 DEF IsBad, IsToken

\* An operator that nothing makes longer.
LEMMA ShortPiece ==
  ASSUME NEW w, Len(w) \in Nat, NEW a \in 1 .. Len(w), w[a] \in DOMAIN Short,
         a = Len(w) \/ w[a + 1] # IF w[a] = "/" THEN "/" ELSE "="
  PROVE  /\ Piece(w, a) = << a, a >> /\ ~ IsBad(w, << a, a >>) /\ IsToken(w, << a, a >>)
         /\ ~ IsWord(w, a, a) /\ ~ IsDigits(w, a, a) /\ ~ IsComment(w, a, a) /\ IsSymbol(w, a, a)
         /\ w[a] \notin DOMAIN Single
<1>0. /\ w[a] \notin Letters \cup Digits \cup DOMAIN Single \cup Spaces \cup {Newline}
      /\ "/" \notin DOMAIN WithEquals
  BY TextAssumption DEF Spaces, Newline, Digits, Operators, Single, Short, WithEquals
<1>1. a \in a .. a /\ IsSymbol(w, a, a)
  BY DEF IsSymbol
<1>2. ~ IsDigits(w, a, a) /\ ~ IsWord(w, a, a) /\ ~ IsBlank(w, a, a) /\ ~ IsComment(w, a, a)
  BY <1>0, <1>1 DEF IsDigits, IsWord, IsBlank, IsComment, Within
<1>3. ASSUME NEW c \in (a + 1) .. Len(w) PROVE ~ IsLexeme(w, a, c)
  <2>1. c # a /\ a \in a .. c /\ a # Len(w)
    OBVIOUS
  <2>2. ~ IsComment(w, a, c)
    BY <2>1 DEF IsComment
  <2>3. ~ IsSymbol(w, a, c)
    BY <1>0, <2>1 DEF IsSymbol
  <2>4. ~ IsDigits(w, a, c) /\ ~ IsWord(w, a, c) /\ ~ IsBlank(w, a, c)
    BY <1>0, <2>1 DEF IsDigits, IsWord, IsBlank, Within
  <2> QED
    BY <2>2, <2>3, <2>4 DEF IsLexeme
<1>4. Piece(w, a) = << a, a >>
  BY <1>1, <1>3, LongestPiece DEF IsLexeme
<1> QED
  BY <1>0, <1>1, <1>2, <1>4 DEF IsBad, IsToken

\* One of two characters.
LEMMA LongPiece ==
  ASSUME NEW w, Len(w) \in Nat, NEW a \in 1 .. Len(w), w[a] \in DOMAIN WithEquals,
         a + 1 \in 1 .. Len(w), w[a + 1] = "="
  PROVE  /\ Piece(w, a) = << a, a + 1 >> /\ ~ IsBad(w, << a, a + 1 >>) /\ IsToken(w, << a, a + 1 >>)
         /\ ~ IsWord(w, a, a + 1) /\ ~ IsDigits(w, a, a + 1) /\ ~ IsComment(w, a, a + 1)
         /\ IsSymbol(w, a, a + 1)
<1>0. w[a] \notin Letters \cup Digits \cup Spaces \cup {Newline, "/"}
  BY TextAssumption DEF Spaces, Newline, Digits, Operators, WithEquals
<1>1. /\ a \in a .. (a + 1) /\ a + 1 \in a .. Len(w) /\ IsSymbol(w, a, a + 1)
      /\ a + 1 # 0 /\ a + 1 # a
  BY DEF IsSymbol
<1>2. /\ ~ IsDigits(w, a, a + 1) /\ ~ IsWord(w, a, a + 1) /\ ~ IsBlank(w, a, a + 1)
      /\ ~ IsComment(w, a, a + 1)
  BY <1>0, <1>1 DEF IsDigits, IsWord, IsBlank, IsComment, Within
<1>3. \A c \in (a + 1 + 1) .. Len(w) : ~ IsLexeme(w, a, c)
  BY <1>0 DEF IsLexeme, IsBlank, IsComment, IsWord, IsDigits, IsSymbol, Within
<1>4. Piece(w, a) = << a, a + 1 >>
  BY <1>1, <1>3, LongestPiece DEF IsLexeme
<1> QED
  BY <1>0, <1>1, <1>2, <1>4 DEF IsBad, IsToken

\* No lexeme begins with a ! without =, nor with a character without meaning.
LEMMA BadPiece ==
  ASSUME NEW w, Len(w) \in Nat, NEW a \in 1 .. Len(w),
         \/ w[a] = "!" /\ (a = Len(w) \/ w[a + 1] # "=")
         \/ w[a] \in Others \cup {End}
  PROVE  Piece(w, a) = << a, 0 >> /\ IsBad(w, << a, 0 >>)
<1>0. /\ w[a] \notin Letters \cup Digits \cup DOMAIN Single \cup DOMAIN Short \cup Spaces \cup {Newline, "/"}
      /\ w[a] \in DOMAIN WithEquals => a = Len(w) \/ w[a + 1] # "="
  <2>1. CASE w[a] = "!" /\ (a = Len(w) \/ w[a + 1] # "=")
    <3>1. "!" \in Operators
      BY DEF Operators, WithEquals
    <3>2. w[a] \notin Letters
      BY <2>1, <3>1, TextAssumption
    <3>3. w[a] \notin Digits \cup DOMAIN Single \cup DOMAIN Short \cup Spaces \cup {Newline, "/"}
      BY <2>1 DEF Spaces, Newline, Digits, Single, Short
    <3> QED
      BY <2>1, <3>2, <3>3
  <2>2. CASE w[a] \in Others \cup {End}
    BY <2>2, LetterKinds
  <2> QED
    BY <2>1, <2>2
<1>1. ASSUME NEW c \in a .. Len(w) PROVE ~ IsLexeme(w, a, c)
  <2>1. a \in a .. c
    OBVIOUS
  <2>2. ~ IsSymbol(w, a, c)
    BY <1>0 DEF IsSymbol
  <2>3. ~ IsDigits(w, a, c) /\ ~ IsWord(w, a, c) /\ ~ IsBlank(w, a, c) /\ ~ IsComment(w, a, c)
    BY <1>0, <2>1 DEF IsDigits, IsWord, IsBlank, IsComment, Within
  <2> QED
    BY <2>2, <2>3 DEF IsLexeme
<1>2. Piece(w, a) = << a, 0 >>
  BY <1>1, NoPiece
<1> QED
  BY <1>2 DEF IsBad

-----------------------------------------------------------------------------
(* The text is cut from left to right.                                     *)

PieceSeq == Seq(Nat \X Nat)

\* The next piece begins at a character, or one after the last.
LEMMA NextBeginTyped ==
  ASSUME NEW ps \in PieceSeq
  PROVE  NextBegin(ps) \in Nat
<1>1. CASE ps = << >>
  BY <1>1 DEF NextBegin
<1>2. CASE ps # << >>
  <2>1. Len(ps) \in 1 .. Len(ps)
    BY <1>2 DEF PieceSeq
  <2>2. ps[Len(ps)] \in Nat \X Nat
    BY <2>1 DEF PieceSeq
  <2> QED
    BY <1>2, <2>2 DEF NextBegin, Last
<1> QED
  BY <1>1, <1>2

\* One cut gives pieces again.
LEMMA CutTyped ==
  ASSUME NEW w, Len(w) \in Nat, NEW ps \in PieceSeq
  PROVE  Cut(w, ps) \in PieceSeq
<1>1. Piece(w, NextBegin(ps)) \in Nat \X Nat
  BY NextBeginTyped, PieceTyped
<1> QED
  BY <1>1 DEF Cut, PieceSeq

\* The pieces after each cut.
LEMMA CutsSteps ==
  ASSUME NEW w, Len(w) \in Nat
  PROVE  /\ Cuts(w)[0] = << >>
         /\ \A n \in Nat : Cuts(w)[n + 1] = Cut(w, Cuts(w)[n])
         /\ \A n \in Nat : Cuts(w)[n] \in PieceSeq
<1> DEFINE V == PieceSeq
           step == [p \in Nat \X V |-> Cut(w, p[2])]
           F(f) == [n \in Nat |-> IF n = 0 THEN << >> ELSE Cut(w, f[n - 1])]
           g == Cuts(w)
<1>1. << >> \in V
  BY DEF PieceSeq
<1>2. step = [p \in Nat \X V |-> Cut(w, p[2])]
  OBVIOUS
<1>3. \A f : F(f) = [n \in Nat |-> IF n = 0 THEN << >> ELSE Cut(w, f[n - 1])]
  OBVIOUS
<1>4. g = CHOOSE f : f = F(f)
  BY DEF Cuts
<1>5. \A ps \in V : Cut(w, ps) \in V
  BY CutTyped
<1> HIDE DEF V, step, F, g
<1>6. step \in [Nat \X V -> V]
  BY <1>2, <1>5
<1>7. PICK f : Recursive(f, V, << >>, step)
  BY <1>1, <1>6, RecursionExists
<1>8. f \in [Nat -> V] /\ f[0] = << >> /\ \A n \in Nat : f[n + 1] = step[<< n, f[n] >>]
  BY <1>7 DEF Recursive
<1>9. \A n \in Nat : n # 0 => f[n] = Cut(w, f[n - 1])
  <2> SUFFICES ASSUME NEW n \in Nat, n # 0 PROVE f[n] = Cut(w, f[n - 1])
    OBVIOUS
  <2>1. PICK m \in Nat : m = n - 1 /\ n = m + 1
    OBVIOUS
  <2>2. f[n] = step[<< m, f[m] >>]
    BY <1>8, <2>1
  <2>3. << m, f[m] >> \in Nat \X V
    BY <1>8
  <2> QED
    BY <1>2, <2>1, <2>2, <2>3
<1>10. f = F(f)
  BY <1>3, <1>8, <1>9
<1>11. g = F(g)
  BY <1>4, <1>10
<1>12. g[0] = << >> /\ \A n \in Nat : g[n + 1] = Cut(w, g[n])
  BY <1>3, <1>11
<1> DEFINE S == { n \in Nat : g[n] \in V }
<1>13. 0 \in S
  BY <1>1, <1>12
<1>14. ASSUME NEW n \in Nat, n \in S PROVE n + 1 \in S
  <2>1. g[n + 1] = Cut(w, g[n]) /\ g[n] \in V
    BY <1>12, <1>14
  <2> QED
    BY <1>5, <2>1
<1> HIDE DEF S
<1>15. \A n \in Nat : n \in S
  BY <1>13, <1>14, Induction
<1> QED
  BY <1>12, <1>15 DEF S, V, g

\* Once a cut changes nothing, no later one does.
LEMMA CutsStay ==
  ASSUME NEW w, Len(w) \in Nat, NEW n \in Nat, Cut(w, Cuts(w)[n]) = Cuts(w)[n]
  PROVE  \A m \in Nat : m >= n => Cuts(w)[m] = Cuts(w)[n]
<1> DEFINE g == Cuts(w)
           S == { m \in Nat : m >= n => g[m] = g[n] }
<1>1. \A m \in Nat : g[m + 1] = Cut(w, g[m])
  BY CutsSteps
<1>2. Cut(w, g[n]) = g[n]
  OBVIOUS
<1> HIDE DEF g
<1>3. 0 \in S
  OBVIOUS
<1>4. ASSUME NEW m \in Nat, m \in S PROVE m + 1 \in S
  <2>1. CASE m >= n
    BY <1>1, <1>2, <1>4, <2>1
  <2>2. CASE ~ (m >= n)
    <3>1. m + 1 >= n => m + 1 = n
      BY <2>2
    <3> QED
      BY <3>1
  <2> QED
    BY <2>1, <2>2
<1> HIDE DEF S
<1>5. \A m \in Nat : m \in S
  BY <1>3, <1>4, Induction
<1> QED
  BY <1>5 DEF S, g

-----------------------------------------------------------------------------
(* The tokens among the pieces.                                            *)

\* A function has the tokens among the first pieces, for every number of them.
Collects(w, ps, f) ==
  /\ f[0] = << >>
  /\ \A n \in Nat : f[n + 1] =
       IF IsToken(w, ps[n + 1]) THEN Append(f[n], TokenOf(w, ps[n + 1])) ELSE f[n]

TokensIn(w, ps) == { TokenOf(w, ps[m]) : m \in Nat }

\* The tokens among the first pieces, one piece at a time.
LEMMA FoundSteps ==
  ASSUME NEW w, NEW ps
  PROVE  /\ Collects(w, ps, Found(w, ps))
         /\ \A n \in Nat : Found(w, ps)[n] \in Seq(TokensIn(w, ps))
<1> DEFINE T == { TokenOf(w, ps[m]) : m \in Nat }
           V == Seq(T)
           More(n, found) == IF IsToken(w, ps[n]) THEN Append(found, TokenOf(w, ps[n])) ELSE found
           step == [p \in Nat \X V |-> More(p[1] + 1, p[2])]
           F(f) == [n \in Nat |-> IF n = 0 THEN << >> ELSE More(n, f[n - 1])]
           g == Found(w, ps)
<1>1. << >> \in V
  OBVIOUS
<1>2. step = [p \in Nat \X V |-> More(p[1] + 1, p[2])]
  OBVIOUS
<1>3. \A f : F(f) = [n \in Nat |-> IF n = 0 THEN << >> ELSE More(n, f[n - 1])]
  OBVIOUS
<1>4. g = CHOOSE f : f = F(f)
  BY DEF Found
<1>5. ASSUME NEW n \in Nat, NEW found \in V PROVE More(n, found) \in V
  <2>1. TokenOf(w, ps[n]) \in T
    OBVIOUS
  <2> HIDE DEF T
  <2> QED
    BY <2>1
<1>6. \A n, found : More(n, found) = IF IsToken(w, ps[n]) THEN Append(found, TokenOf(w, ps[n])) ELSE found
  OBVIOUS
<1>7. V = Seq(TokensIn(w, ps))
  BY DEF TokensIn
<1> HIDE DEF V, T, step, F, g, More
<1>8. step \in [Nat \X V -> V]
  BY <1>2, <1>5
<1>9. PICK f : Recursive(f, V, << >>, step)
  BY <1>1, <1>8, RecursionExists
<1>10. f \in [Nat -> V] /\ f[0] = << >> /\ \A n \in Nat : f[n + 1] = step[<< n, f[n] >>]
  BY <1>9 DEF Recursive
<1>11. \A n \in Nat : n # 0 => f[n] = More(n, f[n - 1])
  <2> SUFFICES ASSUME NEW n \in Nat, n # 0 PROVE f[n] = More(n, f[n - 1])
    OBVIOUS
  <2>1. PICK m \in Nat : m = n - 1 /\ n = m + 1
    OBVIOUS
  <2>2. f[n] = step[<< m, f[m] >>]
    BY <1>10, <2>1
  <2>3. << m, f[m] >> \in Nat \X V
    BY <1>10
  <2> QED
    BY <1>2, <2>1, <2>2, <2>3
<1>12. f = F(f)
  BY <1>3, <1>10, <1>11
<1>13. g = F(g)
  BY <1>4, <1>12
<1>14. g[0] = << >> /\ \A n \in Nat : g[n + 1] = More(n + 1, g[n])
  BY <1>3, <1>13
<1> DEFINE S == { n \in Nat : g[n] \in V }
<1>15. 0 \in S
  BY <1>1, <1>14
<1>16. \A n \in Nat : n \in S => n + 1 \in S
  BY <1>5, <1>14
<1> HIDE DEF S
<1>17. \A n \in Nat : n \in S
  BY <1>15, <1>16, Induction
<1>18. \A n \in Nat : g[n] \in V
  BY <1>17 DEF S
<1>19. \A n \in Nat : g[n + 1] = IF IsToken(w, ps[n + 1]) THEN Append(g[n], TokenOf(w, ps[n + 1])) ELSE g[n]
  BY <1>6, <1>14
<1> QED
  BY <1>7, <1>14, <1>18, <1>19 DEF g, Collects

\* A piece more does not change what was found before.
LEMMA FoundSame ==
  ASSUME NEW w, NEW ps \in PieceSeq, NEW p \in Nat \X Nat
  PROVE  \A n \in Nat : n <= Len(ps) => Found(w, Append(ps, p))[n] = Found(w, ps)[n]
<1> DEFINE qs == Append(ps, p)
           f == Found(w, ps)
           g == Found(w, qs)
           S == { n \in Nat : n <= Len(ps) => g[n] = f[n] }
<1>1. \A n \in 1 .. Len(ps) : qs[n] = ps[n]
  BY DEF PieceSeq
<1>2. /\ f[0] = << >>
      /\ \A n \in Nat : f[n + 1] = IF IsToken(w, ps[n + 1]) THEN Append(f[n], TokenOf(w, ps[n + 1])) ELSE f[n]
  <2>1. Collects(w, ps, f)
    BY FoundSteps
  <2> HIDE DEF f
  <2> QED
    BY <2>1 DEF Collects
<1> HIDE DEF qs
<1>3. /\ g[0] = << >>
      /\ \A n \in Nat : g[n + 1] = IF IsToken(w, qs[n + 1]) THEN Append(g[n], TokenOf(w, qs[n + 1])) ELSE g[n]
  <2>1. Collects(w, qs, g)
    BY FoundSteps
  <2> HIDE DEF g
  <2> QED
    BY <2>1 DEF Collects
<1>4. Len(ps) \in Nat
  BY DEF PieceSeq
<1> HIDE DEF f, g
<1>5. 0 \in S
  BY <1>2, <1>3
<1>6. ASSUME NEW n \in Nat, n \in S PROVE n + 1 \in S
  <2> SUFFICES ASSUME n + 1 <= Len(ps) PROVE g[n + 1] = f[n + 1]
    OBVIOUS
  <2>1. qs[n + 1] = ps[n + 1] /\ g[n] = f[n]
    BY <1>1, <1>4, <1>6
  <2> QED
    BY <1>2, <1>3, <2>1
<1> HIDE DEF S
<1>7. \A n \in Nat : n \in S
  BY <1>5, <1>6, Induction
<1> QED
  BY <1>7 DEF S, f, g, qs

\* A piece more is a token more, or none.
LEMMA TokensOfAppend ==
  ASSUME NEW w, NEW ps \in PieceSeq, NEW p \in Nat \X Nat
  PROVE  TokensOf(w, Append(ps, p)) =
           IF IsToken(w, p) THEN Append(TokensOf(w, ps), TokenOf(w, p)) ELSE TokensOf(w, ps)
<1> DEFINE qs == Append(ps, p)
<1>1. Len(qs) = Len(ps) + 1 /\ qs[Len(ps) + 1] = p /\ Len(ps) \in Nat
  BY DEF PieceSeq
<1>2. Found(w, qs)[Len(ps)] = Found(w, ps)[Len(ps)]
  BY <1>1, FoundSame
<1> HIDE DEF qs
<1>3. Found(w, qs)[Len(ps) + 1] =
        IF IsToken(w, qs[Len(ps) + 1]) THEN Append(Found(w, qs)[Len(ps)], TokenOf(w, qs[Len(ps) + 1]))
        ELSE Found(w, qs)[Len(ps)]
  <2>1. Collects(w, qs, Found(w, qs))
    BY FoundSteps
  <2> QED
    BY <1>1, <2>1 DEF Collects
<1> QED
  BY <1>1, <1>2, <1>3 DEF TokensOf, qs

\* What is found is a sequence.
LEMMA TokensOfSeq ==
  ASSUME NEW w, NEW ps \in PieceSeq
  PROVE  TokensOf(w, ps) \in Seq(TokensIn(w, ps)) /\ Len(TokensOf(w, ps)) \in Nat
<1>1. Len(ps) \in Nat
  BY DEF PieceSeq
<1>2. TokensOf(w, ps) \in Seq(TokensIn(w, ps))
  BY <1>1, FoundSteps DEF TokensOf
<1> HIDE DEF TokensOf
<1> QED
  BY <1>2

-----------------------------------------------------------------------------
(* How far the text was read.                                              *)

TokenRecord == [type : TokenSymbols, col : Nat \ {0}, line : Nat \ {0}, value : Seq(Chars)]

\* What was read are the tokens of the pieces; the columns are off as far as
\* ColumnFrom says.
Matched(w, read, ps) ==
  /\ Len(read) = Len(TokensOf(w, ps))
  /\ \A k \in DOMAIN TokensOf(w, ps) :
       /\ SameToken(read[k], TokensOf(w, ps)[k])
       /\ read[k].col = ColumnFrom(read, k, TokensOf(w, ps)[k].col)

\* The tokens of the first n pieces were read, and the next begins at a.
ReadTo(w, read, n, a) ==
  /\ a \in 1 .. (Len(w) + 1)
  /\ n \in 0 .. (a - 1)
  /\ NextBegin(Cuts(w)[n]) = a
  /\ WellFormed(w, Cuts(w)[n])
  /\ Matched(w, read, Cuts(w)[n])

\* Nothing was read yet.
LEMMA ReadNothing ==
  ASSUME NEW w, Len(w) \in Nat
  PROVE  ReadTo(w, << >>, 0, 1)
<1>1. Cuts(w)[0] = << >>
  BY CutsSteps
<1>2. TokensOf(w, << >>) = << >>
  BY FoundSteps DEF TokensOf, Collects
<1> QED
  BY <1>1, <1>2 DEF ReadTo, NextBegin, WellFormed, Matched

\* The next piece is cut off.
LEMMA CutOff ==
  ASSUME NEW w, Len(w) \in Nat, NEW read, NEW n, NEW a, ReadTo(w, read, n, a), a <= Len(w)
  PROVE  /\ n \in Nat /\ n + 1 \in Nat /\ n + 1 <= a /\ Cuts(w)[n] \in PieceSeq
         /\ Piece(w, a) \in Nat \X Nat
         /\ Cuts(w)[n + 1] = Append(Cuts(w)[n], Piece(w, a))
         /\ NextBegin(Cuts(w)[n + 1]) = Piece(w, a)[2] + 1
         /\ WellFormed(w, Cuts(w)[n + 1]) <=> ~ IsBad(w, Piece(w, a))
<1>1. a \in Nat /\ n \in Nat /\ n + 1 \in Nat /\ n + 1 <= a
  BY DEF ReadTo
<1>2. Cuts(w)[n] \in PieceSeq /\ Cuts(w)[n + 1] = Cut(w, Cuts(w)[n])
  BY <1>1, CutsSteps
<1>3. Cuts(w)[n + 1] = Append(Cuts(w)[n], Piece(w, a))
  BY <1>2 DEF ReadTo, Cut
<1>4. Piece(w, a) \in Nat \X Nat
  BY <1>1, PieceTyped
<1> DEFINE ps == Cuts(w)[n]
           p == Piece(w, a)
           qs == Append(ps, p)
<1>5. ps \in Seq(Nat \X Nat) /\ p \in Nat \X Nat /\ WellFormed(w, ps)
  BY <1>2, <1>4 DEF PieceSeq, ReadTo
<1>6. Cuts(w)[n + 1] = qs
  BY <1>3
<1> HIDE DEF ps, p
<1>7. Len(qs) = Len(ps) + 1 /\ qs # << >> /\ qs[Len(qs)] = p /\ DOMAIN qs = 1 .. (Len(ps) + 1)
  BY <1>5
<1>8. \A k \in DOMAIN ps : qs[k] = ps[k] /\ k \in DOMAIN qs
  BY <1>5
<1>9. \A k \in DOMAIN qs : k \in DOMAIN ps \/ k = Len(qs)
  BY <1>5, <1>7
<1>10. Len(qs) \in DOMAIN qs
  BY <1>5, <1>7
<1> HIDE DEF qs
<1>11. NextBegin(qs) = p[2] + 1
  BY <1>7 DEF NextBegin, Last
<1>12. WellFormed(w, qs) <=> ~ IsBad(w, p)
  <2>1. \A k \in DOMAIN ps : ~ IsBad(w, ps[k])
    BY <1>5 DEF WellFormed
  <2> QED
    BY <1>7, <1>8, <1>9, <1>10, <2>1 DEF WellFormed
<1> QED
  BY <1>1, <1>2, <1>3, <1>4, <1>6, <1>11, <1>12 DEF ps, p

\* Its token is found with the piece.
LEMMA TokensCutOff ==
  ASSUME NEW w, Len(w) \in Nat, NEW read, NEW n, NEW a, ReadTo(w, read, n, a), a <= Len(w)
  PROVE  TokensOf(w, Cuts(w)[n + 1]) =
           IF IsToken(w, Piece(w, a))
           THEN Append(TokensOf(w, Cuts(w)[n]), TokenOf(w, Piece(w, a)))
           ELSE TokensOf(w, Cuts(w)[n])
<1> DEFINE ps == Cuts(w)[n]
           p == Piece(w, a)
<1>1. ps \in PieceSeq /\ p \in Nat \X Nat /\ Cuts(w)[n + 1] = Append(ps, p)
  BY CutOff
<1> HIDE DEF ps, p
<1>2. TokensOf(w, Append(ps, p)) =
        IF IsToken(w, p) THEN Append(TokensOf(w, ps), TokenOf(w, p)) ELSE TokensOf(w, ps)
  BY <1>1, TokensOfAppend
<1> QED
  BY <1>1, <1>2 DEF ps, p

\* A piece that is no token was read.
LEMMA ReadBlank ==
  ASSUME NEW w, Len(w) \in Nat, NEW read, NEW n, NEW a, ReadTo(w, read, n, a), a <= Len(w),
         NEW b \in a .. Len(w), Piece(w, a) = << a, b >>, ~ IsBad(w, << a, b >>), ~ IsToken(w, << a, b >>)
  PROVE  ReadTo(w, read, n + 1, b + 1)
<1>1. a \in 1 .. Len(w) /\ n \in 0 .. (a - 1) /\ Matched(w, read, Cuts(w)[n])
  BY DEF ReadTo
<1>2. b + 1 \in 1 .. (Len(w) + 1) /\ n + 1 \in 0 .. (b + 1 - 1)
  BY <1>1
<1>3. NextBegin(Cuts(w)[n + 1]) = b + 1 /\ WellFormed(w, Cuts(w)[n + 1])
  BY CutOff
<1>4. TokensOf(w, Cuts(w)[n + 1]) = TokensOf(w, Cuts(w)[n])
  BY TokensCutOff
<1>5. Matched(w, read, Cuts(w)[n + 1])
  BY <1>1, <1>4 DEF Matched
<1> QED
  BY <1>2, <1>3, <1>5 DEF ReadTo

\* A token that was read changes no column of those before it.
LEMMA ColumnsStay ==
  ASSUME NEW T, NEW read \in Seq(T), NEW t, NEW k \in 1 .. Len(read), NEW c
  PROVE  ColumnFrom(Append(read, t), k, c) = ColumnFrom(read, k, c)
<1> DEFINE more == Append(read, t)
<1>1. \A m \in 1 .. Len(read) : more[m] = read[m]
  OBVIOUS
<1>2. \A m \in 1 .. (k - 1) : m \in 1 .. Len(read)
  OBVIOUS
<1> HIDE DEF more
<1>3. LongBefore(more, k) = LongBefore(read, k)
  BY <1>1, <1>2 DEF LongBefore
<1> QED
  BY <1>1, <1>3 DEF ColumnFrom, more

\* A token was read.
LEMMA ReadToken ==
  ASSUME NEW w, Len(w) \in Nat, NEW T, NEW read \in Seq(T), NEW t \in T,
         NEW n, NEW a, ReadTo(w, read, n, a), a <= Len(w),
         NEW b \in a .. Len(w), Piece(w, a) = << a, b >>, ~ IsBad(w, << a, b >>), IsToken(w, << a, b >>),
         SameToken(t, TokenOf(w, << a, b >>)),
         t.col = ColumnFrom(Append(read, t), Len(read) + 1, TokenOf(w, << a, b >>).col)
  PROVE  ReadTo(w, Append(read, t), n + 1, b + 1)
<1> DEFINE more == Append(read, t)
           old == TokensOf(w, Cuts(w)[n])
           new == TokensOf(w, Cuts(w)[n + 1])
           found == TokenOf(w, << a, b >>)
<1>1. a \in 1 .. Len(w) /\ n \in 0 .. (a - 1) /\ Matched(w, read, Cuts(w)[n])
  BY DEF ReadTo
<1>2. b + 1 \in 1 .. (Len(w) + 1) /\ n + 1 \in 0 .. (b + 1 - 1)
  BY <1>1
<1>3. NextBegin(Cuts(w)[n + 1]) = b + 1 /\ WellFormed(w, Cuts(w)[n + 1])
  BY CutOff
<1>4. new = Append(old, found)
  <2> DEFINE p == Piece(w, a)
  <2>1. new = IF IsToken(w, p) THEN Append(old, TokenOf(w, p)) ELSE old
    BY TokensCutOff
  <2>2. p = << a, b >>
    OBVIOUS
  <2> HIDE DEF p, new, old
  <2> QED
    BY <2>1, <2>2
<1>5. PICK U : old \in Seq(U)
  BY CutOff, TokensOfSeq
<1>6. /\ Len(read) = Len(old)
      /\ \A k \in DOMAIN old : SameToken(read[k], old[k]) /\ read[k].col = ColumnFrom(read, k, old[k].col)
  BY <1>1 DEF Matched
<1>7. \A k \in 1 .. Len(read) : \A c : ColumnFrom(more, k, c) = ColumnFrom(read, k, c)
  BY ColumnsStay
<1>8. /\ Len(more) = Len(read) + 1 /\ more[Len(read) + 1] = t
      /\ \A k \in 1 .. Len(read) : more[k] = read[k]
  OBVIOUS
<1> HIDE DEF old, found
<1>9. /\ DOMAIN new = 1 .. (Len(old) + 1) /\ Len(new) = Len(old) + 1 /\ new[Len(old) + 1] = found
      /\ DOMAIN old = 1 .. Len(old)
      /\ \A k \in 1 .. Len(old) : new[k] = old[k]
      /\ Len(old) \in Nat
  <2> HIDE DEF new
  <2>1. Append(old, found) = new
    BY <1>4
  <2>2. old \in Seq(U \cup {found}) /\ found \in U \cup {found}
    BY <1>5
  <2>3. /\ DOMAIN Append(old, found) = 1 .. (Len(old) + 1)
        /\ Len(Append(old, found)) = Len(old) + 1
        /\ Append(old, found)[Len(old) + 1] = found
        /\ DOMAIN old = 1 .. Len(old) /\ Len(old) \in Nat
    BY <2>2
  <2>4. \A k \in 1 .. Len(old) : Append(old, found)[k] = old[k]
    BY <2>2
  <2> QED
    BY <2>1, <2>3, <2>4
<1> HIDE DEF new, more
<1>10. SameToken(t, found) /\ t.col = ColumnFrom(more, Len(read) + 1, found.col)
  BY DEF found, more
<1>11. ASSUME NEW k \in DOMAIN new
       PROVE  SameToken(more[k], new[k]) /\ more[k].col = ColumnFrom(more, k, new[k].col)
  <2>1. CASE k = Len(old) + 1
    BY <1>6, <1>8, <1>9, <1>10, <2>1
  <2>2. CASE k # Len(old) + 1
    <3>1. k \in 1 .. Len(old) /\ k \in DOMAIN old /\ k \in 1 .. Len(read)
      BY <1>6, <1>9, <2>2
    <3>2. more[k] = read[k] /\ new[k] = old[k]
      BY <1>8, <1>9, <3>1
    <3> QED
      BY <1>6, <1>7, <3>1, <3>2
  <2> QED
    BY <2>1, <2>2
<1>12. Matched(w, more, Cuts(w)[n + 1])
  BY <1>6, <1>8, <1>9, <1>11 DEF Matched, new
<1> QED
  BY <1>2, <1>3, <1>12 DEF ReadTo, more

\* The text was read to its end.
LEMMA ReadAll ==
  ASSUME NEW w, Len(w) \in Nat, NEW read, NEW n, ReadTo(w, read, n, Len(w) + 1)
  PROVE  Pieces(w) = Cuts(w)[n]
<1>1. n \in 0 .. Len(w) /\ NextBegin(Cuts(w)[n]) = Len(w) + 1
  BY DEF ReadTo
<1>2. Cut(w, Cuts(w)[n]) = Cuts(w)[n]
  BY <1>1 DEF Cut
<1> QED
  BY <1>1, <1>2, CutsStay DEF Pieces

\* The text was read up to a bad piece.
LEMMA ReadToBad ==
  ASSUME NEW w, Len(w) \in Nat, NEW read, NEW n, NEW a, ReadTo(w, read, n, a), a <= Len(w),
         IsBad(w, Piece(w, a))
  PROVE  ~ WellFormed(w, Pieces(w)) /\ TokensOf(w, Pieces(w)) = TokensOf(w, Cuts(w)[n])
<1>1. n \in Nat /\ n + 1 \in Nat /\ n + 1 <= a /\ a <= Len(w) /\ a \in Nat
  BY CutOff DEF ReadTo
<1>2. ~ WellFormed(w, Cuts(w)[n + 1])
  BY CutOff
<1>3. Cut(w, Cuts(w)[n + 1]) = Cuts(w)[n + 1]
  BY <1>2 DEF Cut
<1>4. Pieces(w) = Cuts(w)[n + 1]
  BY <1>1, <1>3, CutsStay DEF Pieces
<1>5. ~ IsToken(w, Piece(w, a))
  BY DEF IsToken
<1>6. TokensOf(w, Cuts(w)[n + 1]) = TokensOf(w, Cuts(w)[n])
  BY <1>5, TokensCutOff
<1> QED
  BY <1>2, <1>4, <1>6

-----------------------------------------------------------------------------
(* Lines and columns.                                                      *)

\* Newlines are counted, and there is a last one or none.
LEMMA NewlinesTyped ==
  ASSUME NEW w, NEW a \in Nat \ {0}
  PROVE  /\ IsFiniteSet(NewlinesBefore(w, a))
         /\ Cardinality(NewlinesBefore(w, a)) \in Nat
         /\ Max(NewlinesBefore(w, a) \cup {0}) \in 0 .. (a - 1)
<1>1. NewlinesBefore(w, a) \in SUBSET (1 .. (a - 1))
  BY DEF NewlinesBefore
<1>2. IsFiniteSet(1 .. (a - 1))
  BY FS_Interval
<1>3. IsFiniteSet(NewlinesBefore(w, a)) /\ Cardinality(NewlinesBefore(w, a)) \in Nat
  BY <1>1, <1>2, FS_Subset, FS_CardinalityType
<1> DEFINE S == NewlinesBefore(w, a) \cup {0}
<1>4. S \in SUBSET (0 .. (a - 1)) /\ S # {}
  BY <1>1
<1> DEFINE bound == a - 1
<1>7. bound \in Nat /\ S \in SUBSET (0 .. bound)
  BY <1>4
<1> HIDE DEF S, bound
<1>5. PICK m \in S : \A k \in S : k <= m
  BY <1>4, <1>7, GreatestElement
<1>6. Max(S) \in S
  BY <1>4, <1>5 DEF Max
<1> QED
  BY <1>3, <1>4, <1>6 DEF S

\* A piece without a newline stays on its line.
LEMMA SameLine ==
  ASSUME NEW w, NEW a \in Nat \ {0}, NEW b \in Nat, a <= b + 1, \A p \in a .. b : w[p] # Newline
  PROVE  NewlinesBefore(w, b + 1) = NewlinesBefore(w, a)
<1>1. \A p \in 1 .. b : w[p] = Newline => p \in 1 .. (a - 1)
  OBVIOUS
<1>2. \A p \in 1 .. (a - 1) : p \in 1 .. b
  OBVIOUS
<1>3. b + 1 - 1 = b
  OBVIOUS
<1> QED
  BY <1>1, <1>2, <1>3 DEF NewlinesBefore

\* A newline begins a line.
LEMMA NextLine ==
  ASSUME NEW w, NEW a \in Nat \ {0}, w[a] = Newline
  PROVE  /\ Cardinality(NewlinesBefore(w, a + 1)) = Cardinality(NewlinesBefore(w, a)) + 1
         /\ Max(NewlinesBefore(w, a + 1) \cup {0}) = a
<1> DEFINE S == NewlinesBefore(w, a)
           R == NewlinesBefore(w, a + 1)
<1>1. R = S \cup {a} /\ a \notin S /\ \A p \in S : p \in Nat /\ p <= a
  BY DEF NewlinesBefore
<1>2. IsFiniteSet(S)
  BY NewlinesTyped
<1> HIDE DEF S, R
<1>3. Cardinality(R) = Cardinality(S) + 1
  BY <1>1, <1>2, FS_AddElement
<1> DEFINE U == R \cup {0}
<1>4. a \in U /\ \A p \in U : a >= p
  BY <1>1
<1>5. \A p \in U : (\A q \in U : p >= q) => p = a
  BY <1>1
<1> HIDE DEF U
<1>6. Max(U) = a
  BY <1>4, <1>5 DEF Max
<1> QED
  BY <1>3, <1>6 DEF S, R, U

\* The operators of two characters on a line.
LongOn(read, l) == { m \in DOMAIN read : read[m].line = l /\ IsLong(read[m]) }

\* They are counted.
LEMMA LongOnTyped ==
  ASSUME NEW T, NEW read \in Seq(T), NEW l
  PROVE  IsFiniteSet(LongOn(read, l)) /\ Cardinality(LongOn(read, l)) \in Nat
<1>1. LongOn(read, l) \in SUBSET (1 .. Len(read))
  BY DEF LongOn
<1>2. IsFiniteSet(1 .. Len(read))
  BY FS_Interval
<1> QED
  BY <1>1, <1>2, FS_Subset, FS_CardinalityType

\* One more token is one more of them or none.
LEMMA LongOnAppend ==
  ASSUME NEW T, NEW read \in Seq(T), NEW t \in T
  PROVE  /\ Cardinality(LongOn(Append(read, t), t.line)) =
              Cardinality(LongOn(read, t.line)) + IF IsLong(t) THEN 1 ELSE 0
         /\ LongBefore(Append(read, t), Len(read) + 1) = LongOn(read, t.line)
<1> DEFINE more == Append(read, t)
           k == Len(read) + 1
           S == LongOn(read, t.line)
           R == LongOn(more, t.line)
<1>1. /\ DOMAIN more = 1 .. k /\ more[k] = t /\ DOMAIN read = 1 .. (k - 1) /\ k \in Nat \ {0}
      /\ \A m \in 1 .. (k - 1) : more[m] = read[m] /\ m \in 1 .. k
  OBVIOUS
<1> HIDE DEF more, k
<1>2. LongBefore(more, k) = S
  BY <1>1 DEF LongBefore, LongOn
<1>3. R = IF IsLong(t) THEN S \cup {k} ELSE S
  <2>1. \A m : m \in 1 .. k <=> m = k \/ m \in 1 .. (k - 1)
    BY <1>1
  <2>2. \A m : m \in R <=> m \in DOMAIN more /\ more[m].line = t.line /\ IsLong(more[m])
    BY DEF LongOn
  <2>3. \A m : m \in S <=> m \in DOMAIN read /\ read[m].line = t.line /\ IsLong(read[m])
    BY DEF LongOn
  <2>4. k \in 1 .. k
    BY <1>1
  <2> HIDE DEF R, S
  <2>5. k \in R <=> IsLong(t)
    BY <1>1, <2>2, <2>4
  <2>6. \A m \in 1 .. (k - 1) : m \in R <=> m \in S
    BY <1>1, <2>2, <2>3
  <2>7. \A m \in R : m = k \/ m \in 1 .. (k - 1)
    BY <1>1, <2>1, <2>2
  <2>8. \A m \in S : m \in 1 .. (k - 1)
    BY <1>1, <2>3
  <2>9. \A m : m \in R <=> m \in S \/ (IsLong(t) /\ m = k)
    BY <2>5, <2>6, <2>7, <2>8
  <2> QED
    BY <2>9
<1>4. k \notin S
  BY <1>1 DEF LongOn
<1>5. IsFiniteSet(S) /\ Cardinality(S) \in Nat
  BY LongOnTyped
<1> HIDE DEF S, R
<1>6. Cardinality(R) = Cardinality(S) + IF IsLong(t) THEN 1 ELSE 0
  <2>1. CASE IsLong(t)
    BY <1>3, <1>4, <1>5, <2>1, FS_AddElement
  <2>2. CASE ~ IsLong(t)
    BY <1>3, <1>5, <2>2
  <2> QED
    BY <2>1, <2>2
<1> QED
  BY <1>2, <1>6 DEF S, R, more, k

\* Where the character in ch is in the text.
Here == IF fail THEN Len(text) + 1 ELSE pos - 1

Unread == {"open", "unopened"}

Inside == {"operator", "comment", "word", "number"}

\* What is in ch, once something was read; inside a lexeme the stream fails
\* with its eofbit set.
HandInv ==
  /\ pc \in Unread => pos = 1 /\ ~ fail /\ ~ eof /\ tokens = << >> /\ line = 1 /\ col = 1
  /\ pc \notin Unread =>
       /\ Here \in 1 .. (Len(text) + 1)
       /\ IF fail THEN ch = End ELSE Here <= Len(text) /\ ch = text[Here]
  /\ pc \in Inside => (fail => eof)

\* The column that is right for a token that begins at a, but for the operators.
ColumnAt(w, read, l, a) == a - Max(NewlinesBefore(w, a) \cup {0}) - Cardinality(LongOn(read, l))

InColumn(a) == col = ColumnAt(text, tokens, line, a)

\* The line of a.
OnLine(a) ==
  /\ line = Cardinality(NewlinesBefore(text, a)) + 1
  /\ \A m \in DOMAIN tokens : tokens[m].line <= line

\* The tokens of the first n pieces were read, and the next, of which something
\* may have been read already, begins at a.
Reading(n, a) ==
  /\ ReadTo(text, tokens, n, a)
  /\ OnLine(a)
  /\ pc \in Unread => a = 1
  /\ pc = "loop" =>
       /\ a = Here
       /\ a <= Len(text) /\ text[a] # Newline => InColumn(a)
       /\ fail => (eof <=> ~ EndsAskingForMore(text, Cuts(text)[n]))
  /\ pc \in Inside \ {"comment"} =>
       a < Here /\ InColumn(a) /\ lexeme = SubSeq(text, a, Here - 1)
  /\ pc = "operator" => a = Here - 1 /\ text[a] \in Operators
  /\ pc = "word" => IsWord(text, a, Here - 1)
  /\ pc = "number" => IsDigits(text, a, Here - 1)
  /\ pc = "comment" => IsComment(text, a, Here - 1)
  /\ pc = "done" => a = Len(text) + 1 /\ ~ EndsAskingForMore(text, Cuts(text)[n])
  /\ pc = "error" => IF a <= Len(text) THEN IsBad(text, Piece(text, a))
                     ELSE EndsAskingForMore(text, Cuts(text)[n])

LexemeInv == \E n \in 0 .. Len(text) : \E a \in 1 .. (Len(text) + 1) : Reading(n, a)

-----------------------------------------------------------------------------
(* The stream.                                                             *)

\* The text is a sequence.
LEMMA TextTyped ==
  ASSUME TypeOK
  PROVE  /\ text \in Seq(Chars \cup {End}) /\ Len(text) \in Nat
         /\ tokens \in Seq(TokenRecord)
BY TextAssumption DEF TypeOK, TokenRecord

\* A character is read.
LEMMA GetNext ==
  ASSUME TypeOK, StreamInv, HandInv, ~ fail, Get, text' = text, pc' \notin Unread
  PROVE  /\ HandInv'
         /\ Here' = pos /\ pos \in 1 .. (Len(text) + 1)
         /\ fail' => eof' /\ pos = Len(text) + 1
         /\ pc \notin Unread => pos = Here + 1 /\ Here <= Len(text) /\ ch = text[Here]
<1>1. Len(text) \in Nat /\ pos \in 1 .. (Len(text) + 1)
  BY TextTyped DEF TypeOK
<1>2. ~ eof
  BY DEF StreamInv
<1>3. CASE pos <= Len(text)
  <2>1. ch' = text[pos] /\ pos' = pos + 1 /\ ~ fail' /\ ~ eof'
    BY <1>2, <1>3 DEF Get
  <2>2. Here' = pos
    BY <1>1, <2>1 DEF Here
  <2>3. HandInv'
    BY <1>1, <1>3, <2>1, <2>2 DEF HandInv
  <2> QED
    BY <1>1, <2>1, <2>2, <2>3 DEF HandInv, Here
<1>4. CASE ~ (pos <= Len(text))
  <2>1. ch' = End /\ pos' = pos /\ fail' /\ eof' /\ pos = Len(text) + 1
    <3>1. pos = Len(text) + 1
      BY <1>1, <1>4
    <3>2. ch' = End /\ pos' = pos /\ eof' = (eof \/ ~ fail) /\ fail' = TRUE
      BY <1>4 DEF Get
    <3>3. eof'
      BY <3>2, Zenon
    <3> QED
      BY <3>1, <3>2, <3>3
  <2>2. Here' = pos
    BY <2>1 DEF Here
  <2>3. HandInv'
    BY <1>1, <2>1, <2>2 DEF HandInv
  <2> QED
    BY <1>1, <2>1, <2>2, <2>3 DEF HandInv, Here
<1> QED
  BY <1>3, <1>4

\* A character is put back and read again, or stays where it is.
LEMMA StayHere ==
  ASSUME HandInv, UngetAndGet \/ UNCHANGED stream, text' = text,
         pc \notin Unread, pc' \notin Unread \cup Inside
  PROVE  /\ HandInv' /\ Here' = Here /\ fail' = fail /\ ch' = ch
         /\ Here \in 1 .. (Len(text) + 1)
         /\ IF fail THEN ch = End /\ Here = Len(text) + 1 ELSE Here <= Len(text) /\ ch = text[Here]
         /\ IF UNCHANGED stream THEN eof' = eof ELSE ~ eof'
<1>1. Here' = Here /\ fail' = fail /\ ch' = ch /\ pos' = pos
  BY DEF Here, UngetAndGet, stream
<1> QED
  BY <1>1 DEF HandInv, UngetAndGet, stream, Here

-----------------------------------------------------------------------------
(* What one step reads.                                                    *)

\* The place where the text was read to is one of finitely many.
LEMMA PlaceRead ==
  ASSUME text' = text, NEW n, NEW a, Reading(n, a)'
  PROVE  LexemeInv'
<1>1. n \in 0 .. (a - 1) /\ a \in 1 .. (Len(text') + 1)
  BY DEF Reading, ReadTo
<1>2. n \in 0 .. Len(text')
  BY <1>1
<1> QED
  BY <1>1, <1>2 DEF LexemeInv

\* A reader that is at the head of the loop again.
LEMMA Arrive ==
  ASSUME text' = text, pc' = "loop", NEW n, NEW a, a = Here',
         ReadTo(text, tokens', n, a),
         line' = Cardinality(NewlinesBefore(text, a)) + 1,
         \A m \in DOMAIN tokens' : tokens'[m].line <= line',
         a <= Len(text) /\ text[a] # Newline => col' = ColumnAt(text, tokens', line', a),
         fail' => (eof' <=> ~ EndsAskingForMore(text, Cuts(text)[n]))
  PROVE  LexemeInv'
<1>1. Reading(n, a)'
  BY DEF Reading, OnLine, InColumn, Unread, Inside
<1> QED
  BY <1>1, PlaceRead

\* Whether more is asked for depends on the last piece.
LEMMA LastAsks ==
  ASSUME NEW w, Len(w) \in Nat, NEW read, NEW n, NEW a, ReadTo(w, read, n, a), a <= Len(w),
         NEW b, Piece(w, a) = << a, b >>
  PROVE  EndsAskingForMore(w, Cuts(w)[n + 1]) <=>
           b = Len(w) /\ (IsComment(w, a, b) \/ (a = b /\ w[a] \in DOMAIN Short))
<1> DEFINE ps == Cuts(w)[n]
           qs == Cuts(w)[n + 1]
<1>1. ps \in Seq(Nat \X Nat) /\ Piece(w, a) \in Nat \X Nat /\ qs = Append(ps, Piece(w, a))
  BY CutOff DEF PieceSeq
<1> HIDE DEF ps
<1>2. qs # << >> /\ qs[Len(qs)] = << a, b >>
  BY <1>1
<1> HIDE DEF qs
<1>3. EndsAskingForMore(w, qs) <=>
        b = Len(w) /\ (IsComment(w, a, b) \/ (a = b /\ w[a] \in DOMAIN Short))
  BY <1>2 DEF EndsAskingForMore, Last
<1> QED
  BY <1>3 DEF qs

\* The column that is right moves on with the piece.
LEMMA ColumnMoves ==
  ASSUME TypeOK, NEW a \in 1 .. Len(text), NEW b \in a .. Len(text),
         \A p \in a .. b : text[p] # Newline, InColumn(a)
  PROVE  /\ ColumnAt(text, tokens, line, b + 1) = col + (b + 1 - a)
         /\ NewlinesBefore(text, b + 1) = NewlinesBefore(text, a)
         /\ col \in Nat /\ Cardinality(LongOn(tokens, line)) \in Nat
         /\ Max(NewlinesBefore(text, a) \cup {0}) \in Nat
<1> DEFINE max == Max(NewlinesBefore(text, a) \cup {0})
           old == Cardinality(LongOn(tokens, line))
<1>1. NewlinesBefore(text, b + 1) = NewlinesBefore(text, a)
  BY SameLine
<1>2. tokens \in Seq(TokenRecord) /\ col \in Nat
  BY TextTyped DEF TypeOK
<1>4. old \in Nat
  BY <1>2, LongOnTyped
<1>5. max \in Nat
  <2>1. a \in Nat \ {0}
    OBVIOUS
  <2>2. max \in 0 .. (a - 1)
    BY <2>1, NewlinesTyped
  <2> QED
    BY <2>2
<1>6. col = a - max - old
  BY DEF InColumn, ColumnAt
<1>8. ColumnAt(text, tokens, line, b + 1) = (b + 1) - max - old
  BY <1>1 DEF ColumnAt
<1> HIDE DEF max, old
<1>9. ColumnAt(text, tokens, line, b + 1) = col + (b + 1 - a)
  BY <1>4, <1>5, <1>6, <1>8
<1> QED
  BY <1>1, <1>2, <1>4, <1>5, <1>9 DEF max, old

\* By one less if it is an operator of two characters.
LEMMA ColumnMovesToken ==
  ASSUME TypeOK, NEW a \in 1 .. Len(text), NEW b \in a .. Len(text),
         \A p \in a .. b : text[p] # Newline, InColumn(a), NEW t \in TokenRecord, t.line = line
  PROVE  ColumnAt(text, Append(tokens, t), line, b + 1) =
           col + (b + 1 - a) - IF IsLong(t) THEN 1 ELSE 0
<1> DEFINE max == Max(NewlinesBefore(text, a) \cup {0})
           old == Cardinality(LongOn(tokens, line))
           new == Cardinality(LongOn(Append(tokens, t), line))
<1>1. NewlinesBefore(text, b + 1) = NewlinesBefore(text, a) /\ max \in Nat /\ old \in Nat
  BY ColumnMoves
<1>2. tokens \in Seq(TokenRecord)
  BY TextTyped
<1>3. new = old + IF IsLong(t) THEN 1 ELSE 0
  BY <1>2, LongOnAppend
<1>6. col = a - max - old
  BY DEF InColumn, ColumnAt
<1>7. ColumnAt(text, Append(tokens, t), line, b + 1) = (b + 1) - max - new
  BY <1>1 DEF ColumnAt
<1>8. max \in Nat /\ old \in Nat
  BY <1>1
<1> HIDE DEF max, old, new
<1> QED
  BY <1>3, <1>6, <1>7, <1>8

\* A token of the next piece, with its line and column, was added.
LEMMA AddToken ==
  ASSUME TypeOK, NEW n, NEW a, NEW b \in a .. Len(text),
         ReadTo(text, tokens, n, a), OnLine(a), InColumn(a), a <= Len(text),
         Piece(text, a) = << a, b >>, ~ IsBad(text, << a, b >>), IsToken(text, << a, b >>),
         \A p \in a .. b : text[p] # Newline,
         NEW t \in TokenRecord, t.type = SymbolOf(text, << a, b >>), t.value = SubSeq(text, a, b),
         t.line = line, t.col = col + IF t.type = "NUM" THEN Len(t.value) ELSE 0,
         text' = text, line' = line, tokens' = Append(tokens, t),
         col' = col + (b + 1 - a) - IF IsLong(t) THEN 1 ELSE 0
  PROVE  /\ ReadTo(text, tokens', n + 1, b + 1)
         /\ line' = Cardinality(NewlinesBefore(text, b + 1)) + 1
         /\ \A m \in DOMAIN tokens' : tokens'[m].line <= line'
         /\ col' = ColumnAt(text, tokens', line', b + 1)
<1> DEFINE found == TokenOf(text, << a, b >>)
<1>1. a \in 1 .. Len(text) /\ Len(text) \in Nat /\ tokens \in Seq(TokenRecord) /\ Len(tokens) \in Nat
  BY TextTyped DEF ReadTo
<1>2. line = Cardinality(NewlinesBefore(text, a)) + 1 /\ line \in Nat
  BY DEF OnLine, TypeOK
<1>3. found.type = t.type /\ found.value = t.value /\ found.line = t.line
  BY <1>2 DEF TokenOf, Spelling
<1>4. found.col = a - Max(NewlinesBefore(text, a) \cup {0})
  BY DEF TokenOf
<1>5. SameToken(t, found)
  BY <1>3 DEF SameToken
<1> HIDE DEF found
<1>6. t.col = ColumnFrom(Append(tokens, t), Len(tokens) + 1, found.col)
  <2> DEFINE more == Append(tokens, t)
             k == Len(tokens) + 1
  <2>1. more[k] = t
    BY <1>1
  <2>2. LongBefore(more, k) = LongOn(tokens, line)
    BY <1>1, LongOnAppend
  <2> HIDE DEF more, k
  <2>3. ColumnFrom(more, k, found.col) =
          found.col - Cardinality(LongOn(tokens, line)) + IF t.type = "NUM" THEN Len(t.value) ELSE 0
    BY <2>1, <2>2 DEF ColumnFrom
  <2>4. col = found.col - Cardinality(LongOn(tokens, line))
    BY <1>4 DEF InColumn, ColumnAt
  <2> QED
    BY <2>3, <2>4 DEF more, k
<1>7. ReadTo(text, tokens', n + 1, b + 1)
  BY <1>1, <1>5, <1>6, ReadToken DEF found
<1>8. col' = ColumnAt(text, tokens', line', b + 1) /\ NewlinesBefore(text, b + 1) = NewlinesBefore(text, a)
  BY <1>1, ColumnMoves, ColumnMovesToken
<1>9. \A m \in DOMAIN tokens' : tokens'[m].line <= line'
  <2>1. \A m \in DOMAIN tokens : tokens[m].line <= line
    BY DEF OnLine
  <2>2. /\ DOMAIN tokens' = 1 .. (Len(tokens) + 1) /\ tokens'[Len(tokens) + 1] = t
        /\ DOMAIN tokens = 1 .. Len(tokens)
        /\ \A m \in 1 .. Len(tokens) : tokens'[m] = tokens[m]
    BY <1>1
  <2>3. \A m \in DOMAIN tokens' : m = Len(tokens) + 1 \/ m \in 1 .. Len(tokens)
    BY <1>1, <2>2
  <2> QED
    BY <1>2, <2>1, <2>2, <2>3
<1> QED
  BY <1>2, <1>7, <1>8, <1>9

\* The spelling of a piece, one character at a time.
LEMMA SpellingGrows ==
  ASSUME NEW T, NEW w \in Seq(T), NEW a \in 1 .. Len(w)
  PROVE  /\ SubSeq(w, a, a) = << w[a] >>
         /\ \A b \in a .. (Len(w) - 1) : SubSeq(w, a, b + 1) = Append(SubSeq(w, a, b), w[b + 1])
         /\ \A b \in a .. Len(w) :
              /\ Len(SubSeq(w, a, b)) = b + 1 - a
              /\ SubSeq(w, a, b)[1] = w[a]
              /\ b > a => SubSeq(w, a, b)[2] = w[a + 1]
<1>1. SubSeq(w, a, a) = << w[a] >>
  <2>1. SubSeq(w, a, a) \in Seq(T) /\ Len(SubSeq(w, a, a)) = 1 /\ SubSeq(w, a, a)[1] = w[a]
    OBVIOUS
  <2> DEFINE s == SubSeq(w, a, a)
  <2> HIDE DEF s
  <2>2. s \in Seq(T) /\ Len(s) = 1 => s = << s[1] >>
    OBVIOUS
  <2> QED
    BY <2>1, <2>2 DEF s
<1>2. \A b \in a .. (Len(w) - 1) : SubSeq(w, a, b + 1) = Append(SubSeq(w, a, b), w[b + 1])
  OBVIOUS
<1>3. ASSUME NEW b \in a .. Len(w)
      PROVE  /\ Len(SubSeq(w, a, b)) = b + 1 - a
             /\ SubSeq(w, a, b)[1] = w[a]
             /\ b > a => SubSeq(w, a, b)[2] = w[a + 1]
  OBVIOUS
<1> QED
  BY <1>1, <1>2, <1>3

-----------------------------------------------------------------------------
(* Every step goes on reading where the last one ended.                    *)

ReadInv == TypeOK /\ StreamInv /\ HandInv /\ LexemeInv

\* Only a read that failed gives the character that stands for the end, of
\* those that a lexeme is made of.
LEMMA InText ==
  ASSUME HandInv, pc \notin Unread,
         ch \in Spaces \cup {Newline, "="} \cup DOMAIN Single \cup Operators \cup Letters \cup Digits
  PROVE  ~ fail /\ Here \in 1 .. Len(text) /\ ch = text[Here]
<1>1. "=" \in Operators
  BY DEF Operators, Short
<1>2. End \notin Spaces \cup {Newline} \cup Digits
  BY DEF End, Spaces, Newline, Digits
<1>3. End \notin DOMAIN Single \cup Operators
  BY DEF End, Single, Operators, Short, WithEquals
<1>4. End \notin Letters
  BY TextAssumption
<1>5. ch # End
  BY <1>1, <1>2, <1>3, <1>4
<1>6. ~ fail
  BY <1>5 DEF HandInv
<1>7. Here \in 1 .. (Len(text) + 1) /\ Here <= Len(text) /\ ch = text[Here]
  BY <1>6 DEF HandInv
<1> QED
  BY <1>6, <1>7

\* A newline is no part of a lexeme.
LEMMA NewlineKinds ==
  Newline \notin DOMAIN Single \cup Operators \cup Letters \cup Digits \cup Spaces \cup {"=", "/"}
<1>1. Newline \notin Digits \cup Spaces \cup {"=", "/"}
  BY DEF Newline, Digits, Spaces
<1>2. Newline \notin DOMAIN Single \cup Operators
  BY DEF Newline, Single, Operators, Short, WithEquals
<1>3. Newline \notin Letters
  BY TextAssumption
<1> QED
  BY <1>1, <1>2, <1>3

\* There is a place the text was read to.
LEMMA PlaceIs ==
  ASSUME LexemeInv
  PROVE  \E n, a : Reading(n, a)
BY DEF LexemeInv

\* The symbol of a lexeme, by its kind.
LEMMA SymbolKinds ==
  ASSUME NEW w, NEW a, NEW b
  PROVE  /\ IsWord(w, a, b) /\ ~ IsDigits(w, a, b) /\ ~ IsSymbol(w, a, b) =>
              SymbolOf(w, << a, b >>) =
                IF SubSeq(w, a, b) \in DOMAIN Keywords THEN Keywords[SubSeq(w, a, b)] ELSE "ID"
         /\ ~ IsWord(w, a, b) /\ IsDigits(w, a, b) /\ ~ IsSymbol(w, a, b) =>
              SymbolOf(w, << a, b >>) = "NUM"
         /\ ~ IsWord(w, a, b) /\ ~ IsDigits(w, a, b) /\ IsSymbol(w, a, b) =>
              SymbolOf(w, << a, b >>) =
                IF Len(SubSeq(w, a, b)) = 2 THEN WithEquals[SubSeq(w, a, b)[1]]
                ELSE IF SubSeq(w, a, b)[1] \in DOMAIN Single THEN Single[SubSeq(w, a, b)[1]]
                ELSE Short[SubSeq(w, a, b)[1]]
<1> DEFINE value == SubSeq(w, a, b)
<1>1. SymbolOf(w, << a, b >>) =
        CASE IsWord(w, a, b)   -> IF value \in DOMAIN Keywords THEN Keywords[value] ELSE "ID"
          [] IsDigits(w, a, b) -> "NUM"
          [] IsSymbol(w, a, b) ->
               IF Len(value) = 2 THEN WithEquals[value[1]]
               ELSE IF value[1] \in DOMAIN Single THEN Single[value[1]] ELSE Short[value[1]]
  BY DEF SymbolOf, Spelling
<1> HIDE DEF value
<1> QED
  BY <1>1 DEF value

\* The first character is read.
LEMMA OpenReads ==
  ASSUME ReadInv, Open \/ OpenFails
  PROVE  HandInv' /\ LexemeInv'
<1>1. PICK n, a : Reading(n, a)
  BY PlaceIs DEF ReadInv
<1>2. pc = "open" /\ text' = text /\ tokens' = tokens /\ line' = line /\ col' = col
  BY DEF Open, OpenFails
<1>3. pos = 1 /\ ~ fail /\ ~ eof /\ tokens = << >> /\ line = 1 /\ col = 1 /\ a = 1
  BY <1>1, <1>2 DEF ReadInv, HandInv, Reading, Unread
<1>4. ReadTo(text, tokens, n, 1) /\ OnLine(1)
  BY <1>1, <1>3 DEF Reading
<1>5. CASE Open
  <2>1. Get /\ pc' = "loop"
    BY <1>5 DEF Open
  <2>2. HandInv' /\ Here' = 1 /\ (fail' => eof')
    BY <1>2, <1>3, <2>1, GetNext DEF ReadInv, Unread
  <2>3. n = 0
    BY <1>4 DEF ReadTo
  <2>4. Cuts(text)[0] = << >>
    BY TextTyped, CutsSteps DEF ReadInv
  <2>5. ~ EndsAskingForMore(text, Cuts(text)[n])
    BY <2>3, <2>4 DEF EndsAskingForMore
  <2>6. col' = ColumnAt(text, tokens', line', 1)
    <3>1. NewlinesBefore(text, 1) = {}
      BY DEF NewlinesBefore
    <3>2. Max(NewlinesBefore(text, 1) \cup {0}) = 0
      BY <3>1 DEF Max
    <3>3. LongOn(tokens, line) = {}
      BY <1>3 DEF LongOn
    <3> QED
      BY <1>2, <1>3, <3>2, <3>3, FS_EmptySet DEF ColumnAt
  <2>7. /\ line' = Cardinality(NewlinesBefore(text, 1)) + 1
        /\ \A m \in DOMAIN tokens' : tokens'[m].line <= line'
    BY <1>2, <1>4 DEF OnLine
  <2>8. LexemeInv'
    BY <1>2, <1>4, <2>1, <2>2, <2>5, <2>6, <2>7, Arrive
  <2> QED
    BY <2>2, <2>8
<1>6. CASE OpenFails
  <2>1. pc' = "unopened" /\ UNCHANGED stream
    BY <1>6 DEF OpenFails
  <2>2. HandInv'
    BY <1>2, <1>3, <2>1 DEF HandInv, Unread, Inside, stream
  <2>3. Reading(n, a)'
    BY <1>1, <1>2, <1>3, <2>1 DEF Reading, Unread, Inside, OnLine
  <2> QED
    BY <1>2, <2>2, <2>3, PlaceRead
<1> QED
  BY <1>5, <1>6

\* A blank is read; a newline begins a line, on which there is no token yet.
LEMMA SpaceReads ==
  ASSUME ReadInv, Space
  PROVE  HandInv' /\ LexemeInv'
<1>1. PICK n, a : Reading(n, a)
  BY PlaceIs DEF ReadInv
<1>2. /\ pc = "loop" /\ pc' = "loop" /\ text' = text /\ tokens' = tokens /\ Get
      /\ ch \in Spaces \cup {Newline}
  BY DEF Space, AtLoop
<1>3. ~ fail /\ a \in 1 .. Len(text) /\ ch = text[a] /\ a = Here
  BY <1>1, <1>2, InText DEF ReadInv, Reading, Unread
<1>4. HandInv' /\ Here' = a + 1 /\ (fail' => eof')
  BY <1>2, <1>3, GetNext DEF ReadInv, Unread
<1>5. Len(text) \in Nat /\ tokens \in Seq(TokenRecord)
  BY TextTyped DEF ReadInv
<1>6. /\ Piece(text, a) = << a, a >> /\ ~ IsBad(text, << a, a >>) /\ ~ IsToken(text, << a, a >>)
  BY <1>2, <1>3, <1>5, BlankPiece
<1>7. ReadTo(text, tokens, n, a) /\ OnLine(a)
  BY <1>1 DEF Reading
<1>8. ReadTo(text, tokens, n + 1, a + 1)
  BY <1>3, <1>5, <1>6, <1>7, ReadBlank
<1>9. ~ EndsAskingForMore(text, Cuts(text)[n + 1])
  <2>1. ~ IsComment(text, a, a)
    BY <1>3 DEF IsComment
  <2>2. text[a] \notin DOMAIN Short
    BY <1>2, <1>3 DEF Spaces, Newline, Short
  <2> QED
    BY <1>3, <1>5, <1>6, <1>7, <2>1, <2>2, LastAsks
<1>10. /\ line = Cardinality(NewlinesBefore(text, a)) + 1
       /\ \A m \in DOMAIN tokens : tokens[m].line <= line
       /\ line \in Nat /\ col \in Nat
  BY <1>7 DEF OnLine, ReadInv, TypeOK
<1>11. CASE ch \in Spaces /\ col' = col + 1 /\ line' = line
  <2>1. text[a] # Newline
    BY <1>3, <1>11, NewlineKinds
  <2>2. InColumn(a)
    BY <1>1, <1>2, <1>3, <2>1 DEF Reading
  <2>3. a \in a .. Len(text) /\ \A p \in a .. a : text[p] # Newline
    BY <1>3, <2>1
  <2>4. /\ ColumnAt(text, tokens, line, a + 1) = col + (a + 1 - a)
        /\ NewlinesBefore(text, a + 1) = NewlinesBefore(text, a)
    BY <1>3, <2>2, <2>3, ColumnMoves DEF ReadInv
  <2>5. col' = ColumnAt(text, tokens', line', a + 1)
    BY <1>2, <1>3, <1>10, <1>11, <2>4
  <2>6. /\ line' = Cardinality(NewlinesBefore(text, a + 1)) + 1
        /\ \A m \in DOMAIN tokens' : tokens'[m].line <= line'
    BY <1>2, <1>10, <1>11, <2>4
  <2>7. LexemeInv'
    BY <1>2, <1>4, <1>8, <1>9, <2>5, <2>6, Arrive
  <2> QED
    BY <1>4, <2>7
<1>12. CASE ch = Newline /\ col' = 1 /\ line' = line + 1
  <2>1. /\ Cardinality(NewlinesBefore(text, a + 1)) = Cardinality(NewlinesBefore(text, a)) + 1
        /\ Max(NewlinesBefore(text, a + 1) \cup {0}) = a
    BY <1>3, <1>12, NextLine
  <2>2. Cardinality(NewlinesBefore(text, a)) \in Nat
    <3>1. a \in Nat \ {0}
      BY <1>3
    <3> QED
      BY <3>1, NewlinesTyped
  <2>3. LongOn(tokens, line + 1) = {}
    <3>1. ASSUME NEW m \in DOMAIN tokens PROVE tokens[m].line # line + 1
      <4>1. tokens[m] \in TokenRecord
        BY <1>5
      <4>3. tokens[m].line \in Nat
        BY <4>1 DEF TokenRecord
      <4> QED
        BY <1>10, <4>3
    <3> QED
      BY <3>1 DEF LongOn
  <2>4. ColumnAt(text, tokens, line + 1, a + 1) = (a + 1) - a - 0
    BY <2>1, <2>3, FS_EmptySet DEF ColumnAt
  <2>5. col' = ColumnAt(text, tokens', line', a + 1)
    BY <1>2, <1>3, <1>12, <2>4
  <2>6. line' = Cardinality(NewlinesBefore(text, a + 1)) + 1
    BY <1>10, <1>12, <2>1, <2>2
  <2>7. \A m \in DOMAIN tokens' : tokens'[m].line <= line'
    <3>1. ASSUME NEW m \in DOMAIN tokens PROVE tokens[m].line <= line + 1
      <4>1. tokens[m] \in TokenRecord
        BY <1>5
      <4>3. tokens[m].line \in Nat
        BY <4>1 DEF TokenRecord
      <4> QED
        BY <1>10, <4>3
    <3> QED
      BY <1>2, <1>12, <3>1
  <2>8. LexemeInv'
    BY <1>2, <1>4, <1>8, <1>9, <2>5, <2>6, <2>7, Arrive
  <2> QED
    BY <1>4, <2>8
<1> QED
  BY <1>11, <1>12 DEF Space

\* A token ends and the loop goes on.
LEMMA Emit ==
  ASSUME ReadInv, text' = text, pc' = "loop", line' = line, NEW n, NEW a, Reading(n, a),
         a \in 1 .. Len(text), NEW b \in a .. Len(text), InColumn(a), b + 1 = Here',
         Piece(text, a) = << a, b >>, ~ IsBad(text, << a, b >>), IsToken(text, << a, b >>),
         \A p \in a .. b : text[p] # Newline,
         NEW t \in TokenRecord, t.type = SymbolOf(text, << a, b >>), t.value = SubSeq(text, a, b),
         t.line = line, t.col = col + IF t.type = "NUM" THEN Len(t.value) ELSE 0,
         tokens' = Append(tokens, t),
         col' = col + (b + 1 - a) - IF IsLong(t) THEN 1 ELSE 0,
         ~ IsComment(text, a, b),
         fail' => b = Len(text) /\ (eof' <=> ~ (a = b /\ text[a] \in DOMAIN Short))
  PROVE  LexemeInv'
<1>1. ReadTo(text, tokens, n, a) /\ OnLine(a) /\ a <= Len(text) /\ Len(text) \in Nat
  BY TextTyped DEF Reading, ReadInv
<1>2. /\ ReadTo(text, tokens', n + 1, b + 1)
      /\ line' = Cardinality(NewlinesBefore(text, b + 1)) + 1
      /\ \A m \in DOMAIN tokens' : tokens'[m].line <= line'
      /\ col' = ColumnAt(text, tokens', line', b + 1)
  BY <1>1, AddToken DEF ReadInv
<1>3. EndsAskingForMore(text, Cuts(text)[n + 1]) <=>
        b = Len(text) /\ (IsComment(text, a, b) \/ (a = b /\ text[a] \in DOMAIN Short))
  BY <1>1, LastAsks
<1>4. fail' => (eof' <=> ~ EndsAskingForMore(text, Cuts(text)[n + 1]))
  BY <1>3
<1> QED
  BY <1>2, <1>4, Arrive

\* A symbol of one character is read.
LEMMA SingleTokenReads ==
  ASSUME ReadInv, SingleToken
  PROVE  HandInv' /\ LexemeInv'
<1>1. PICK n, a : Reading(n, a)
  BY PlaceIs DEF ReadInv
<1>2. /\ pc = "loop" /\ pc' = "loop" /\ text' = text /\ Get /\ ch \in DOMAIN Single
      /\ tokens' = Append(tokens, Token(Single[ch], << ch >>, col)) /\ col' = col + 1 /\ line' = line
  BY DEF SingleToken, AtLoop
<1>3. ~ fail /\ a \in 1 .. Len(text) /\ ch = text[a] /\ a = Here
  BY <1>1, <1>2, InText DEF ReadInv, Reading, Unread
<1>4. HandInv' /\ Here' = a + 1 /\ (fail' => eof' /\ a = Len(text))
  BY <1>2, <1>3, GetNext DEF ReadInv, Unread
<1>5. Len(text) \in Nat /\ text \in Seq(Chars \cup {End})
  BY TextTyped DEF ReadInv
<1>6. /\ Piece(text, a) = << a, a >> /\ ~ IsBad(text, << a, a >>) /\ IsToken(text, << a, a >>)
      /\ ~ IsWord(text, a, a) /\ ~ IsDigits(text, a, a) /\ ~ IsComment(text, a, a)
      /\ IsSymbol(text, a, a)
      /\ text[a] \notin DOMAIN Short
  BY <1>2, <1>3, <1>5, SinglePiece
<1>7. ReadTo(text, tokens, n, a) /\ OnLine(a)
  BY <1>1 DEF Reading
<1>8. text[a] # Newline
  BY <1>2, <1>3, NewlineKinds
<1>9. InColumn(a)
  BY <1>1, <1>2, <1>3, <1>8 DEF Reading
<1> DEFINE t == Token(Single[ch], << ch >>, col)
<1>10. SubSeq(text, a, a) = << ch >>
  BY <1>3, <1>5, SpellingGrows
<1>11. SymbolOf(text, << a, a >>) = Single[ch]
  <2> DEFINE value == SubSeq(text, a, a)
  <2>1. SymbolOf(text, << a, a >>) =
          IF Len(value) = 2 THEN WithEquals[value[1]]
          ELSE IF value[1] \in DOMAIN Single THEN Single[value[1]] ELSE Short[value[1]]
    BY <1>6, SymbolKinds
  <2>2. Len(value) = 1 /\ value[1] = ch
    BY <1>10
  <2> HIDE DEF value
  <2> QED
    BY <1>2, <2>1, <2>2
<1>12. Single[ch] # "NUM" /\ Single[ch] \in TokenSymbols /\ ch \in Chars
  <2>1. Single[ch] # "NUM"
    BY <1>2 DEF Single
  <2> QED
    BY <1>2, <2>1 DEF TokenSymbols, Chars
<1>13. t.type = Single[ch] /\ t.value = << ch >> /\ t.line = line /\ t.col = col
  BY DEF Token
<1>14. t \in TokenRecord
  BY <1>12 DEF Token, TokenRecord, ReadInv, TypeOK
<1>15. ~ IsLong(t)
  BY <1>13 DEF IsLong
<1>16. tokens' = Append(tokens, t) /\ col \in Nat
  BY <1>2 DEF ReadInv, TypeOK
<1> HIDE DEF t
<1>17. /\ t.type = SymbolOf(text, << a, a >>) /\ t.value = SubSeq(text, a, a) /\ t.line = line
       /\ t.col = col + IF t.type = "NUM" THEN Len(t.value) ELSE 0
       /\ col' = col + (a + 1 - a) - IF IsLong(t) THEN 1 ELSE 0
  BY <1>2, <1>3, <1>10, <1>11, <1>12, <1>13, <1>15, <1>16
<1>18. a \in a .. Len(text) /\ \A p \in a .. a : text[p] # Newline
  BY <1>3, <1>8
<1>19. fail' => a = Len(text) /\ (eof' <=> ~ (a = a /\ text[a] \in DOMAIN Short))
  BY <1>3, <1>4, <1>5, <1>6
<1>20. LexemeInv'
  BY <1>1, <1>2, <1>3, <1>4, <1>6, <1>9, <1>14, <1>16, <1>17, <1>18, <1>19, Emit
<1> QED
  BY <1>4, <1>20

\* A character begins a lexeme that others may follow.
LEMMA BeginReads ==
  ASSUME ReadInv, BeginOperator \/ BeginWord
  PROVE  HandInv' /\ LexemeInv'
<1>1. PICK n, a : Reading(n, a)
  BY PlaceIs DEF ReadInv
<1>2. /\ pc = "loop" /\ text' = text /\ tokens' = tokens /\ line' = line /\ col' = col /\ Get
      /\ lexeme' = << ch >>
      /\ \/ ch \in Operators /\ pc' = "operator"
         \/ ch \in Letters /\ pc' = "word"
         \/ ch \in Digits /\ pc' = "number"
  BY DEF BeginOperator, BeginWord, AtLoop
<1>3. ~ fail /\ a \in 1 .. Len(text) /\ ch = text[a] /\ a = Here
  BY <1>1, <1>2, InText DEF ReadInv, Reading, Unread
<1>4. HandInv' /\ Here' = a + 1
  BY <1>2, <1>3, GetNext DEF ReadInv, Unread
<1>5. text \in Seq(Chars \cup {End})
  BY TextTyped DEF ReadInv
<1>6. text[a] # Newline
  BY <1>2, <1>3, NewlineKinds
<1>7. ReadTo(text, tokens, n, a) /\ OnLine(a) /\ InColumn(a)
  BY <1>1, <1>2, <1>3, <1>6 DEF Reading
<1>8. Here' - 1 = a /\ a < Here' /\ lexeme' = SubSeq(text, a, a)
  <2>1. SubSeq(text, a, a) = << text[a] >>
    BY <1>3, <1>5, SpellingGrows
  <2>2. lexeme' = SubSeq(text, a, a)
    BY <1>2, <1>3, <2>1
  <2>3. a \in Int /\ Here' = a + 1
    BY <1>3, <1>4
  <2>4. Here' - 1 = a /\ a < Here'
    BY <2>3
  <2> QED
    BY <2>2, <2>4
<1>9. /\ ch \in Letters => IsWord(text, a, a)
      /\ ch \in Digits => IsDigits(text, a, a)
  BY <1>3 DEF IsWord, IsDigits, Within
<1>10. ReadTo(text', tokens', n, a) /\ OnLine(a)' /\ InColumn(a)'
  BY <1>2, <1>7 DEF OnLine, InColumn
<1>11. Reading(n, a)'
  <2>1. CASE ch \in Operators /\ pc' = "operator"
    BY <1>2, <1>3, <1>8, <1>10, <2>1 DEF Reading, Unread, Inside
  <2>2. CASE ch \in Letters /\ pc' = "word"
    BY <1>2, <1>8, <1>9, <1>10, <2>2 DEF Reading, Unread, Inside
  <2>3. CASE ch \in Digits /\ pc' = "number"
    BY <1>2, <1>8, <1>9, <1>10, <2>3 DEF Reading, Unread, Inside
  <2> QED
    BY <1>2, <2>1, <2>2, <2>3
<1> QED
  BY <1>2, <1>4, <1>11, PlaceRead

\* What an operator that is not finished looks like.
LEMMA AtOperator ==
  ASSUME ReadInv, pc = "operator", NEW n, NEW a, Reading(n, a)
  PROVE  /\ a \in 1 .. Len(text) /\ Here = a + 1 /\ lexeme = << text[a] >> /\ lexeme[1] = text[a]
         /\ text[a] \in Operators /\ InColumn(a) /\ text[a] # Newline
         /\ ReadTo(text, tokens, n, a) /\ OnLine(a)
         /\ IF fail THEN a = Len(text) /\ ch = End ELSE a + 1 \in 1 .. Len(text) /\ ch = text[a + 1]
<1>1. /\ a = Here - 1 /\ lexeme = SubSeq(text, a, Here - 1) /\ text[a] \in Operators /\ InColumn(a)
      /\ ReadTo(text, tokens, n, a) /\ OnLine(a)
  BY DEF Reading, Inside
<1>2. text \in Seq(Chars \cup {End}) /\ Len(text) \in Nat
  BY TextTyped DEF ReadInv
<1>3. /\ Here \in 1 .. (Len(text) + 1)
      /\ IF fail THEN ch = End /\ Here = Len(text) + 1 ELSE Here <= Len(text) /\ ch = text[Here]
  BY DEF ReadInv, HandInv, Unread, Here
<1>4. a \in 1 .. (Len(text) + 1)
  BY <1>1 DEF ReadTo
<1>5. a \in 1 .. Len(text) /\ Here = a + 1 /\ Here - 1 = a
  BY <1>1, <1>2, <1>3, <1>4
<1>6. SubSeq(text, a, a) = << text[a] >>
  BY <1>2, <1>5, SpellingGrows
<1>7. text[a] # Newline
  BY <1>1, NewlineKinds
<1>8. IF fail THEN a = Len(text) /\ ch = End ELSE a + 1 \in 1 .. Len(text) /\ ch = text[a + 1]
  BY <1>2, <1>3, <1>5
<1> QED
  BY <1>1, <1>5, <1>6, <1>7, <1>8

\* An operator of two characters is read.
LEMMA LongOperatorReads ==
  ASSUME ReadInv, LongOperator
  PROVE  HandInv' /\ LexemeInv'
<1>1. PICK n, a : Reading(n, a)
  BY PlaceIs DEF ReadInv
<1>2. /\ pc = "operator" /\ pc' = "loop" /\ text' = text /\ Get /\ line' = line /\ col' = col + 1
      /\ lexeme[1] \in DOMAIN WithEquals /\ ch = "="
      /\ tokens' = Append(tokens, Token(WithEquals[lexeme[1]], Append(lexeme, ch), col))
  BY DEF LongOperator, InOperator
<1>3. /\ a \in 1 .. Len(text) /\ Here = a + 1 /\ lexeme = << text[a] >> /\ lexeme[1] = text[a]
      /\ InColumn(a) /\ text[a] # Newline
  BY <1>1, <1>2, AtOperator
<1>4. ~ fail /\ a + 1 \in 1 .. Len(text) /\ text[a + 1] = "="
  BY <1>2, <1>3, InText DEF ReadInv, Unread
<1>5. HandInv' /\ Here' = a + 2 /\ (fail' => eof' /\ a + 1 = Len(text))
  <2>1. HandInv' /\ Here' = pos /\ pos = Here + 1 /\ (fail' => eof' /\ pos = Len(text) + 1)
    BY <1>2, <1>4, GetNext DEF ReadInv, Unread
  <2>2. Len(text) \in Nat
    BY TextTyped DEF ReadInv
  <2> QED
    BY <1>3, <2>1, <2>2
<1>6. text \in Seq(Chars \cup {End}) /\ Len(text) \in Nat
  BY TextTyped DEF ReadInv
<1>7. /\ Piece(text, a) = << a, a + 1 >> /\ ~ IsBad(text, << a, a + 1 >>)
      /\ IsToken(text, << a, a + 1 >>)
      /\ ~ IsWord(text, a, a + 1) /\ ~ IsDigits(text, a, a + 1) /\ ~ IsComment(text, a, a + 1)
      /\ IsSymbol(text, a, a + 1)
  BY <1>2, <1>3, <1>4, <1>6, LongPiece
<1> DEFINE value == SubSeq(text, a, a + 1)
           t == Token(WithEquals[text[a]], value, col)
<1>8. value = Append(lexeme, ch)
  <2>1. a \in a .. (Len(text) - 1)
    <3>1. a \in Int /\ Len(text) \in Int /\ a + 1 <= Len(text)
      BY <1>3, <1>4, <1>6
    <3> QED
      BY <3>1
  <2>2. SubSeq(text, a, a) = << text[a] >>
    BY <1>3, <1>6, SpellingGrows
  <2>3. SubSeq(text, a, a + 1) = Append(SubSeq(text, a, a), text[a + 1])
    BY <1>3, <1>6, <2>1, SpellingGrows
  <2> QED
    BY <1>2, <1>3, <1>4, <2>2, <2>3
<1>9. Len(value) = 2 /\ value[1] = text[a] /\ value[2] = "="
  <2>1. a + 1 \in a .. Len(text) /\ a + 1 > a /\ a + 1 + 1 - a = 2
    BY <1>3, <1>4
  <2>2. Len(value) = a + 1 + 1 - a /\ value[1] = text[a] /\ value[2] = text[a + 1]
    BY <1>3, <1>6, <2>1, SpellingGrows
  <2> HIDE DEF value
  <2> QED
    BY <1>4, <2>1, <2>2
<1>10. SymbolOf(text, << a, a + 1 >>) = WithEquals[text[a]]
  <2>1. SymbolOf(text, << a, a + 1 >>) =
          IF Len(value) = 2 THEN WithEquals[value[1]]
          ELSE IF value[1] \in DOMAIN Single THEN Single[value[1]] ELSE Short[value[1]]
    BY <1>7, SymbolKinds
  <2> HIDE DEF value
  <2> QED
    BY <1>9, <2>1
<1>11. WithEquals[text[a]] # "NUM" /\ WithEquals[text[a]] \in TokenSymbols
  <2>1. text[a] \in DOMAIN WithEquals
    BY <1>2, <1>3
  <2>2. WithEquals[text[a]] # "NUM"
    BY <2>1 DEF WithEquals
  <2> QED
    BY <2>1, <2>2 DEF TokenSymbols
<1>12. value \in Seq(Chars)
  <2>1. "=" \in Chars /\ lexeme \in Seq(Chars)
    BY DEF Chars, Operators, Short, ReadInv, TypeOK
  <2>2. Append(lexeme, "=") \in Seq(Chars)
    BY <2>1
  <2> QED
    BY <1>2, <1>8, <2>2
<1>13. tokens' = Append(tokens, t) /\ col \in Nat /\ col \in Nat \ {0} /\ line \in Nat \ {0}
  BY <1>2, <1>3, <1>8 DEF ReadInv, TypeOK
<1>14. t.type = WithEquals[text[a]] /\ t.value = value /\ t.line = line /\ t.col = col
  BY DEF Token
<1> HIDE DEF value
<1>15. t \in TokenRecord
  BY <1>11, <1>12, <1>13 DEF Token, TokenRecord
<1>16. IsLong(t)
  BY <1>9, <1>14 DEF IsLong
<1> HIDE DEF t
<1>17. /\ t.type = SymbolOf(text, << a, a + 1 >>) /\ t.value = SubSeq(text, a, a + 1)
       /\ t.col = col + IF t.type = "NUM" THEN Len(t.value) ELSE 0
       /\ col' = col + ((a + 1) + 1 - a) - IF IsLong(t) THEN 1 ELSE 0
  BY <1>2, <1>3, <1>10, <1>11, <1>13, <1>14, <1>16 DEF value
<1> DEFINE b == a + 1
<1>18. b \in a .. Len(text) /\ b + 1 = Here'
  BY <1>3, <1>4, <1>5
<1>19. \A p \in a .. b : text[p] # Newline
  <2>1. text[a + 1] # Newline
    BY <1>4, NewlineKinds
  <2>2. \A p \in a .. b : p = a \/ p = a + 1
    BY <1>3
  <2> QED
    BY <1>3, <2>1, <2>2
<1>20. fail' => b = Len(text) /\ (eof' <=> ~ (a = b /\ text[a] \in DOMAIN Short))
  BY <1>3, <1>5
<1>21. /\ Piece(text, a) = << a, b >> /\ ~ IsBad(text, << a, b >>) /\ IsToken(text, << a, b >>)
       /\ ~ IsComment(text, a, b)
       /\ t.type = SymbolOf(text, << a, b >>) /\ t.value = SubSeq(text, a, b)
       /\ col' = col + (b + 1 - a) - IF IsLong(t) THEN 1 ELSE 0
  BY <1>7, <1>17
<1> HIDE DEF b
<1>22. LexemeInv'
  BY <1>1, <1>2, <1>3, <1>13, <1>14, <1>15, <1>17, <1>18, <1>19, <1>20, <1>21, Emit
<1> QED
  BY <1>5, <1>22

\* An operator of one character is read, and what comes after it is put back.
LEMMA ShortOperatorReads ==
  ASSUME ReadInv, ShortOperator
  PROVE  HandInv' /\ LexemeInv'
<1>1. PICK n, a : Reading(n, a)
  BY PlaceIs DEF ReadInv
<1>2. /\ pc = "operator" /\ pc' = "loop" /\ text' = text /\ UngetAndGet /\ line' = line
      /\ col' = col + 1 /\ lexeme[1] \in DOMAIN Short
      /\ ch # IF lexeme[1] = "/" THEN "/" ELSE "="
      /\ tokens' = Append(tokens, Token(Short[lexeme[1]], lexeme, col))
  BY DEF ShortOperator, InOperator
<1>3. /\ a \in 1 .. Len(text) /\ Here = a + 1 /\ lexeme = << text[a] >> /\ lexeme[1] = text[a]
      /\ InColumn(a) /\ text[a] # Newline
      /\ IF fail THEN a = Len(text) /\ ch = End ELSE a + 1 \in 1 .. Len(text) /\ ch = text[a + 1]
  BY <1>1, <1>2, AtOperator
<1>4. HandInv' /\ Here' = a + 1 /\ fail' = fail /\ ~ eof'
  <2>1. HandInv' /\ Here' = Here /\ fail' = fail
    BY <1>2, StayHere DEF ReadInv, Unread, Inside
  <2> QED
    BY <1>2, <1>3, <2>1 DEF UngetAndGet
<1>5. text \in Seq(Chars \cup {End}) /\ Len(text) \in Nat
  BY TextTyped DEF ReadInv
<1>6. a = Len(text) \/ text[a + 1] # IF text[a] = "/" THEN "/" ELSE "="
  BY <1>2, <1>3
<1>7. /\ Piece(text, a) = << a, a >> /\ ~ IsBad(text, << a, a >>) /\ IsToken(text, << a, a >>)
      /\ ~ IsWord(text, a, a) /\ ~ IsDigits(text, a, a) /\ ~ IsComment(text, a, a)
      /\ IsSymbol(text, a, a)
      /\ text[a] \notin DOMAIN Single
  BY <1>2, <1>3, <1>5, <1>6, ShortPiece
<1> DEFINE t == Token(Short[text[a]], << text[a] >>, col)
<1>8. SubSeq(text, a, a) = << text[a] >>
  BY <1>3, <1>5, SpellingGrows
<1>9. SymbolOf(text, << a, a >>) = Short[text[a]]
  <2> DEFINE value == SubSeq(text, a, a)
  <2>1. SymbolOf(text, << a, a >>) =
          IF Len(value) = 2 THEN WithEquals[value[1]]
          ELSE IF value[1] \in DOMAIN Single THEN Single[value[1]] ELSE Short[value[1]]
    BY <1>7, SymbolKinds
  <2>2. Len(value) = 1 /\ value[1] = text[a]
    BY <1>8
  <2> HIDE DEF value
  <2> QED
    BY <1>7, <2>1, <2>2
<1>10. Short[text[a]] # "NUM" /\ Short[text[a]] \in TokenSymbols /\ text[a] \in Chars
  <2>1. text[a] \in DOMAIN Short
    BY <1>2, <1>3
  <2>2. Short[text[a]] # "NUM"
    BY <2>1 DEF Short
  <2> QED
    BY <2>1, <2>2 DEF TokenSymbols, Chars, Operators
<1>11. tokens' = Append(tokens, t) /\ col \in Nat /\ col \in Nat \ {0} /\ line \in Nat \ {0}
  BY <1>2, <1>3 DEF ReadInv, TypeOK
<1>12. t.type = Short[text[a]] /\ t.value = << text[a] >> /\ t.line = line /\ t.col = col
  BY DEF Token
<1>13. t \in TokenRecord
  BY <1>10, <1>11 DEF Token, TokenRecord
<1>14. ~ IsLong(t)
  BY <1>12 DEF IsLong
<1> HIDE DEF t
<1>15. /\ t.type = SymbolOf(text, << a, a >>) /\ t.value = SubSeq(text, a, a)
       /\ t.col = col + IF t.type = "NUM" THEN Len(t.value) ELSE 0
       /\ col' = col + (a + 1 - a) - IF IsLong(t) THEN 1 ELSE 0
  BY <1>2, <1>3, <1>8, <1>9, <1>10, <1>11, <1>12, <1>14
<1>16. a \in a .. Len(text) /\ \A p \in a .. a : text[p] # Newline
  BY <1>3
<1>17. fail' => a = Len(text) /\ (eof' <=> ~ (a = a /\ text[a] \in DOMAIN Short))
  BY <1>2, <1>3, <1>4
<1>18. LexemeInv'
  BY <1>1, <1>2, <1>3, <1>4, <1>7, <1>11, <1>12, <1>13, <1>15, <1>16, <1>17, Emit
<1> QED
  BY <1>4, <1>18

\* A bad piece, or the end where more was asked for, stops the tokeniser.
LEMMA Rejects ==
  ASSUME ReadInv, text' = text, tokens' = tokens, line' = line, pc' = "error",
         NEW n, NEW a, Reading(n, a),
         IF a <= Len(text) THEN IsBad(text, Piece(text, a)) ELSE EndsAskingForMore(text, Cuts(text)[n])
  PROVE  LexemeInv'
<1>1. ReadTo(text, tokens, n, a) /\ OnLine(a)
  BY DEF Reading
<1>2. Reading(n, a)'
  BY <1>1 DEF Reading, OnLine, Unread, Inside
<1> QED
  BY <1>2, PlaceRead

\* A ! that no = follows is rejected.
LEMMA LoneBangReads ==
  ASSUME ReadInv, LoneBang
  PROVE  HandInv' /\ LexemeInv'
<1>1. PICK n, a : Reading(n, a)
  BY PlaceIs DEF ReadInv
<1>2. /\ pc = "operator" /\ pc' = "error" /\ text' = text /\ UNCHANGED stream /\ line' = line
      /\ tokens' = tokens /\ lexeme[1] = "!" /\ ch # "="
  BY DEF LoneBang, InOperator
<1>3. /\ a \in 1 .. Len(text) /\ lexeme[1] = text[a]
      /\ IF fail THEN a = Len(text) /\ ch = End ELSE a + 1 \in 1 .. Len(text) /\ ch = text[a + 1]
  BY <1>1, <1>2, AtOperator
<1>4. HandInv'
  BY <1>2, StayHere DEF ReadInv, Unread, Inside
<1>5. Len(text) \in Nat
  BY TextTyped DEF ReadInv
<1>6. text[a] = "!" /\ (a = Len(text) \/ text[a + 1] # "=")
  BY <1>2, <1>3
<1>7. Piece(text, a) = << a, 0 >> /\ IsBad(text, << a, 0 >>)
  BY <1>3, <1>5, <1>6, BadPiece
<1>8. IsBad(text, Piece(text, a)) /\ a <= Len(text)
  BY <1>3, <1>7
<1>9. LexemeInv'
  BY <1>1, <1>2, <1>8, Rejects
<1> QED
  BY <1>4, <1>9

\* Something that is no lexeme, or nothing, is rejected.
LEMMA UnknownReads ==
  ASSUME ReadInv, Unknown
  PROVE  HandInv' /\ LexemeInv'
<1>1. PICK n, a : Reading(n, a)
  BY PlaceIs DEF ReadInv
<1>2. /\ pc = "loop" /\ ~ eof /\ pc' = "error" /\ text' = text /\ UNCHANGED stream /\ line' = line
      /\ tokens' = tokens /\ ch \in Others \cup {End}
  BY DEF Unknown, AtLoop
<1>3. a = Here /\ (fail => (eof <=> ~ EndsAskingForMore(text, Cuts(text)[n])))
  BY <1>1, <1>2 DEF Reading
<1>4. /\ HandInv' /\ Here \in 1 .. (Len(text) + 1)
      /\ IF fail THEN Here = Len(text) + 1 ELSE Here <= Len(text) /\ ch = text[Here]
  BY <1>2, StayHere DEF ReadInv, Unread, Inside
<1>5. Len(text) \in Nat
  BY TextTyped DEF ReadInv
<1>6. CASE fail
  <2>1. EndsAskingForMore(text, Cuts(text)[n]) /\ ~ (a <= Len(text))
    BY <1>2, <1>3, <1>4, <1>5, <1>6
  <2> QED
    BY <1>1, <1>2, <1>4, <2>1, Rejects
<1>7. CASE ~ fail
  <2>1. a \in 1 .. Len(text) /\ text[a] \in Others \cup {End}
    BY <1>2, <1>3, <1>4, <1>5, <1>7
  <2>2. Piece(text, a) = << a, 0 >> /\ IsBad(text, << a, 0 >>)
    BY <1>5, <2>1, BadPiece
  <2>3. IsBad(text, Piece(text, a)) /\ a <= Len(text)
    BY <2>1, <2>2
  <2> QED
    BY <1>1, <1>2, <1>4, <2>3, Rejects
<1> QED
  BY <1>6, <1>7

\* The loop ends where the text does.
LEMMA EndOfFileReads ==
  ASSUME ReadInv, EndOfFile
  PROVE  HandInv' /\ LexemeInv'
<1>1. PICK n, a : Reading(n, a)
  BY PlaceIs DEF ReadInv
<1>2. /\ pc = "loop" /\ eof /\ pc' = "done" /\ text' = text /\ UNCHANGED stream /\ line' = line
      /\ tokens' = tokens
  BY DEF EndOfFile
<1>3. /\ a = Here /\ (fail => (eof <=> ~ EndsAskingForMore(text, Cuts(text)[n])))
      /\ ReadTo(text, tokens, n, a) /\ OnLine(a)
  BY <1>1, <1>2 DEF Reading
<1>4. fail
  BY <1>2 DEF ReadInv, StreamInv
<1>5. HandInv' /\ a = Len(text) + 1
  BY <1>2, <1>3, <1>4, StayHere DEF ReadInv, Unread, Inside
<1>6. Reading(n, a)'
  BY <1>2, <1>3, <1>4, <1>5 DEF Reading, OnLine, Unread, Inside
<1> QED
  BY <1>2, <1>5, <1>6, PlaceRead

\* A comment begins.
LEMMA BeginCommentReads ==
  ASSUME ReadInv, BeginComment
  PROVE  HandInv' /\ LexemeInv'
<1>1. PICK n, a : Reading(n, a)
  BY PlaceIs DEF ReadInv
<1>2. /\ pc = "operator" /\ pc' = "comment" /\ text' = text /\ Get /\ line' = line /\ tokens' = tokens
      /\ lexeme[1] = "/" /\ ch = "/"
  BY DEF BeginComment, InOperator
<1>3. /\ a \in 1 .. Len(text) /\ Here = a + 1 /\ text[a] = "/" /\ text[a] # Newline
      /\ ReadTo(text, tokens, n, a) /\ OnLine(a)
  BY <1>1, <1>2, AtOperator
<1>4. ~ fail /\ a + 1 \in 1 .. Len(text) /\ text[a + 1] = "/"
  <2>1. "/" \in Operators
    BY DEF Operators, Short
  <2>2. ~ fail /\ Here \in 1 .. Len(text) /\ ch = text[Here]
    BY <1>2, <2>1, InText DEF ReadInv, Unread
  <2> QED
    BY <1>2, <1>3, <2>2
<1>5. HandInv' /\ Here' = a + 2
  <2>1. HandInv' /\ Here' = pos /\ pos = Here + 1
    BY <1>2, <1>4, GetNext DEF ReadInv, Unread
  <2> QED
    BY <1>3, <2>1
<1>6. IsComment(text, a, a + 1)
  <2>1. text[a + 1] # Newline
    BY <1>4, NewlineKinds
  <2>2. \A p \in a .. (a + 1) : p = a \/ p = a + 1
    BY <1>3
  <2> QED
    BY <1>3, <1>4, <2>1, <2>2 DEF IsComment
<1>7. Here' - 1 = a + 1
  BY <1>3, <1>5
<1>8. Reading(n, a)'
  BY <1>2, <1>3, <1>6, <1>7 DEF Reading, OnLine, Unread, Inside
<1> QED
  BY <1>2, <1>5, <1>8, PlaceRead

\* What a comment that is not finished looks like.
LEMMA AtComment ==
  ASSUME ReadInv, pc = "comment", NEW n, NEW a, Reading(n, a), NEW b, b = Here - 1
  PROVE  /\ a \in 1 .. Len(text) /\ b \in a .. Len(text) /\ Here = b + 1
         /\ IsComment(text, a, b) /\ ReadTo(text, tokens, n, a) /\ OnLine(a)
         /\ IF fail THEN b = Len(text) /\ ch = End ELSE b + 1 \in 1 .. Len(text) /\ ch = text[b + 1]
         /\ fail <=> eof
<1>1. IsComment(text, a, b) /\ ReadTo(text, tokens, n, a) /\ OnLine(a)
  BY DEF Reading
<1>2. Len(text) \in Nat
  BY TextTyped DEF ReadInv
<1>3. /\ Here \in 1 .. (Len(text) + 1)
      /\ IF fail THEN ch = End /\ Here = Len(text) + 1 ELSE Here <= Len(text) /\ ch = text[Here]
      /\ fail => eof
  BY DEF ReadInv, HandInv, Unread, Inside, Here
<1>4. a \in 1 .. (Len(text) + 1) /\ b > a
  BY <1>1 DEF ReadTo, IsComment
<1>5. a \in 1 .. Len(text) /\ b \in a .. Len(text) /\ Here = b + 1
  BY <1>2, <1>3, <1>4
<1>6. IF fail THEN b = Len(text) /\ ch = End ELSE b + 1 \in 1 .. Len(text) /\ ch = text[b + 1]
  BY <1>2, <1>3, <1>5
<1>7. fail <=> eof
  BY <1>3, Zenon DEF ReadInv, StreamInv
<1> QED
  BY <1>1, <1>5, <1>6, <1>7

\* A comment goes on.
LEMMA CommentCharReads ==
  ASSUME ReadInv, CommentChar
  PROVE  HandInv' /\ LexemeInv'
<1>1. PICK n, a : Reading(n, a)
  BY PlaceIs DEF ReadInv
<1>2. /\ pc = "comment" /\ pc' = "comment" /\ text' = text /\ Get /\ line' = line /\ tokens' = tokens
      /\ ch # Newline /\ ~ eof
  BY DEF CommentChar, CommentGoesOn
<1>3. PICK b : b = Here - 1
  OBVIOUS
<1>4. /\ a \in 1 .. Len(text) /\ b \in a .. Len(text) /\ Here = b + 1
      /\ IsComment(text, a, b) /\ ReadTo(text, tokens, n, a) /\ OnLine(a)
      /\ ~ fail /\ ch = text[b + 1]
  BY <1>1, <1>2, <1>3, AtComment
<1>5. HandInv' /\ Here' = b + 2
  <2>1. HandInv' /\ Here' = pos /\ pos = Here + 1
    BY <1>2, <1>4, GetNext DEF ReadInv, Unread
  <2> QED
    BY <1>4, <2>1
<1>6. IsComment(text, a, b + 1)
  <2>1. \A p \in a .. (b + 1) : p \in a .. b \/ p = b + 1
    BY <1>4
  <2> QED
    BY <1>2, <1>4, <2>1 DEF IsComment
<1>7. Here' - 1 = b + 1
  BY <1>4, <1>5
<1>8. Reading(n, a)'
  BY <1>2, <1>4, <1>6, <1>7 DEF Reading, OnLine, Unread, Inside
<1> QED
  BY <1>2, <1>5, <1>8, PlaceRead

\* A comment ends before the newline, which is put back, or with the text.
LEMMA EndCommentReads ==
  ASSUME ReadInv, EndComment
  PROVE  HandInv' /\ LexemeInv'
<1>1. PICK n, a : Reading(n, a)
  BY PlaceIs DEF ReadInv
<1>2. /\ pc = "comment" /\ pc' = "loop" /\ text' = text /\ UngetAndGet /\ line' = line
      /\ tokens' = tokens /\ (ch = Newline \/ eof)
  BY DEF EndComment, CommentGoesOn
<1>3. PICK b : b = Here - 1
  OBVIOUS
<1>4. /\ a \in 1 .. Len(text) /\ b \in a .. Len(text) /\ Here = b + 1
      /\ IsComment(text, a, b) /\ ReadTo(text, tokens, n, a) /\ OnLine(a)
      /\ IF fail THEN b = Len(text) /\ ch = End ELSE b + 1 \in 1 .. Len(text) /\ ch = text[b + 1]
      /\ fail <=> eof
  BY <1>1, <1>2, <1>3, AtComment
<1>5. HandInv' /\ Here' = b + 1 /\ fail' = fail /\ ~ eof'
  <2>1. HandInv' /\ Here' = Here /\ fail' = fail
    BY <1>2, StayHere DEF ReadInv, Unread, Inside
  <2> QED
    BY <1>2, <1>4, <2>1 DEF UngetAndGet
<1>6. b = Len(text) \/ text[b + 1] = Newline
  BY <1>2, <1>4
<1>7. Len(text) \in Nat
  BY TextTyped DEF ReadInv
<1>8. Piece(text, a) = << a, b >> /\ ~ IsBad(text, << a, b >>) /\ ~ IsToken(text, << a, b >>)
  BY <1>4, <1>6, <1>7, CommentPiece
<1>9. a <= Len(text)
  BY <1>4
<1>10. ReadTo(text, tokens, n + 1, b + 1)
  BY <1>4, <1>7, <1>8, <1>9, ReadBlank
<1>11. fail' => EndsAskingForMore(text, Cuts(text)[n + 1])
  <2>1. EndsAskingForMore(text, Cuts(text)[n + 1]) <=>
          b = Len(text) /\ (IsComment(text, a, b) \/ (a = b /\ text[a] \in DOMAIN Short))
    BY <1>4, <1>7, <1>8, <1>9, LastAsks
  <2> QED
    BY <1>4, <1>5, <2>1
<1>12. NewlinesBefore(text, b + 1) = NewlinesBefore(text, a)
  <2>1. a \in Nat \ {0} /\ b \in Nat /\ a <= b + 1
    BY <1>4
  <2>2. \A p \in a .. b : text[p] # Newline
    BY <1>4 DEF IsComment
  <2> QED
    BY <2>1, <2>2, SameLine
<1>13. /\ line' = Cardinality(NewlinesBefore(text, b + 1)) + 1
       /\ \A m \in DOMAIN tokens' : tokens'[m].line <= line'
  BY <1>2, <1>4, <1>12 DEF OnLine
<1>14. ~ (b + 1 <= Len(text) /\ text[b + 1] # Newline)
  BY <1>4, <1>6, <1>7
<1>15. fail' => (eof' <=> ~ EndsAskingForMore(text, Cuts(text)[n + 1]))
  BY <1>5, <1>11
<1> DEFINE c == b + 1
<1>16. c = Here' /\ ReadTo(text, tokens', n + 1, c)
  BY <1>2, <1>5, <1>10
<1>17. /\ line' = Cardinality(NewlinesBefore(text, c)) + 1
       /\ ~ (c <= Len(text) /\ text[c] # Newline)
  BY <1>13, <1>14
<1> HIDE DEF c
<1>18. LexemeInv'
  BY <1>2, <1>13, <1>15, <1>16, <1>17, Arrive
<1> QED
  BY <1>5, <1>18

\* What a word or a number that is not finished looks like.
LEMMA AtWord ==
  ASSUME ReadInv, pc \in {"word", "number"}, NEW n, NEW a, Reading(n, a), NEW b, b = Here - 1
  PROVE  /\ a \in 1 .. Len(text) /\ b \in a .. Len(text) /\ Here = b + 1
         /\ lexeme = SubSeq(text, a, b) /\ Len(lexeme) = b + 1 - a /\ InColumn(a)
         /\ pc = "word" => IsWord(text, a, b)
         /\ pc = "number" => IsDigits(text, a, b)
         /\ \A p \in a .. b : text[p] \in Letters \cup Digits
         /\ IF fail THEN b = Len(text) /\ ch = End ELSE b + 1 \in 1 .. Len(text) /\ ch = text[b + 1]
         /\ fail <=> eof
<1>1. /\ a < Here /\ lexeme = SubSeq(text, a, b) /\ InColumn(a) /\ ReadTo(text, tokens, n, a)
      /\ pc = "word" => IsWord(text, a, b)
      /\ pc = "number" => IsDigits(text, a, b)
  BY DEF Reading, Inside
<1>2. text \in Seq(Chars \cup {End}) /\ Len(text) \in Nat
  BY TextTyped DEF ReadInv
<1>3. /\ Here \in 1 .. (Len(text) + 1)
      /\ IF fail THEN ch = End /\ Here = Len(text) + 1 ELSE Here <= Len(text) /\ ch = text[Here]
      /\ fail => eof
  BY DEF ReadInv, HandInv, Unread, Inside, Here
<1>4. a \in 1 .. (Len(text) + 1)
  BY <1>1 DEF ReadTo
<1>5. a \in 1 .. Len(text) /\ b \in a .. Len(text) /\ Here = b + 1
  BY <1>1, <1>2, <1>3, <1>4
<1>6. IF fail THEN b = Len(text) /\ ch = End ELSE b + 1 \in 1 .. Len(text) /\ ch = text[b + 1]
  BY <1>2, <1>3, <1>5
<1>7. fail <=> eof
  BY <1>3, Zenon DEF ReadInv, StreamInv
<1>8. Len(lexeme) = b + 1 - a
  BY <1>1, <1>2, <1>5, SpellingGrows
<1>9. \A p \in a .. b : text[p] \in Letters \cup Digits
  BY <1>1 DEF IsWord, IsDigits, Within
<1> QED
  BY <1>1, <1>5, <1>6, <1>7, <1>8, <1>9

\* A letter or a digit more.
LEMMA WordCharReads ==
  ASSUME ReadInv, WordChar
  PROVE  HandInv' /\ LexemeInv'
<1>1. PICK n, a : Reading(n, a)
  BY PlaceIs DEF ReadInv
<1>2. /\ pc \in {"word", "number"} /\ pc' = pc /\ text' = text /\ Get /\ line' = line
      /\ tokens' = tokens /\ col' = col /\ lexeme' = Append(lexeme, ch) /\ ~ eof
      /\ pc = "word" => ch \in Letters \cup Digits
      /\ pc = "number" => ch \in Digits
  BY DEF WordChar, WordGoesOn, NumberGoesOn
<1>3. PICK b : b = Here - 1
  OBVIOUS
<1>4. /\ a \in 1 .. Len(text) /\ b \in a .. Len(text) /\ Here = b + 1
      /\ lexeme = SubSeq(text, a, b) /\ InColumn(a)
      /\ pc = "word" => IsWord(text, a, b)
      /\ pc = "number" => IsDigits(text, a, b)
      /\ ~ fail /\ b + 1 \in 1 .. Len(text) /\ ch = text[b + 1]
  BY <1>1, <1>2, <1>3, AtWord
<1>5. HandInv' /\ Here' = b + 2
  <2>1. HandInv' /\ Here' = pos /\ pos = Here + 1
    BY <1>2, <1>4, GetNext DEF ReadInv, Unread
  <2> QED
    BY <1>4, <2>1
<1>6. Here' - 1 = b + 1 /\ a < Here'
  BY <1>4, <1>5
<1>7. lexeme' = SubSeq(text, a, b + 1)
  <2>1. text \in Seq(Chars \cup {End}) /\ b \in a .. (Len(text) - 1)
    <3>1. text \in Seq(Chars \cup {End}) /\ Len(text) \in Nat
      BY TextTyped DEF ReadInv
    <3> QED
      BY <1>4, <3>1
  <2>2. SubSeq(text, a, b + 1) = Append(SubSeq(text, a, b), text[b + 1])
    BY <1>4, <2>1, SpellingGrows
  <2> QED
    BY <1>2, <1>4, <2>2
<1>8. \A p \in a .. (b + 1) : p \in a .. b \/ p = b + 1
  BY <1>4
<1>9. pc = "word" => IsWord(text, a, b + 1)
  BY <1>2, <1>4, <1>8 DEF IsWord, Within
<1>10. pc = "number" => IsDigits(text, a, b + 1)
  BY <1>2, <1>4, <1>8 DEF IsDigits, Within
<1>11. ReadTo(text, tokens, n, a) /\ OnLine(a)
  BY <1>1 DEF Reading
<1>12. ReadTo(text', tokens', n, a) /\ OnLine(a)' /\ InColumn(a)'
  BY <1>2, <1>4, <1>11 DEF OnLine, InColumn
<1>13. Reading(n, a)'
  BY <1>2, <1>6, <1>7, <1>9, <1>10, <1>12 DEF Reading, Unread, Inside
<1> QED
  BY <1>2, <1>5, <1>13, PlaceRead

\* A word or a number that ends emits no operator, on the line it begins.
LEMMA WordEnds ==
  ASSUME NEW a \in 1 .. Len(text), NEW b \in a .. Len(text), text \in Seq(Chars \cup {End}),
         \A p \in a .. b : text[p] \in Letters \cup Digits
  PROVE  /\ \A p \in a .. b : text[p] # Newline
         /\ text[a] \notin DOMAIN Short
         /\ \A t : t.value = SubSeq(text, a, b) => ~ IsLong(t)
         /\ ~ IsComment(text, a, b)
<1>1. \A c \in Letters \cup Digits : c \notin DOMAIN Short /\ c # "="
  <2>1. \A c \in Letters : c \notin DOMAIN Short
    BY LetterKinds
  <2>2. "=" \in DOMAIN Short
    BY DEF Short
  <2>3. \A c \in Digits : c \notin DOMAIN Short
    BY DEF Digits, Short
  <2> QED
    BY <2>1, <2>2, <2>3
<1>2. a \in a .. b /\ text[a] \notin DOMAIN Short
  BY <1>1
<1>3. \A p \in a .. b : text[p] # Newline
  BY NewlineKinds
<1>4. ASSUME NEW t, t.value = SubSeq(text, a, b), IsLong(t)
      PROVE  FALSE
  <2> DEFINE value == SubSeq(text, a, b)
  <2>1. Len(value) = b + 1 - a /\ (b > a => value[2] = text[a + 1])
    BY SpellingGrows
  <2> HIDE DEF value
  <2>2. Len(value) = 2 /\ value[2] = "="
    BY <1>4 DEF IsLong, value
  <2>3. b > a /\ a + 1 \in a .. b
    <3>1. b + 1 - a = 2
      BY <2>1, <2>2
    <3>2. a \in Int /\ b \in Int
      OBVIOUS
    <3> QED
      BY <3>1, <3>2
  <2> QED
    BY <1>1, <2>1, <2>2, <2>3
<1>5. ~ IsComment(text, a, b)
  <2>1. "/" \in DOMAIN Short
    BY DEF Short
  <2> QED
    BY <1>2, <2>1 DEF IsComment
<1> QED
  BY <1>2, <1>3, <1>4, <1>5

\* A word ends where no letter or digit follows.
LEMMA EndWordReads ==
  ASSUME ReadInv, EndWord
  PROVE  HandInv' /\ LexemeInv'
<1> DEFINE type == IF lexeme \in DOMAIN Keywords THEN Keywords[lexeme] ELSE "ID"
           t == Token(type, lexeme, col)
<1>1. PICK n, a : Reading(n, a)
  BY PlaceIs DEF ReadInv
<1>2. /\ pc = "word" /\ pc' = "loop" /\ text' = text /\ UNCHANGED stream /\ line' = line
      /\ tokens' = Append(tokens, t) /\ col' = col + Len(lexeme)
      /\ ch \notin Letters \cup Digits \/ eof
  BY DEF EndWord, WordGoesOn
<1>3. PICK b : b = Here - 1
  OBVIOUS
<1>4. /\ a \in 1 .. Len(text) /\ b \in a .. Len(text) /\ Here = b + 1
      /\ lexeme = SubSeq(text, a, b) /\ Len(lexeme) = b + 1 - a /\ InColumn(a)
      /\ IsWord(text, a, b)
      /\ \A p \in a .. b : text[p] \in Letters \cup Digits
      /\ IF fail THEN b = Len(text) /\ ch = End ELSE b + 1 \in 1 .. Len(text) /\ ch = text[b + 1]
      /\ fail <=> eof
  BY <1>1, <1>2, <1>3, AtWord
<1>5. HandInv' /\ Here' = b + 1 /\ fail' = fail /\ eof' = eof
  <2>1. HandInv' /\ Here' = Here /\ fail' = fail /\ eof' = eof
    BY <1>2, StayHere DEF ReadInv, Unread, Inside
  <2> QED
    BY <1>4, <2>1
<1>6. b = Len(text) \/ text[b + 1] \notin Letters \cup Digits
  BY <1>2, <1>4
<1>7. Len(text) \in Nat /\ text \in Seq(Chars \cup {End})
  BY TextTyped DEF ReadInv
<1>8. /\ Piece(text, a) = << a, b >> /\ ~ IsBad(text, << a, b >>) /\ IsToken(text, << a, b >>)
      /\ ~ IsDigits(text, a, b) /\ ~ IsSymbol(text, a, b)
  BY <1>4, <1>6, <1>7, WordPiece
<1>9. SymbolOf(text, << a, b >>) = type
  BY <1>4, <1>8, SymbolKinds
<1>10. type # "NUM" /\ type \in TokenSymbols
  BY TextAssumption DEF TokenSymbols
<1> HIDE DEF type
<1>11. /\ \A p \in a .. b : text[p] # Newline
       /\ text[a] \notin DOMAIN Short
       /\ \A u : u.value = SubSeq(text, a, b) => ~ IsLong(u)
       /\ ~ IsComment(text, a, b)
  BY <1>4, <1>7, WordEnds
<1>12. t.type = type /\ t.value = lexeme /\ t.line = line /\ t.col = col
  BY DEF Token
<1>13. t \in TokenRecord
  BY <1>10 DEF Token, TokenRecord, ReadInv, TypeOK
<1> HIDE DEF t
<1>14. ~ IsLong(t)
  BY <1>4, <1>11, <1>12
<1>15. col \in Nat
  BY DEF ReadInv, TypeOK
<1>16. /\ t.type = SymbolOf(text, << a, b >>) /\ t.value = SubSeq(text, a, b)
       /\ t.col = col + IF t.type = "NUM" THEN Len(t.value) ELSE 0
       /\ col' = col + (b + 1 - a) - IF IsLong(t) THEN 1 ELSE 0
  BY <1>2, <1>4, <1>9, <1>10, <1>12, <1>14, <1>15
<1>17. fail' => b = Len(text) /\ (eof' <=> ~ (a = b /\ text[a] \in DOMAIN Short))
  BY <1>4, <1>5, <1>11
<1>18. LexemeInv'
  BY <1>1, <1>2, <1>4, <1>5, <1>8, <1>11, <1>12, <1>13, <1>16, <1>17, Emit
<1> QED
  BY <1>5, <1>18

\* What the end of a number looks like, good or bad.
LEMMA AtNumberEnd ==
  ASSUME ReadInv, pc = "number", ~ NumberGoesOn, NEW n, NEW a, Reading(n, a), NEW b, b = Here - 1
  PROVE  /\ Piece(text, a) = << a, b >> /\ ~ IsWord(text, a, b) /\ ~ IsSymbol(text, a, b)
         /\ IsBad(text, << a, b >>) <=> ~ ValidNumber
         /\ IsToken(text, << a, b >>) <=> ValidNumber
<1>1. /\ a \in 1 .. Len(text) /\ b \in a .. Len(text)
      /\ lexeme = SubSeq(text, a, b) /\ IsDigits(text, a, b)
      /\ IF fail THEN b = Len(text) /\ ch = End ELSE b + 1 \in 1 .. Len(text) /\ ch = text[b + 1]
      /\ fail <=> eof
  BY AtWord
<1>2. b = Len(text) \/ text[b + 1] \notin Digits
  BY <1>1 DEF NumberGoesOn
<1>3. Len(text) \in Nat
  BY TextTyped DEF ReadInv
<1>4. /\ Piece(text, a) = << a, b >> /\ ~ IsWord(text, a, b) /\ ~ IsSymbol(text, a, b)
      /\ IsBad(text, << a, b >>) <=> ~ IsNumber(SubSeq(text, a, b))
      /\ IsToken(text, << a, b >>) <=> IsNumber(SubSeq(text, a, b))
  BY <1>1, <1>2, <1>3, DigitsPiece
<1>5. ValidNumber <=> IsNumber(SubSeq(text, a, b))
  BY <1>1 DEF ValidNumber, IsNumber
<1> QED
  BY <1>4, <1>5

\* A number ends where no digit follows; its token is where it ends.
LEMMA EndNumberReads ==
  ASSUME ReadInv, EndNumber
  PROVE  HandInv' /\ LexemeInv'
<1> DEFINE t == Token("NUM", lexeme, col + Len(lexeme))
<1>1. PICK n, a : Reading(n, a)
  BY PlaceIs DEF ReadInv
<1>2. /\ pc = "number" /\ pc' = "loop" /\ text' = text /\ UNCHANGED stream /\ line' = line
      /\ tokens' = Append(tokens, t) /\ col' = col + Len(lexeme)
      /\ ~ NumberGoesOn /\ ValidNumber
  BY DEF EndNumber
<1>3. PICK b : b = Here - 1
  OBVIOUS
<1>4. /\ a \in 1 .. Len(text) /\ b \in a .. Len(text) /\ Here = b + 1
      /\ lexeme = SubSeq(text, a, b) /\ Len(lexeme) = b + 1 - a /\ InColumn(a)
      /\ IsDigits(text, a, b)
      /\ \A p \in a .. b : text[p] \in Letters \cup Digits
      /\ IF fail THEN b = Len(text) /\ ch = End ELSE b + 1 \in 1 .. Len(text) /\ ch = text[b + 1]
      /\ fail <=> eof
  BY <1>1, <1>2, <1>3, AtWord
<1>5. HandInv' /\ Here' = b + 1 /\ fail' = fail /\ eof' = eof
  <2>1. HandInv' /\ Here' = Here /\ fail' = fail /\ eof' = eof
    BY <1>2, StayHere DEF ReadInv, Unread, Inside
  <2> QED
    BY <1>4, <2>1
<1>6. text \in Seq(Chars \cup {End})
  BY TextTyped DEF ReadInv
<1>7. /\ Piece(text, a) = << a, b >> /\ ~ IsBad(text, << a, b >>) /\ IsToken(text, << a, b >>)
      /\ ~ IsWord(text, a, b) /\ ~ IsSymbol(text, a, b)
  BY <1>1, <1>2, <1>3, AtNumberEnd
<1>8. SymbolOf(text, << a, b >>) = "NUM"
  BY <1>4, <1>7, SymbolKinds
<1>9. /\ \A p \in a .. b : text[p] # Newline
      /\ text[a] \notin DOMAIN Short
      /\ \A u : u.value = SubSeq(text, a, b) => ~ IsLong(u)
      /\ ~ IsComment(text, a, b)
  BY <1>4, <1>6, WordEnds
<1>10. t.type = "NUM" /\ t.value = lexeme /\ t.line = line /\ t.col = col + Len(lexeme)
  BY DEF Token
<1>11. col \in Nat /\ col + Len(lexeme) \in Nat \ {0}
  BY <1>4 DEF ReadInv, TypeOK
<1>12. t \in TokenRecord
  BY <1>11 DEF Token, TokenRecord, TokenSymbols, ReadInv, TypeOK
<1> HIDE DEF t
<1>13. ~ IsLong(t)
  BY <1>4, <1>9, <1>10
<1>14. /\ t.type = SymbolOf(text, << a, b >>) /\ t.value = SubSeq(text, a, b)
       /\ t.col = col + IF t.type = "NUM" THEN Len(t.value) ELSE 0
       /\ col' = col + (b + 1 - a) - IF IsLong(t) THEN 1 ELSE 0
  BY <1>2, <1>4, <1>8, <1>10, <1>11, <1>13
<1>15. fail' => b = Len(text) /\ (eof' <=> ~ (a = b /\ text[a] \in DOMAIN Short))
  BY <1>4, <1>5, <1>9
<1>16. LexemeInv'
  BY <1>1, <1>2, <1>4, <1>5, <1>7, <1>9, <1>10, <1>12, <1>14, <1>15, Emit
<1> QED
  BY <1>5, <1>16

\* A number with a superfluous zero, or too large, is rejected.
LEMMA BadNumberReads ==
  ASSUME ReadInv, BadNumber
  PROVE  HandInv' /\ LexemeInv'
<1>1. PICK n, a : Reading(n, a)
  BY PlaceIs DEF ReadInv
<1>2. /\ pc = "number" /\ pc' = "error" /\ text' = text /\ UNCHANGED stream /\ line' = line
      /\ tokens' = tokens /\ ~ NumberGoesOn /\ ~ ValidNumber
  BY DEF BadNumber
<1>3. PICK b : b = Here - 1
  OBVIOUS
<1>4. HandInv'
  BY <1>2, StayHere DEF ReadInv, Unread, Inside
<1>5. a \in 1 .. Len(text)
  BY <1>1, <1>2, <1>3, AtWord
<1>6. Piece(text, a) = << a, b >> /\ IsBad(text, << a, b >>)
  BY <1>1, <1>2, <1>3, AtNumberEnd
<1>7. IsBad(text, Piece(text, a)) /\ a <= Len(text)
  BY <1>5, <1>6
<1>8. LexemeInv'
  BY <1>1, <1>2, <1>7, Rejects
<1> QED
  BY <1>4, <1>8

\* A step that changes nothing.
LEMMA StutterReads ==
  ASSUME ReadInv, UNCHANGED vars
  PROVE  HandInv' /\ LexemeInv'
<1>1. PICK n, a : Reading(n, a)
  BY PlaceIs DEF ReadInv
<1>2. /\ text' = text /\ pc' = pc /\ pos' = pos /\ eof' = eof /\ fail' = fail /\ ch' = ch
      /\ lexeme' = lexeme /\ line' = line /\ col' = col /\ tokens' = tokens
  BY DEF vars, stream
<1>3. Here' = Here
  BY <1>2 DEF Here
<1>4. HandInv'
  BY <1>2, <1>3 DEF ReadInv, HandInv
<1>5. Reading(n, a)'
  BY <1>1, <1>2, <1>3 DEF Reading, OnLine, InColumn
<1> QED
  BY <1>2, <1>4, <1>5, PlaceRead

-----------------------------------------------------------------------------
(* The theorems.                                                           *)

\* Nothing was read at first.
LEMMA InitReads == Init => HandInv /\ LexemeInv
<1> SUFFICES ASSUME Init
             PROVE  HandInv /\ LexemeInv
  OBVIOUS
<1>1. /\ pc = "open" /\ pos = 1 /\ ~ eof /\ ~ fail /\ tokens = << >> /\ line = 1 /\ col = 1
      /\ text \in Texts
  BY DEF Init
<1>2. Len(text) \in Nat
  BY <1>1, TextAssumption
<1>3. HandInv
  BY <1>1 DEF HandInv, Unread, Inside
<1>4. ReadTo(text, tokens, 0, 1)
  BY <1>1, <1>2, ReadNothing
<1>5. OnLine(1)
  <2>1. NewlinesBefore(text, 1) = {}
    BY DEF NewlinesBefore
  <2> QED
    BY <1>1, <2>1, FS_EmptySet DEF OnLine
<1>6. Reading(0, 1)
  BY <1>1, <1>4, <1>5 DEF Reading, Unread, Inside
<1>7. 0 \in 0 .. Len(text) /\ 1 \in 1 .. (Len(text) + 1)
  BY <1>2
<1> QED
  BY <1>3, <1>6, <1>7 DEF LexemeInv

\* Every step reads on.
LEMMA NextReads == ReadInv /\ [Next]_vars => HandInv' /\ LexemeInv'
<1> SUFFICES ASSUME ReadInv, [Next]_vars
             PROVE  HandInv' /\ LexemeInv'
  OBVIOUS
<1>1. CASE Open \/ OpenFails
  BY <1>1, OpenReads
<1>2. CASE Space
  BY <1>2, SpaceReads
<1>3. CASE SingleToken
  BY <1>3, SingleTokenReads
<1>4. CASE Unknown
  BY <1>4, UnknownReads
<1>5. CASE EndOfFile
  BY <1>5, EndOfFileReads
<1>6. CASE BeginOperator \/ BeginWord
  BY <1>6, BeginReads
<1>7. CASE LongOperator
  BY <1>7, LongOperatorReads
<1>8. CASE ShortOperator
  BY <1>8, ShortOperatorReads
<1>9. CASE LoneBang
  BY <1>9, LoneBangReads
<1>10. CASE BeginComment
  BY <1>10, BeginCommentReads
<1>11. CASE CommentChar
  BY <1>11, CommentCharReads
<1>12. CASE EndComment
  BY <1>12, EndCommentReads
<1>13. CASE WordChar
  BY <1>13, WordCharReads
<1>14. CASE EndWord
  BY <1>14, EndWordReads
<1>15. CASE EndNumber
  BY <1>15, EndNumberReads
<1>16. CASE BadNumber
  BY <1>16, BadNumberReads
<1>17. CASE Terminated \/ UNCHANGED vars
  BY <1>17, StutterReads DEF Terminated
<1> QED
  BY <1>1, <1>2, <1>3, <1>4, <1>5, <1>6, <1>7, <1>8, <1>9, <1>10, <1>11, <1>12, <1>13, <1>14,
     <1>15, <1>16, <1>17 DEF Next, Step

\* Where the tokeniser stopped, what it has read are the tokens of the text,
\* up to the first bad piece.
LEMMA StoppedReading ==
  ASSUME ReadInv, Stopped
  PROVE  /\ Matched(text, tokens, Pieces(text))
         /\ pc = "error" <=> ~ WellFormed(text, Pieces(text)) \/ EndsAskingForMore(text, Pieces(text))
<1>1. PICK n, a : Reading(n, a)
  BY PlaceIs DEF ReadInv
<1>2. ReadTo(text, tokens, n, a) /\ Len(text) \in Nat
  BY <1>1, TextTyped DEF Reading, ReadInv
<1>3. a \in 1 .. (Len(text) + 1) /\ WellFormed(text, Cuts(text)[n]) /\ Matched(text, tokens, Cuts(text)[n])
  BY <1>2 DEF ReadTo
<1>4. CASE a <= Len(text)
  <2>1. pc = "error" /\ IsBad(text, Piece(text, a))
    <3>1. pc # "done"
      BY <1>1, <1>2, <1>4 DEF Reading
    <3>2. pc = "error"
      BY <3>1 DEF Stopped
    <3> QED
      BY <1>1, <1>4, <3>2 DEF Reading
  <2>2. /\ ~ WellFormed(text, Pieces(text))
        /\ TokensOf(text, Pieces(text)) = TokensOf(text, Cuts(text)[n])
    BY <1>2, <1>4, <2>1, ReadToBad
  <2>3. Matched(text, tokens, Pieces(text))
    BY <1>3, <2>2 DEF Matched
  <2> QED
    BY <2>1, <2>2, <2>3
<1>5. CASE ~ (a <= Len(text))
  <2>1. a = Len(text) + 1
    BY <1>2, <1>3, <1>5
  <2>2. Pieces(text) = Cuts(text)[n]
    BY <1>2, <2>1, ReadAll
  <2>3. pc = "error" <=> EndsAskingForMore(text, Cuts(text)[n])
    BY <1>1, <1>5 DEF Reading, Stopped
  <2> QED
    BY <1>3, <2>2, <2>3
<1> QED
  BY <1>4, <1>5

\* The reader is always at such a place.
LEMMA AlwaysReads == Spec => []ReadInv
<1>1. Init => ReadInv
  <2>1. Init => StreamInv
    BY DEF Init, StreamInv
  <2> QED
    BY <2>1, InitTyped, InitReads DEF ReadInv
<1>2. ReadInv /\ [Next]_vars => ReadInv'
  BY NextTyped, NextStream, NextReads DEF ReadInv
<1> QED
  BY <1>1, <1>2, PTL DEF Spec

\* Whatever was read ahead and put back, the tokens are those of the longest
\* lexemes of the file, up to its first bad one, on the lines of these.
THEOREM LongestLexemes == Spec => []ReadsLongestLexemes
<1>1. ReadInv => ReadsLongestLexemes
  <2> SUFFICES ASSUME ReadInv, Stopped
               PROVE  ReadsLongestLexemes
    BY DEF ReadsLongestLexemes
  <2> QED
    BY StoppedReading DEF ReadsLongestLexemes, Matched
<1> QED
  BY <1>1, AlwaysReads, PTL

\* A file is rejected exactly if a lexeme of it is bad, or if it ends in a
\* comment or in an operator that might have been longer.
THEOREM RejectsExactly == Spec => []RejectsBadTexts
<1>1. ReadInv => RejectsBadTexts
  BY StoppedReading DEF RejectsBadTexts
<1> QED
  BY <1>1, AlwaysReads, PTL

\* The columns of the tokens are those of their lexemes, but for one to the
\* left for each operator of two characters before, and for numbers.
THEOREM ColumnsOff == Spec => []ColumnsOffByOperators
<1>1. ReadInv => ColumnsOffByOperators
  <2> SUFFICES ASSUME ReadInv, Stopped
               PROVE  ColumnsOffByOperators
    BY DEF ColumnsOffByOperators
  <2>1. Matched(text, tokens, Pieces(text))
    BY StoppedReading
  <2>2. PICK reference : reference = TokensOf(text, Pieces(text))
    OBVIOUS
  <2>3. DOMAIN tokens = DOMAIN reference
    <3>1. PICK U : reference \in Seq(U)
      <4>1. Pieces(text) \in PieceSeq
        BY TextTyped, CutsSteps DEF ReadInv, Pieces
      <4> QED
        BY <2>2, <4>1, TokensOfSeq
    <3>2. tokens \in Seq(TokenRecord)
      BY TextTyped DEF ReadInv
    <3> QED
      BY <2>1, <2>2, <3>1, <3>2 DEF Matched
  <2> QED
    BY <2>1, <2>2, <2>3 DEF ColumnsOffByOperators, Matched
<1> QED
  BY <1>1, AlwaysReads, PTL

-----------------------------------------------------------------------------
(* The tokeniser runs out of steps.                                        *)

\* A comment in which the stream has failed is at its end: the flag that its
\* loop tests was set with the one that it does not.
CommentInv == pc = "comment" /\ fail => eof

\* What the characters are that a loop or a branch goes on with: none of them
\* is what a read at the end leaves in ch.
LEMMA NotEnd ==
  /\ End \notin Letters /\ End \notin Digits /\ End \notin Spaces \cup {Newline}
  /\ End \notin DOMAIN Single /\ End \notin Operators
<1>1. End \notin Letters
  BY TextAssumption
<1>2. End \notin Digits /\ End \notin Spaces \cup {Newline}
  BY DEF End, Digits, Spaces, Newline
<1>3. End \notin DOMAIN Single /\ End \notin Operators
  BY DEF End, Single, Operators, Short, WithEquals
<1> QED
  BY <1>1, <1>2, <1>3

\* Only an untroubled stream is read from.
LEMMA ReadsOn ==
  ASSUME TypeOK, StreamInv, CommentInv,
         \/ Space \/ SingleToken \/ BeginOperator \/ LongOperator
         \/ BeginComment \/ CommentChar \/ BeginWord \/ WordChar
  PROVE  ~ fail /\ Get
<1>1. CASE Space \/ SingleToken \/ BeginOperator \/ BeginWord
  BY <1>1, NotEnd DEF Space, SingleToken, BeginOperator, BeginWord, StreamInv
<1>2. CASE LongOperator \/ BeginComment
  <2>1. ch # End /\ Get
    BY <1>2 DEF LongOperator, BeginComment, End
  <2> QED
    BY <2>1 DEF StreamInv
<1>3. CASE CommentChar
  BY <1>3 DEF CommentChar, CommentGoesOn, CommentInv
<1>4. CASE WordChar
  BY <1>4, NotEnd DEF WordChar, WordGoesOn, NumberGoesOn, StreamInv
<1> QED
  BY <1>1, <1>2, <1>3, <1>4

\* A character less to read, or the end.
Reads == \/ pos' = pos + 1 /\ pos < Len(text) + 1 /\ fail' = fail
         \/ pos' = pos /\ ~ fail /\ fail'

\* get() on such a stream.
LEMMA GetReads ==
  ASSUME TypeOK, StreamInv, ~ fail, Get
  PROVE  Reads
<1>1. Len(text) \in Nat /\ pos \in 1 .. (Len(text) + 1)
  BY TextAssumption DEF TypeOK
<1> QED
  BY <1>1 DEF Reads, Get, StreamInv

\* Every step keeps what is known of comments.
LEMMA NextComment == TypeOK /\ StreamInv /\ CommentInv /\ [Next]_vars => CommentInv'
<1> SUFFICES ASSUME TypeOK, StreamInv, CommentInv, [Next]_vars PROVE CommentInv'
  OBVIOUS
<1>1. CASE BeginComment \/ CommentChar
  BY <1>1, ReadsOn DEF CommentInv, Get
<1>2. CASE UNCHANGED vars \/ Terminated
  BY <1>2 DEF vars, stream, Terminated, CommentInv
<1>3. CASE Space \/ SingleToken \/ Unknown \/ EndOfFile \/ Open \/ OpenFails
  BY <1>3 DEF Space, SingleToken, Unknown, EndOfFile, Open, OpenFails, AtLoop, CommentInv
<1>4. CASE BeginOperator \/ LongOperator \/ ShortOperator \/ LoneBang
  BY <1>4 DEF BeginOperator, LongOperator, ShortOperator, LoneBang, CommentInv
<1>5. CASE EndComment \/ BeginWord \/ WordChar \/ EndWord \/ EndNumber \/ BadNumber
  BY <1>5 DEF EndComment, BeginWord, WordChar, EndWord, EndNumber, BadNumber, CommentInv
<1> QED
  BY <1>1, <1>2, <1>3, <1>4, <1>5 DEF Next, Step

\* Twice what is to be read counts more than the place in the program.
LEMMA Fewer ==
  ASSUME NEW a \in Nat, NEW b \in Nat, NEW p \in 0 .. 2, NEW q \in 0 .. 2,
         \/ b + 1 = a /\ 0 < p
         \/ b = a /\ q < p
  PROVE  2 * b + q \in 0 .. ((2 * a + p) - 1)
  OBVIOUS

\* Every step, whether it reads or not, leaves less to do.
LEMMA StepForward ==
  ASSUME TypeOK, TypeOK', StreamInv, CommentInv, Step
  PROVE  StepsLeft' \in 0 .. (StepsLeft - 1)
<1>1. Len(text) \in Nat /\ pos \in 1 .. (Len(text) + 1) /\ fail \in BOOLEAN
  BY TextAssumption DEF TypeOK
<1>2. text' = text
  BY DEF Step, Open, OpenFails, Space, SingleToken, Unknown, EndOfFile, BeginOperator,
         LongOperator, ShortOperator, LoneBang, BeginComment, CommentChar, EndComment,
         BeginWord, WordChar, EndWord, EndNumber, BadNumber
<1>3. pos' \in 1 .. (Len(text) + 1) /\ fail' \in BOOLEAN
  BY <1>2, TextAssumption DEF TypeOK
<1> DEFINE ToRead == Len(text) + 1 - pos + (IF fail THEN 0 ELSE 1)
           Still == Len(text) + 1 - pos' + (IF fail' THEN 0 ELSE 1)
<1>4. ToRead \in Nat /\ Still \in Nat
  BY <1>1, <1>3
<1>5. StepsLeft = 2 * ToRead + Rank /\ StepsLeft' = 2 * Still + Rank'
  BY <1>2 DEF StepsLeft
<1>6. /\ Reads => Still + 1 = ToRead
      /\ pos' = pos /\ fail' = fail => Still = ToRead
  BY <1>1, <1>3 DEF Reads
<1> HIDE DEF ToRead, Still
<1>7. ASSUME Rank \in {1, 2}, Rank' \in {0, 1, 2},
             \/ Reads
             \/ pos' = pos /\ fail' = fail /\ Rank' < Rank
      PROVE  StepsLeft' \in 0 .. (StepsLeft - 1)
  <2>1. Rank \in 0 .. 2 /\ Rank' \in 0 .. 2 /\ 0 < Rank
    BY <1>7
  <2>2. Still + 1 = ToRead \/ (Still = ToRead /\ Rank' < Rank)
    BY <1>6, <1>7
  <2>3. 2 * Still + Rank' \in 0 .. ((2 * ToRead + Rank) - 1)
    BY <1>4, <2>1, <2>2, Fewer
  <2> QED
    BY <1>5, <2>3, Zenon
<1>8. CASE Space \/ SingleToken \/ BeginOperator \/ LongOperator \/ BeginComment \/ CommentChar
           \/ BeginWord \/ WordChar
  <2>1. Reads
    BY <1>8, ReadsOn, GetReads
  <2>2. Rank \in {1, 2} /\ Rank' \in {1, 2}
    BY <1>8 DEF Rank, Space, SingleToken, BeginOperator, LongOperator, BeginComment, CommentChar,
                BeginWord, WordChar, AtLoop, InOperator
  <2> QED
    BY <1>7, <2>1, <2>2
<1>9. CASE ShortOperator \/ EndComment \/ EndWord \/ EndNumber
  <2>1. pos' = pos /\ fail' = fail
    BY <1>9 DEF ShortOperator, EndComment, EndWord, EndNumber, UngetAndGet, stream
  <2>2. Rank = 2 /\ Rank' = 1
    BY <1>9 DEF Rank, ShortOperator, EndComment, EndWord, EndNumber, InOperator
  <2> QED
    BY <1>7, <2>1, <2>2
<1>10. CASE OpenFails \/ LoneBang \/ Unknown \/ EndOfFile \/ BadNumber
  <2>1. pos' = pos /\ fail' = fail
    BY <1>10 DEF OpenFails, LoneBang, Unknown, EndOfFile, BadNumber, stream
  <2>2. Rank \in {1, 2} /\ Rank' = 0
    BY <1>10 DEF Rank, OpenFails, LoneBang, Unknown, EndOfFile, BadNumber, AtLoop, InOperator
  <2> QED
    BY <1>7, <2>1, <2>2
<1>11. CASE Open
  <2>1. Reads \/ (pos' = pos /\ fail' = fail)
    <3>1. CASE fail
      BY <1>11, <3>1 DEF Open, Get, StreamInv
    <3>2. CASE ~ fail
      BY <1>11, <3>2, GetReads DEF Open
    <3> QED
      BY <3>1, <3>2
  <2>2. Rank = 2 /\ Rank' = 1
    BY <1>11 DEF Rank, Open
  <2> QED
    BY <1>7, <2>1, <2>2
<1> QED
  BY <1>8, <1>9, <1>10, <1>11 DEF Step

\* For every file, each step of the tokeniser takes it nearer to its end, by a
\* number that it cannot go below, also where the stream has failed and eof() is
\* false, as unget() leaves it after the last character.
THEOREM RunsOut == Spec => StepsRunOut
<1>1. TypeOK /\ StreamInv /\ CommentInv /\ [Next]_vars =>
        StepsLeft' \in 0 .. (StepsLeft - 1) \/ UNCHANGED vars
  <2> SUFFICES ASSUME TypeOK, StreamInv, CommentInv, Step
               PROVE  StepsLeft' \in 0 .. (StepsLeft - 1)
    BY DEF Next, Terminated
  <2> QED
    BY StepForward, NextTyped DEF Next
<1>2. Init => StreamInv /\ CommentInv
  BY DEF Init, StreamInv, CommentInv
<1> QED
  BY <1>1, <1>2, InitTyped, NextTyped, NextStream, NextComment, PTL DEF Spec, StepsRunOut
=============================================================================
