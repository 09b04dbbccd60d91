----------------------------- MODULE Tokeniser ------------------------------
(***************************************************************************)
(* The tokeniser of src/tokeniser.cpp: one loop over the characters of a   *)
(* file, read through a stream whose flags it tests and resets.            *)
(*                                                                         *)
(* Every fs.get() is a step, so that a loop of the code which forgets to   *)
(* test for the end of the file would be a loop of the model.  ch is the   *)
(* last character read, End (unsigned char 255) once nothing could be.     *)
(***************************************************************************)
EXTENDS Integers, SequencesExt, TLC

CONSTANTS
  Letters,    \* what isalpha() holds for
  Others,     \* characters without a meaning
  Keywords,   \* symbols, by their spelling as a sequence of letters
  MaxInt,     \* INT32_MAX
  Texts       \* the files that are read

VARIABLES
  text,       \* the file
  pc,         \* the loop the program is in, or how it ended
  pos,        \* index of the character that the stream gives next
  eof, fail,  \* eofbit and failbit of the stream
  ch,         \* ch
  lexeme,     \* constructedToken, or the operator that was just read
  line, col,
  tokens      \* STATE._tokens

stream == << pos, eof, fail, ch >>

vars == << text, pc, stream, lexeme, line, col, tokens >>

End == "255"

Newline == "\n"

\* The blanks among isspace(); the vertical tab would be one more.
Spaces == {" ", "\t", "\r", "\f"}

Digits == {"0", "1", "2", "3", "4", "5", "6", "7", "8", "9"}

DigitValue ==
  [d \in Digits |->
    CASE d = "0" -> 0 [] d = "1" -> 1 [] d = "2" -> 2 [] d = "3" -> 3 [] d = "4" -> 4
      [] d = "5" -> 5 [] d = "6" -> 6 [] d = "7" -> 7 [] d = "8" -> 8 [] d = "9" -> 9]

\* The symbols of one character.
Single ==
  [c \in {"(", ")", "{", "}", "+", "-", "*", "%", ",", ";", "[", "]", "&"} |->
    CASE c = "(" -> "LPAREN" [] c = ")" -> "RPAREN" [] c = "{" -> "LBRACE" [] c = "}" -> "RBRACE"
      [] c = "+" -> "PLUS"   [] c = "-" -> "MINUS"  [] c = "*" -> "STAR"   [] c = "%" -> "PCT"
      [] c = "," -> "COMMA"  [] c = ";" -> "SEMI"   [] c = "[" -> "LBRACK" [] c = "]" -> "RBRACK"
      [] c = "&" -> "AMP"]

\* Those that another character may follow: their symbol without it and, the
\* character being '=', with it.
Short ==
  [c \in {"/", "=", "<", ">"} |->
    CASE c = "/" -> "SLASH" [] c = "=" -> "BECOMES" [] c = "<" -> "LT" [] c = ">" -> "GT"]

WithEquals ==
  [c \in {"=", "!", "<", ">"} |->
    CASE c = "=" -> "EQ" [] c = "!" -> "NE" [] c = "<" -> "LE" [] c = ">" -> "GE"]

Operators == DOMAIN Short \cup DOMAIN WithEquals

Token(type, value, c) == [type |-> type, col |-> c, line |-> line, value |-> value]

Number(digits) == FoldLeft(LAMBDA n, d : 10 * n + DigitValue[d], 0, digits)

\* What a text consists of.
Chars == Letters \cup Others \cup Spaces \cup Digits \cup Operators \cup DOMAIN Single \cup {Newline}

ASSUME TextAssumption ==
  /\ MaxInt \in Nat
  /\ Texts \subseteq Seq(Chars \cup {End})
  /\ \A word \in DOMAIN Keywords : Keywords[word] # "NUM"
  /\ Letters \cap (Digits \cup Spaces \cup Operators \cup DOMAIN Single \cup {Newline, End}) = {}
  /\ Others \cap (Letters \cup Digits \cup Spaces \cup Operators \cup DOMAIN Single \cup {Newline}) = {}

-----------------------------------------------------------------------------
(* The stream (std::ifstream).                                             *)

\* get(): a stream that is at its end gets both flags, one that has failed
\* before gives nothing and keeps its eofbit as it is.
Get ==
  IF ~ eof /\ ~ fail /\ pos <= Len(text)
  THEN /\ ch' = text[pos]
       /\ pos' = pos + 1
       /\ UNCHANGED << eof, fail >>
  ELSE /\ ch' = End
       /\ eof' = (eof \/ ~ fail)
       /\ fail' = TRUE
       /\ UNCHANGED pos

\* Mutant: unget() leaves the eofbit alone.
UngetAndGet_KeepsEof == UNCHANGED stream

\* Mutant: unget() without the get().
UngetAndGet_Unread ==
  /\ eof' = FALSE
  /\ pos' = IF fail THEN pos ELSE pos - 1
  /\ UNCHANGED << ch, fail >>

\* unget() and then get(): the same character once more.  But unget() clears
\* the eofbit before anything else, and a stream that has failed then gives
\* nothing back, nor does get() have another end to find.
UngetAndGet ==
  /\ eof' = FALSE
  /\ UNCHANGED << pos, ch, fail >>

-----------------------------------------------------------------------------

Init ==
  /\ text \in Texts
  /\ pc = "open"
  /\ pos = 1
  /\ eof = FALSE
  /\ fail = FALSE
  /\ ch = End
  /\ lexeme = << >>
  /\ line = 1
  /\ col = 1
  /\ tokens = << >>

Open ==
  /\ pc = "open"
  /\ pc' = "loop"
  /\ Get
  /\ UNCHANGED << text, lexeme, line, col, tokens >>

\* `could not open input file'
OpenFails ==
  /\ pc = "open"
  /\ pc' = "unopened"
  /\ UNCHANGED << text, stream, lexeme, line, col, tokens >>

\* The head of the loop.
AtLoop == pc = "loop" /\ ~ eof

\* Mutant: columns begin with 0.
Space_ColumnZero ==
  /\ AtLoop
  /\ \/ ch \in Spaces /\ col' = col + 1 /\ UNCHANGED line
     \/ ch = Newline /\ col' = 0 /\ line' = line + 1
  /\ Get
  /\ UNCHANGED << text, pc, lexeme, tokens >>

Space ==
  /\ AtLoop
  /\ \/ ch \in Spaces /\ col' = col + 1 /\ UNCHANGED line
     \/ ch = Newline /\ col' = 1 /\ line' = line + 1
  /\ Get
  /\ UNCHANGED << text, pc, lexeme, tokens >>

SingleToken ==
  /\ AtLoop
  /\ ch \in DOMAIN Single
  /\ tokens' = Append(tokens, Token(Single[ch], << ch >>, col))
  /\ col' = col + 1
  /\ Get
  /\ UNCHANGED << text, pc, lexeme, line >>

\* A character that says too little: the next one is needed.
BeginOperator ==
  /\ AtLoop
  /\ ch \in Operators
  /\ pc' = "operator"
  /\ lexeme' = << ch >>
  /\ Get
  /\ UNCHANGED << text, line, col, tokens >>

InOperator(chars) == pc = "operator" /\ lexeme[1] \in chars

\* An operator of two characters; col moves on by one.
LongOperator ==
  /\ InOperator(DOMAIN WithEquals)
  /\ ch = "="
  /\ tokens' = Append(tokens, Token(WithEquals[lexeme[1]], Append(lexeme, ch), col))
  /\ pc' = "loop"
  /\ lexeme' = << >>
  /\ col' = col + 1
  /\ Get
  /\ UNCHANGED << text, line >>

ShortOperator ==
  /\ InOperator(DOMAIN Short)
  /\ ch # IF lexeme[1] = "/" THEN "/" ELSE "="
  /\ tokens' = Append(tokens, Token(Short[lexeme[1]], lexeme, col))
  /\ pc' = "loop"
  /\ lexeme' = << >>
  /\ col' = col + 1
  /\ UngetAndGet
  /\ UNCHANGED << text, line >>

\* `invalid token'
LoneBang ==
  /\ InOperator({"!"})
  /\ ch # "="
  /\ pc' = "error"
  /\ UNCHANGED << text, stream, lexeme, line, col, tokens >>

BeginComment ==
  /\ InOperator({"/"})
  /\ ch = "/"
  /\ pc' = "comment"
  /\ lexeme' = << >>
  /\ Get
  /\ UNCHANGED << text, line, col, tokens >>

\* Mutant: the end of the file does not end a comment.
CommentGoesOn_PastTheEnd == ch # Newline

CommentGoesOn == ch # Newline /\ ~ eof

CommentChar ==
  /\ pc = "comment"
  /\ CommentGoesOn
  /\ Get
  /\ UNCHANGED << text, pc, lexeme, line, col, tokens >>

EndComment ==
  /\ pc = "comment"
  /\ ~ CommentGoesOn
  /\ pc' = "loop"
  /\ col' = col + 1
  /\ UngetAndGet
  /\ UNCHANGED << text, lexeme, line, tokens >>

\* Mutant: a digit ends a word.
WordGoesOn_Letters == ch \in Letters /\ ~ eof

WordGoesOn == ch \in Letters \cup Digits /\ ~ eof

NumberGoesOn == ch \in Digits /\ ~ eof

BeginWord ==
  /\ AtLoop
  /\ \/ ch \in Letters /\ pc' = "word"
     \/ ch \in Digits /\ pc' = "number"
  /\ lexeme' = << ch >>
  /\ Get
  /\ UNCHANGED << text, line, col, tokens >>

WordChar ==
  /\ \/ pc = "word" /\ WordGoesOn
     \/ pc = "number" /\ NumberGoesOn
  /\ lexeme' = Append(lexeme, ch)
  /\ Get
  /\ UNCHANGED << text, pc, line, col, tokens >>

\* Mutant: a word is as wide as a character.
EndWord_OneColumn ==
  /\ pc = "word"
  /\ ~ WordGoesOn
  /\ tokens' = Append(tokens, Token(IF lexeme \in DOMAIN Keywords THEN Keywords[lexeme] ELSE "ID", lexeme, col))
  /\ pc' = "loop"
  /\ lexeme' = << >>
  /\ col' = col + 1
  /\ UNCHANGED << text, stream, line >>

\* The character after a word is not read again: it waits in ch.
EndWord ==
  /\ pc = "word"
  /\ ~ WordGoesOn
  /\ tokens' = Append(tokens, Token(IF lexeme \in DOMAIN Keywords THEN Keywords[lexeme] ELSE "ID", lexeme, col))
  /\ pc' = "loop"
  /\ lexeme' = << >>
  /\ col' = col + Len(lexeme)
  /\ UNCHANGED << text, stream, line >>

ValidNumber == (Len(lexeme) > 1 => lexeme[1] # "0") /\ Number(lexeme) <= MaxInt

\* The token gets the column after its last digit.
EndNumber ==
  /\ pc = "number"
  /\ ~ NumberGoesOn
  /\ ValidNumber
  /\ tokens' = Append(tokens, Token("NUM", lexeme, col + Len(lexeme)))
  /\ pc' = "loop"
  /\ lexeme' = << >>
  /\ col' = col + Len(lexeme)
  /\ UNCHANGED << text, stream, line >>

\* `number cannot start with zero', `exceeds the maximum allowed limit', or
\* what std::stol() throws.
BadNumber ==
  /\ pc = "number"
  /\ ~ NumberGoesOn
  /\ ~ ValidNumber
  /\ pc' = "error"
  /\ UNCHANGED << text, stream, lexeme, line, col, tokens >>

\* `unknown token'
Unknown ==
  /\ AtLoop
  /\ ch \in Others \cup {End}
  /\ pc' = "error"
  /\ UNCHANGED << text, stream, lexeme, line, col, tokens >>

\* Mutant: the loop ends when there is no next character, though ch waits.
EndOfFile_Peeks ==
  /\ pc = "loop"
  /\ pos > Len(text)
  /\ pc' = "done"
  /\ UNCHANGED << text, stream, lexeme, line, col, tokens >>

EndOfFile ==
  /\ pc = "loop"
  /\ eof
  /\ pc' = "done"
  /\ UNCHANGED << text, stream, lexeme, line, col, tokens >>

Step ==
  \/ Open \/ OpenFails
  \/ Space \/ SingleToken \/ Unknown \/ EndOfFile
  \/ BeginOperator \/ LongOperator \/ ShortOperator \/ LoneBang
  \/ BeginComment \/ CommentChar \/ EndComment
  \/ BeginWord \/ WordChar \/ EndWord \/ EndNumber \/ BadNumber

Terminated == pc \in {"done", "error", "unopened"} /\ UNCHANGED vars

Next == Step \/ Terminated

Spec == Init /\ [][Next]_vars /\ WF_vars(Next)

-----------------------------------------------------------------------------
(* Properties of the loop.                                                 *)

TokenSymbols ==
  { Single[c] : c \in DOMAIN Single } \cup { Short[c] : c \in DOMAIN Short } \cup
  { WithEquals[c] : c \in DOMAIN WithEquals } \cup { Keywords[w] : w \in DOMAIN Keywords } \cup {"ID", "NUM"}

\* Types of the variables.
TypeOK ==
  /\ text \in Texts
  /\ pc \in {"open", "loop", "operator", "comment", "word", "number", "done", "error", "unopened"}
  /\ pos \in 1 .. (Len(text) + 1)
  /\ eof \in BOOLEAN /\ fail \in BOOLEAN
  /\ ch \in Chars \cup {End}
  /\ lexeme \in Seq(Chars)
  /\ line \in Nat \ {0} /\ col \in Nat \ {0}
  /\ tokens \in Seq([type : TokenSymbols, col : Nat \ {0}, line : Nat \ {0}, value : Seq(Chars)])

\* Neither does the tokeniser come to its end, nor the stream into the state in
\* which it gives nothing more, while a character is still to be read or waits
\* in ch: no part of a file is dropped in silence.
ReadsWholeFile == pc = "done" \/ fail => pos = Len(text) + 1 /\ ch = End

\* Whatever the file, the loop ends, also from the state that unget() leaves
\* after the last character: failed, but not at the end.
Ends == <>(pc \in {"done", "error", "unopened"})

\* What the place in the program is worth: a lexeme is followed by the loop.
Rank == CASE pc \in {"open", "operator", "comment", "word", "number"} -> 2
          [] pc = "loop" -> 1
          [] pc \in {"done", "error", "unopened"} -> 0

\* What is there to read, the end included, counts twice.
StepsLeft == 2 * ((Len(text) + 1 - pos) + (IF fail THEN 0 ELSE 1)) + Rank

\* No step leaves as much to do as there was, whatever the flags of the stream:
\* on every file the tokeniser is through after as many steps as StepsLeft says
\* at first.
StepsRunOut == [][StepsLeft' \in 0 .. (StepsLeft - 1)]_vars
=============================================================================
