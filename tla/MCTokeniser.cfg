SPECIFICATION Spec
CONSTANTS
  Letters <- MCLetters
  Others <- MCOthers
  Keywords <- MCKeywords
  Texts <- MCTexts
  MaxInt = 10
  MaxLength = 4
INVARIANTS
  TypeOK
  ReadsWholeFile
  ReadsLongestLexemes
  RejectsBadTexts
  ColumnsOffByOperators
PROPERTIES
  Ends
  StepsRunOut
