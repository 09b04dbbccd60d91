# A formal model of wlp4c

`wlp4c` compiles WLP4, a small C-like teaching language, to a native executable
by way of LLVM. This directory models it in TLA+: from the characters of a
program to its syntax trees, from the trees to the basic blocks of the generated
module and on to what the executable prints and returns, and the last stage of
the compiler, in which several processes share a directory. TLC checks the
modules on small instances; for all values of their constants TLAPS proves that
the tokeniser reads the longest lexemes, that the recogniser implements Earley's
rules, that its verdict is right and its final chart as the parser expects it,
that the parser's functions return or throw whatever it is given, that none of
the three has infinitely many steps to make, and invariants of the code generator
and the compile driver.

## 1. The system

`main()` (`wlp4c.cpp`) runs five stages one after the other in one process.
They communicate through a singleton, `State` (`STATE`), and through the global
rule table `CFG`; an exception in any of them ends the program with a message.

| Part | State it keeps | Operations | Hands on |
|---|---|---|---|
| Tokeniser (`tokeniser.cpp`) | stream, line, column | `tokenise()` | `STATE._tokens` |
| Grammar (`state.cpp` 35-93, `symbol.hpp`, `elem.cpp`) | `CFG`, 49 rules | `isComplete`, `nextSymbol` | rules, by index |
| Recogniser (`recogniser.cpp`) | `_chart`, one list of Earley elements per token; `_nullable` | `recognise` and its handlers `predictor`, `scanner`, `completer`; `addToChart`; `populateFinalChart` | the complete elements, in `STATE._chart` |
| Parser (`parser.cpp`, `ast/*.cpp`) | `_elemIdx`, `_currProcedureName`, `procedureNames`, `procedureArgsNum`, `STATE._dclsMap` | `parse()`: a walk for the symbol table, then one that builds procedures; `parseX()` for each symbol; `type()` of the trees | `STATE._procedures` |
| Code generator (`codegen.cpp`, the loop of `main()`) | `Builder` with its insertion point, `dclSymbolTable`, the LLVM module | `codegen()` of each tree, which call one another | the module |
| Executable (LLVM, libc, `embedded_wain.hpp`) | memory, output | `wain()` as generated, called by the C `main()` | what is printed, the exit status |
| Compile driver (`state.cpp` 149-184) | a directory, `<tmp>/wlp4_tmp` | `compile()`, `emitLLVM()` | an executable, or a `.ll` file |

What is hard here:

* **The chart grows while it is walked.** `completer()` loops over a list and
  over the list its elements started in, which may be the same list, and adds
  to it; `scanner()` iterates with a range-for while adding to the chart. That
  these loops end, read no freed memory, index nothing that is not there, and
  still see every element they must, is not visible in any one of them.
* **The parser has no parse tree.** It gets only the list of all complete
  elements, those of abandoned derivations included, and takes the *nearest*
  one with the symbol wanted, walking backwards. `addToFinalChart()` removes
  one kind of misleading element by popping whatever was added last.
* **Nothing is re-checked.** `parseDcl()` reads its type from the element
  before, and the offset of a value is counted in tokens, on the strength of
  the order in which the chart was filled.
* **A text may end too early.** Whatever the recogniser lets through reaches
  code that assumes whole procedures.
* **One insertion point serves all calls of `codegen()`.** An `if` moves it back
  to the block of its test and to the end of its first list after statements
  nested to any depth have moved it; a `while` takes it for granted that the
  block it finds is empty. Nothing asks LLVM to verify the module.
* **Operands have effects on one another**, and are generated right to left,
  left to right, or as arguments of one C++ call.
* **The static type decides, the value is used**: where `type()` and the type of
  the register disagree, an assertion of LLVM's fails or worse.
* **The temporary directory is shared** by every process that runs `compile()`.

What makes each part correct: the tokeniser splits the text into the longest
tokens and gives their places; the recogniser accepts the language, adds only
what Earley's rules allow, and terminates within its data; the final chart is
one the parser can read; the parser rebuilds the program as written and
enforces the static semantics; the generated code computes what the tree means;
a successful compilation's output comes from its own input.

## 2. The modules

| Module | Models |
|---|---|
| `Grammar` | A grammar as `CONSTANT`s, the elements of `elem.hpp`, `Nullable` |
| `WLP4Grammar` | The symbols of `symbol.hpp` and the 49 rules, in order |
| `Recogniser` | `recogniser.cpp`, and `addToFinalChart()` of `State` |
| `FinalChart` | What the parser takes for granted in the final chart, and for which grammars |
| `Deduction` | Abstract: Earley's rules of inference, with no algorithm |
| `CFGReference` | Reference: sentence and prefix of a sentence, from spans |
| `Tokeniser` | `tokeniser.cpp` |
| `LexicalReference` | Reference: the longest lexemes of a text and their places |
| `Parser` | `parser.cpp`, `type()` and `validateName()` of the trees, `_dclsMap` |
| `Frontend` | `main()`: the parser once the recogniser has accepted |
| `WLP4Source` | Reference: programs as trees, their text, the static semantics |
| `SyntaxTree` | The trees of `src/ast` and `type()` of sums, differences and products, for parser and generator |
| `Codegen` | `codegen.cpp` and the loop of `main()` over the procedures |
| `Machine` | External: LLVM's instructions, `printf`, `malloc`, `free`, and the C `main()` of `embedded_wain.hpp` |
| `Execution` | Composition: the generator, then a run of what it generated |
| `Meaning` | Reference: what a tree means, read as C++, with no instruction in it |
| `CodegenSources` | Programs for the generator |
| `CompileDriver` | `State::compile()` in several processes |
| `MCTokeniser`, `MCRecogniser`, `MCFrontend`, `MCCodegen`, `MCCompileDriver` | Instances for TLC |
| `Induction` | Lemmas: induction over numbers, recursive functions, chains of finite sets |
| `TokeniserProofs`, `RecogniserProofs`, `FinalChartProofs`, `FrontendProofs`, `CodegenProofs`, `CodegenOrderProofs`, `CompileDriverProofs` | Theorems and proofs |

**Tokeniser.** One step per `fs.get()`, or per pair of `unget()` and `get()`.
`pos`, `eof` and `fail` are the stream's position and flags, `ch` the variable
of that name (`End` for what a read at the end leaves in it, 255), `pc` the
loop or branch. `UngetAndGet` follows the C++ library: `unget()` clears
`eofbit` and does nothing more on a stream that has failed. The strings
`identifier` and `number` are the `lexeme`. `LexicalReference` cuts a text into
pieces without a stream: each is the longest lexeme that begins where the last
one ended.

**Recogniser.** `chart[k + 1]` is `_chart[k]`; `i` is the index of the list that
`recognise()` walks, `j` of the element in it, counted from 1. `pc` names the
loop the program is in. An iteration that reaches `addToChart()` is one step
(`PredictRule`, `ScanElem`, `CompleteElem`, `PopulateElem`), and iterations that
do nothing are skipped to the first that does something. Each call and return
is a step of its own, so that every point at which a list can have changed
under a loop is a state. `Deduction` knows only facts "element `el` is in list
`at`" and lets them grow by any that follow: the refinement mapping is
`word <- tokens, facts <- ChartFacts`.

**Parser.** One action per branch of the two loops of `parse()`: `Symbol...` in
the first, `Build...` in the second. What a branch calls is evaluated by the
recursive function `parse` over symbols and indices, whose cases are operators
named for the C++ functions (`ParseExpr`, `ParseTerm`, ...); each takes the
results for smaller indices and returns the tree, what its `type()` gives and the
index after it, -1 standing for an exception. The loops that collect declarations
are the functions `parseDclsLoop` and `parseParamsLoop`. `elemIdx` is `_elemIdx + 1`. A tree is a record with a form, a name
and its children. `NullProcedure` is the dereference of a `proc` that is still
null, undefined behaviour in the code; the model stops in `"crash"`, which it does only on
a text whose braces do not close (`CrashesOnlyCutShort`). An
exception stops the model in `"error"`: nothing reads the state after it.
`std::stoi()` in `parseFactor()` cannot throw, since the tokeniser rejects
numbers above `INT32_MAX`.

**Code generator.** The `codegen()` functions recur along the trees. `stack` holds
the calls that have not returned, a frame each, with the local variables that
live across another call: `BB`, `bodyBB` (`trueBB` or `whileBB`), `lastTrueBB`,
`falseBB`, the index `n` of the loop over a list, and `done`, the values that
operands have returned. A step is what a call does up to its next call of
`codegen()` or its return: `GenerateOperand` makes a call, `Add`, `LoadVariable`
and so on create the instruction and return, `GenerateTest`, `BeginBody`,
`BeginElse`, `EndIf`, `EndWhile` are what lies between the calls of an
`IfStatement` or `WhileStatement`, and `Procedure`, `GenerateReturnExpr`,
`CreateRet` those of a `Procedure`. `at` is `Builder`'s block. Where C++ does not
say which argument comes first (`Due`), the model takes either. A value is a
constant or the number of a register, with its type; `WellTyped` is what LLVM
asserts of operands, and where it does not hold the model stops in `"ill"`. The
`std::stoi()` of an initial value may throw: `"error"`. `type` is a recursive
function over the set `Trees`, so that the module can be proved about.

**Machine.** One instruction is a step, `calls` the stack of activations. An int
has six bits here (`Half` is 32, standing for 2^31) and wraps; what LLVM calls
poison or undefined (an inexact quotient, a division by zero, a load of memory
that was freed or never written) ends in `"undefined"`. A procedure whose name C
has a use for is found by the linker: `"clash"`, or the wrong function is called.

**Meaning** evaluates the trees as C++ has it, with objects and offsets instead
of addresses; it follows all orders of evaluation, so that a program has a set
of outcomes, and the generated code must have one of them. A program that C++
leaves undefined for an input, or would not compile, may do anything.

**Hand-over.** What the parser leaves in `procedures` is, for the programs of
`MCFrontend` without calls on the right, exactly `ParsedProgram(Source)`; the
generator starts from `ParsedProgram` of the programs in `CodegenSources`, which
are of the same form and can be given to `MCFrontend` as `Sources`.

**Compile driver.** Each process runs `compile()` one file system call at a time;
`pc` is the call it is about to make, or `"exit"` (`main()` returns 0),
`"error"` (it returns -1) or `"crashed"`. `remove_all()` deletes the files, one a
step (`Clear`), and then the directory (`RemoveDir`). A directory is named by the process
that made it, so that a current directory (`cwd`) and the directory now at
`wlp4_tmp` (`dir`) can differ, and an open file (`fd`) and the file now of that
name likewise. What a file holds is the set of processes, or of `wain()`
templates, that wrote to it. The C compiler reads `main.c`, then links
`prog.o`; it may fail of itself if `CompilerFails`. Among the reasons that it has
of its own is a last procedure that is not `wain()`, which `main.c` calls. Two
variables are histories: `met`, the processes that were in `compile()` while
another was, and `ccFailed`, those whose C compiler failed of itself.

**Mutants.** A definition whose comment begins with "Mutant" is not part of the
model. It is a faulty variant of the definition after it: with it in place, TLC
must find the property that `PROJECT.json` names violated.

## 3. What TLC checks

| Run | Question | Bounds |
|---|---|---|
| `MCRecogniser.cfg` | Types; no duplicates; all indices in range; walked lists frozen; refinement of `Deduction`; every sentence accepted; exactly the prefixes of sentences accepted; each step leaves fewer; termination | 11 rules, 7 terminals, all words of at most 4 tokens |
| `MCTokeniser.cfg` | Types (the stream is not read outside the file); all of the text is read; tokens are the longest lexemes; exactly the bad texts and those that end asking for more are rejected; columns are off by a known amount; each step leaves fewer; termination | 11 characters, all texts of at most 4; numbers up to 10 |
| `MCTokeniserEndOfFile.cfg` | Is every text of good lexemes accepted? **No** | same |
| `MCFrontend.cfg` | Types; the final chart drops exactly the shadowed types; a type before each declaration; where the parser's offsets look for names there are names, for an initial value the value or, if it does not fit the type, the token next to it; parameters counted; the trees are the program's, with every static check; of a program that is cut off only whole procedures are read; every iteration moves on; a null procedure is used only on a text whose braces do not close | WLP4's grammar, 64 programs, and all prefixes of two of them |
| `MCFrontendCrash.cfg` | Does `main()` always end in a result or a message? **No** | same |
| `MCFrontendCalls.cfg` | Is a call read correctly wherever it stands? **No** | two programs |
| `MCFrontendParams.cfg` | Are parameters in the order of the text? **No** | one program |
| `MCCodegen.cfg` | Types; every block has one terminator, at its end, and branches stay in their function; lists of statements begin blocks; registers are defined before they are used; the executable prints and returns what the program means, but for five constructs; compiler and executable end | 50 programs, three or four inputs each, ints of six bits |
| `MCCodegenAddress.cfg` | Does `&` give an address? **No** | four programs |
| `MCCompileDriver.cfg` | Types; a process that is alone makes its own executable; not all end in an error; if all come away without an executable, one reports an error | 3 processes, each with any `wain()`, killed at any point, with a C compiler that may fail |
| `MCCompileDriverOwn.cfg` | Is an executable made of its own program? **No** | 3 processes, C compiler never fails |
| `MCCompileDriverExit.cfg` | Does a result of 0 mean an executable? **No** | same |

*Why the bounds are enough.* The cut-down grammar of `MCRecogniser` has the rule
shapes of WLP4 that interact with the algorithm: two nullable left-recursive
lists next to each other, left-recursive operators, an `ID` that may begin a
call, brackets. Four tokens suffice for an expression with an operator, for a
statement after a declaration, and for each to be wrong at any place. Reference
and recogniser share no definition beyond the grammar. In `MCFrontend` the
programs are written as trees; between them they use every rule of WLP4 and
pass and fail every check of `parser.cpp`. `ValidProgram` states the static
semantics over the tree, without chart or order of evaluation. In `MCCodegen`
the programs have every form of tree, `if` and `while` nested in each other and
among other statements, operands with effects on one another, recursion, and the
constructs that LLVM would reject; six bits make the wrap-around and an array of
"2^32" bytes happen within reach (an int has four bytes there too). In `MCTokeniser`
four characters hold an operator of two, a comment or a word, with a character
before or after it; the digits and `MaxInt` make `std::stoi()`'s limit and the
leading zero happen. Three processes in `MCCompileDriver` are two that overlap
and one that has left, or will leave, something behind; they are alike, hence
the symmetry.

*Fairness.* `Spec` of `Tokeniser` and of `Recogniser` has weak fairness of
`Next`: a single thread that runs until it stops. Nothing else is assumed.
`ExecSpec` of `Execution` likewise assumes weak fairness of a step of the
generator or of the executable: both are single threads, and the programs of
`CodegenSources` all end by what they mean, so that `Ends` rules out a branch
that makes them loop. `CompileDriver` has none: processes may stop anywhere. `FrontSpec` has no fairness:
that the parser's loops end is `MovesOn`, each iteration ends at an index before
the one it began with, together with the absence of deadlock.

*The runs expected to fail* record disagreements between the code and its
own words:

1. `recognise()` compares the number of lists with the number of tokens and
   never looks for a complete start rule: it accepts every beginning of a
   program, the empty text included. Such a text makes `parse()` use a null
   `proc` (a segmentation fault) if it is cut off inside a procedure, or leaves a
   null procedure in the list, of which `main()` calls `codegen()`. No text whose
   braces close does either, a program least of all (`CrashesOnlyCutShort`, section
   4, whose `UsesNull` is both). `ReadsWholeProcedures` is about the procedures of
   the list that are not null.
2. In `a + f(a)` the element `factor -> ID` of the bare name `f` is nearer than
   that of `a`; the walk takes it for the left operand and the program is
   rejected, or silently misread if a variable has that name.
   `ReadsAsWrittenButCalls` shows that there is no other such case among the
   programs checked.
3. `addParam()` appends while walking backwards: parameters of procedures other
   than `wain()` are reversed.
4. `factor -> AMP lvalue` loads from the address it should return, so that `&a`
   is the value of `a`, with the static type of a pointer. For most programs an
   assertion of LLVM's fails.
5. After `unget()` at the end of the file the stream is failed but not `eof()`,
   and the tokeniser rejects a character 255 that the file does not contain:
   so end files whose last line is a comment without a newline, or ends in
   one of `/ = < >`. The trace has an operator at the end; in a comment it is the
   same `unget()`.
6. Processes that overlap delete one another's directory and link one
   another's `prog.o` or `main.c`: an executable may be of another program.
7. `compile()` ignores a `main.c` that it cannot open and the result of
   `std::system()`: `main()` returns 0 and there is no executable. Two processes
   can both come away without one in this way: `p` writes `prog.o`; `q`, which has
   found the directory, deletes it; `p` opens `main.c`, so that `q` cannot remove
   the directory and reports an error; `p`'s linker finds no `prog.o`, and `main()`
   returns 0. That is why `NotAllError` promises an exit that is no error and not an
   executable, and why `FailureOfAllShows` is stated: where no `main()` reports an
   error, some process has its executable.

`ComputesAsWrittenBut`, which holds, names four more constructs for which the
executable does not do what the program means: a difference of pointers, which
is computed as an exact *quotient* of the addresses; a call with several
arguments, since parameters are reversed (3) and arguments are not; an array of
2^32 bytes or more, whose size is computed in 32 bits; a procedure with a name
that the module, libc or the C `main()` uses (`printf`, `malloc`, `free`,
`main`), if no procedure before it has used that name: otherwise it is this
procedure that is renamed, and all is well, which the property covers.
`CodegenSources` has each of them under its name. The property says nothing of
programs with one of the five; what becomes of them is seen in the model's runs only.
`ColumnsOffByOperators`, which holds, records one more: a number's column is the
one after it, and an operator of two characters counts as one column.

## 4. What TLAPS proves

**Recogniser.** For every grammar that satisfies `GrammarAssumption` (terminals and
nonterminals are disjoint, the rules use both, there is one) and every set of
programs that are sequences of tokens (`ProgramsAssumption`):

* `TypeCorrect`: `Spec => []TypeOK`;
* `InBounds`: `Spec => []ChartInBounds`, no unchecked index is out of range;
* `Distinct`: `Spec => []NoDuplicates`;
* `Frozen`: `Spec => WalkedListsFrozen`;
* `Refinement`: `Spec => FollowsTheRules`, the recogniser implements `Deduction`.

The inductive invariant is `IInv == TypeOK /\ ChartInBounds /\ NoDuplicates /\
HandlerInv`. `HandlerInv` says what a handler knows of the element it was called
for (it is incomplete and the symbol after its dot is of the handler's kind),
without which `predictor()` could not be shown to advance the dot inside the
rule. `ChartInBounds` is needed for types, since list `k + 1` can only be
appended when list `k` is the last. The proofs go by handler: `AddToChartGrows`
says what `addToChart()` does to a chart, `PredictRuleGrows`, `ScanElemGrows`
and `CompleteElemGrows` what an iteration does, `SameChartStep` covers the
steps that leave the chart alone, and `NextInv` puts them together. The
refinement shows that every step that adds an element adds a fact that follows
by one of the four rules, and that all other steps stutter.

If, moreover, the start symbol has one rule, the first (`StartAssumption`: the
code starts with no other), and a rule that is not empty has a symbol that is not
nullable (`NullableAssumption`: `_nullable` marks only symbols with an empty rule of
their own), as holds for WLP4's rules (`MCFrontend` evaluates both for them):

* `AcceptsSentences`: `Spec => []AcceptsEverySentence`, no sentence is rejected;
* `ExactVerdict`: `Spec => []AcceptsViablePrefixes`, accepted are exactly the
  inputs with which a sentence can begin.

And for every grammar that satisfies `GrammarAssumption` again:

* `RunsOut`: `Spec => StepsRunOut`, every step that changes anything lowers
  `StepsLeft`, a natural number.

`StepsLeft` weighs how far the four nested loops have to go, the outermost most.
How long the inner lists become is not known while they are walked; but no list is
longer than there are elements it could hold (`PossibleElems`: rule, start and
dot), since none holds one twice (`ListsBounded`, from `NoDuplicates`), and so no
loop makes more than `Round` rounds (`StaysWithin`). `StepsForward` proves it of
every `Step`, none of which is a stutter therefore.

`CFGReference` defines the language without elements: the least relation between
a nonterminal and the spans of the input it derives, as the last of a growing
chain of sets. That the chart holds *no more* is the invariant `Sound`: each
fact of it is derivable, which each of Earley's rules keeps
(`FollowsDerivable`); it uses the refinement. That it holds *no less* is the
invariant `Complete`: every element before the one at hand has been dealt with
(`Processed`: predicted from, scanned or advanced over whatever is complete), and
while a handler runs, as far as the handler has come. `completer()` dealing with
a list that still grows, and a nullable symbol being skipped at once instead of
completed, are where this could fail. From a complete chart that was walked to
its end every derivation follows, by induction over the stages of the spans
(`StagesCovered`) and over what a derivation begins with (`StagesReached`).

**Final chart.** For every grammar that also has WLP4's form of types and
declarations (`TypesAssumption`: a type is `INT` or `INT STAR` and begins only a
`dcl`, which ends with an `ID`; any other `INT` is followed by a terminal that is
not a `STAR` and is not the last of its rule; `MCFrontend` evaluates it for the 49
rules):

* `DropsOnlyShadowed`: `Spec => []DropsShadowedTypes`;
* `TypesPrecede`: `Spec => []TypeBeforeDcl`;
* `ReadsAtOffsets`: `Spec => []TokensAtOffsets`, for grammars with WLP4's lists of
  declarations (`DclsAssumption`). Of the tokens that the parser reads by their
  distance from where an element starts, the first to third, and the `ID` of a
  declaration, are of the kind it takes them for. An initial value is read as the
  fourth or fifth token after the start of its declaration according to *its own*
  kind, although its place depends on the declaration's type: it is the value
  if it is a `NUM` for an `INT` or a `NULL` for an `INT STAR`, and otherwise
  (`int* p = 5;`, `int a = NULL;`, which nothing forbids) the `BECOMES` or the `SEMI`
  next to it. `InitialValueRead` says which.

All three are about the end of `populateFinalChart()`, and follow from what holds all
along. `Shapes` says which elements can be in a list after an `INT` and after an
`INT STAR`: besides the type only the declaration that it begins, so that a
complete type is the only complete element of its list (`OnlyTypePlace`).
`ScannedFirst` says that a list begins with what the scanner put there, hence that
a declaration comes before all other complete elements of its list; it is an
invariant of three nested loops, since the scanner runs once for *each* element
that expects a terminal. That the list before that of an `INT STAR` has the type
of its `INT` (`BeforePointer`) needs `Complete`: a type expected at a place is
predicted with both its rules. `Populating` is the invariant of the loop itself:
`finalChart` lists what is to be kept of the places seen so far, in order, one by
one (`Listing`). An element is added to it (`KeptAdds`, `ListingGrows`), or takes
the place of the one kept last, which is the type it shadows (`KeptReplaces`,
`ListingShrinks`). For `TokensAtOffsets` `Shapes` also says that the terminals a rule begins with,
as far as the dot has come, are the tokens from where the element starts
(`ReadsLiterals`); and the `ID` of a declaration comes after a type of that
length which is the one before it in the final chart (`IdEndsDcl`). As to initial
values, `Shapes` has that a list of declarations which is past its `dcl` is so after
a complete `dcl` that starts where it says (`HasDcl`). That the walk goes to this `dcl`
and no other (`GoesToDcl`) is a matter of ranks in the final chart: of all places
of a complete `dcl` before the list's own it is the last (`DclOfDcls`, `RankOrder`).
`ValueOfDcls` counts from it.

**Parser.** For every grammar whose rules also begin as the functions of the
parser take it that they do (`ParserAssumption`: a `procedure` with `INT ID`, a
`factor` with one of the seven tokens that `parseFactor()` looks for, and so on;
`MCFrontend` evaluates it for the 49 rules):

* `FrontTypes`: `FrontSpec => []FrontTypeOK`: `_elemIdx` stays an index of the
  chart, the procedures listed have a count, the names in the maps are names that
  stand in the text, and every variable has one of the two types;
* `Moves`: `FrontSpec => []MovesOn`, the functions that call one another throw or
  go on before the index they were given;
* `ReadsWhatItMay`: `FrontSpec => [](DropsShadowedTypes /\ TypeBeforeDcl /\
  TokensAtOffsets)`, the theorems on the final chart for the program as a whole, with
  what the last one says of initial values.

If, moreover, braces enclose the bodies of procedures and the statements in
them, and names are not empty (`BracesAssumption`, `NamesAssumption`, which `MCFrontend`
evaluates as well):

* `CrashesAreCutShort`: `FrontSpec => []CrashesOnlyCutShort`, a text that ends with
  the brace that closes the last one open never makes `parse()`, or the loop of
  `main()` after it, use a null procedure;
* `ProgramsAreSafe`: `FrontSpec => [](IsSentence(tokens) => pc # "rejected" /\
  ~ UsesNull)`, from `AcceptsEverySentence` and the above.

A recursive function is a `CHOOSE`, of which nothing is known before there is one
that obeys its equation. The first part of `FrontendProofs` shows that there is, for
any chart: what a parse function gives at `n` depends on results before `n` only
(`ExprAgrees`, ..., `FromAgrees`), and is before `n` if they are (`Earlier`), hence a
table that is right up to an index has a row for the next (`TableGrows`,
`TableExists`), hence `parse` is such a table (`ParseEarlier`). That is where a
function that consumes no element, or a loop that may turn on the spot, would
fail. The loops over declarations are done in the same way, with what they
collect (`LoopsCollect`, `WainParamsCollect`). `FrontInv` then adds to the invariants
of the recogniser that a chart was handed over whole before the parser begins
(`Handed`), and the parser's types. That names are names of the text rests on
`TokensAtOffsets`: the offsets are counted from an element to a token without a
look at the token. Of the initial values `FrontTypes` says nothing.

`recognise()` accepts a text if its last token could be scanned, and asks for no
complete procedure; that one is there if the braces close is a fact of the grammar
and the chart together. What a nonterminal derives has as many `LBRACE` as `RBRACE`, and
no prefix of it has more `RBRACE` (`DerivedBalanced`, over the stages of the spans). A rule for
statements begins only where a brace is open (`BegunInBraces`), so that the brace
that closes the last one open is the last symbol of a rule for a procedure
(`ClosesProcedure`). The last list of the chart holds only what the scanner put there, since
the loop of `recognise()` ends before it (`LastScanned`); so if the text is
`Closed` the final chart ends with a complete procedure (`LastIsProcedure`). `parse()` walks it from
the back: `proc` is null at most while it looks at this element (`NotNull`), which
sets it, and none that is null is put into the list (`ListedWhole`).

**Tokeniser.** For every alphabet, keyword table, limit on numbers and set of
texts (`TextAssumption`):

* `TokeniserTypes`: `Spec => []TypeOK`, the position stays within the file and
  one past it, and tokens are what they should be;
* `ReadToTheEnd`: `Spec => []ReadsWholeFile`, neither the end nor a failed
  stream is reached with a character unread or one read and not dealt with;
* `LongestLexemes`: `Spec => []ReadsLongestLexemes`, the tokens are those of the
  longest lexemes, up to the first bad one;
* `RejectsExactly`: `Spec => []RejectsBadTexts`, the files that are rejected;
* `ColumnsOff`: `Spec => []ColumnsOffByOperators`, how far columns are off;
* `RunsOut`: `Spec => StepsRunOut`, every step leaves less to read, or ends a
  lexeme or the loop. A stream that has failed gives nothing more to read, so
  this needs that no loop reads on then: within a comment, whose loop tests only
  `eof()`, because both flags were set by the same read (`CommentInv`).

`StreamInv` is inductive where `ReadsWholeFile` is not: it ties `eof` and `fail`
to the position and says that a finished tokeniser's stream has failed. The three
on tokens follow from `ReadInv`: `HandInv` says that `ch` is the character before
`pos`, and `LexemeInv` that there is a place `a` up to which the reference cuts
the text into the pieces whose tokens were read, `Reading(n, a)`. At the head of
the loop `a` is the place of `ch`; within a lexeme the characters from `a` on are a
word, a number, a comment or an operator as far as they go, and `lexeme` holds
them; and at the end of the file `eof` says whether the last piece asked for more.
A lexeme's last step is where the reference's piece must end too, so there are
lemmas on which piece is the longest (`WordPiece`, `CommentPiece`, `LongPiece`, ...).
The column kept is that of `a`, less the long operators before it on the line,
except after a comment, where it is wrong, but only a newline can follow.
The keyword table must not give a word the symbol `NUM`.

**Code generator.** For all programs over any set of trees of the form that the
classes of `src/ast` give them (`TreeAssumption`), whatever they nest, in which no
two procedures have the same name, as `parse()` sees to (`NamesAssumption`, which
only the last of these needs):

* `TypesHold`: `ExecSpec => []TypeOK`, which includes that no list of statements
  is run past its end and that only procedures are called that are there;
* `StatementsStartTheirBlocks`: `ExecSpec => []StatementsStartBlocks`;
* `BlocksStayWellFormed`: `ExecSpec => []BlocksWellFormed`;
* `RegistersDefinedFirst`: `ExecSpec => []DefinedFirst`.

`BlocksWellFormed` says that exactly the blocks that a call will come back to are
open, which is not inductive without knowing who comes back to what. `IInv`
adds: what each kind of call holds at each of its locations (`FrameInv`); how
calls follow on one another, lists of statements below, calls for values on top
(`StackInv`); that all blocks a call remembers are in the current function and
not its entry (`BlocksInv`); and that no two calls will come back to the same
block, nor any to the insertion point unless its own test is being generated
there (`HeldInv`). The proof has one lemma per action or group of actions. They
rest on three lemmas about the stack (`CallKeeps`, `BecomeKeeps`, `ReturnKeeps`),
on `InsertKeeps` for instructions that do not branch, and on `BeginsBlock`,
`BeginKeepsForm` and `EndBlocks` for a block that is begun while others are closed.

`DefinedFirst` looks at the instructions that are there; that the next one is
right depends on values that calls still hold, possibly across the beginning of
other blocks. `OrderInv` (in `CodegenOrderProofs`, on top of `IInv`) says of each
held value that its register can be used in the block where the call will use it
(`DoneInv`, with `Home` for that block): the operands of a test in the block of
the test, even while the statements after it are generated; all others at the
insertion point, since no block begins while a value is generated. It also says
that the variables of a procedure are allocated in its entry block
(`VariablesInv`), and that the functions are those of the procedures generated so
far (`NamesInv`), so that a new one does not change what the blocks of another
may use. `GrowsKeeps` is the lemma for the rest: a step that only adds instructions and
blocks lets every block use at least what it could use before.

**Compile driver.** For every finite or infinite set of processes:

* `DriverTypes`: `Spec => []TypeOK`;
* `AloneSucceeds`: `Spec => []AloneMakesItsOwn`: a process that overlaps with none
  and comes to its end has its own executable, unless its C compiler failed of
  itself; it ends in an error only if its program's last procedure has no parameter;
* `SomeoneIsNotRefused`: `Spec => []NotAllError`: nobody killed, and with a parameter
  in every program, not all that began end in an error;
* `SilenceMeansSuccess`: `Spec => []FailureOfAllShows`: if, moreover, no C compiler
  fails of itself and no process ends in an error, not all come away without an
  executable. It may be one of another program (6).

`AloneInv` says what a process that overlaps with none finds before each call
(`AloneAt`), that no other is busy then, and that without a directory there are
no files. `PeaceInv`, under the assumption that nobody is killed, says that
whoever ends in an error does so because of one that did not: each file was opened by
a process that did not end in an error afterwards (`FilesHeld`), nor did the maker of
the directory (`DirHeld`), and a directory that is gone is about to be made by a
process that has just removed it (`DirComes`).

`SilentInv` is about states in which nobody was killed, was refused or has an
executable. A directory that is there is about to be removed, or somebody is about
to go to it or works in it (`DirWorked`); a file that somebody in it has opened is
still there, unless somebody is removing (`FilesThere`); and one with nothing in it is
about to be written to by who opened it (`FilesComing`). A process whose directory
is removed while it works may well end without an executable, but the one that
removed it makes another; in the last directory, who links last finds both files with
something in them. It rests on `FilesHeld` and `DirHeld`.

**How induction is done.** The library's induction theorems take an operator as
a parameter, which the installed provers cannot instantiate. `Induction` states
what is needed over *sets* of numbers (`StrongInduction`: a set that has `n` whenever it
has all smaller numbers is all of `Nat`), which a proof instantiates with the set
of the numbers for which its claim holds. `RecursionExists` is the recursion
theorem in the same form, for a step given as a function; with it `CutsSteps`,
`FoundSteps`, `SpanStagesSteps` and others show that the recursive functions of
the references obey their equations, which a `CHOOSE` does not by itself.

Only model-checked: liveness (`Terminates` and `Ends`: fairness and `ENABLED` are
out of TLAPS's reach; what `StepsRunOut` and `MovesOn` leave to them is that a
step can be made until the end, and that it is made); that the parser reads the program as it is written (`CountsParams`,
`ReadsAsWrittenButCalls`, `ReadsWholeProcedures`) and that the generated code
computes what it means (`ComputesAsWrittenBut`). The references of these are
recursive over trees of any depth (`WLP4Source`, `Meaning`), and written with
`RECURSIVE` operators; to prove them would take induction over trees.

## 5. Not modelled, and the plan

The plan was followed in this order: the recogniser with its abstract
specification, the parser, the tokeniser, the compile driver, the code generator
with the machine that runs its code, each with its proofs. What is left out:

* `initLLVMCodegen()` and `emitLLVM()` only call LLVM and the file system; the
  command line is LLVM's, and what `main()` does with it is straight-line code.
* `third_party/fmt`, the build files and the example programs hold no logic of
  the compiler.
* The tokeniser is not composed with the front end: `MCFrontend` begins with
  tokens. Texts of whole programs, character by character, are far longer than
  those of which TLC can check all; what links the two is the map from spellings
  to symbols of `symbol.hpp`, `Keywords` in `Tokeniser`.

What could follow: `ReadsAsWrittenButCalls` as a theorem, by induction over the
height of the trees of a program, with the places of a tree in the final chart as
the invariant.
