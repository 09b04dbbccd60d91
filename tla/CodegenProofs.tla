--------------------------- MODULE CodegenProofs ----------------------------
(***************************************************************************)
(* For all programs, and trees nested to any depth: the types of the code  *)
(* generator's variables, and the form of the blocks that it leaves.       *)
(***************************************************************************)
EXTENDS Execution, TLAPS

Kinds == {"procedure", "statement", "value", "address"}

Locations == {"operands", "test", "body", "link", "statements", "return"}

PartialValues == UNION { [D -> Values] : D \in SUBSET Nat }

Frames ==
  [of : Kinds, ast : Trees, pc : Locations, done : PartialValues, stmts : Seq(TreesOf(Statements)),
   n : Nat, BB : Nat, bodyBB : Nat, lastTrueBB : Nat, falseBB : Nat]

Nested == {"IF", "WHILE"}

ForValue == {"value", "address"}

\* A list of statements is being generated.
InList(frame) == frame.pc \in {"link", "statements"}

\* What a call holds, depending on what it is of and where it is.
FrameInv(frame) ==
  /\ frame \in Frames
  /\ frame.of = "procedure" => frame.ast.form \in Valued /\ frame.pc \in {"link", "statements", "return"}
  /\ frame.of \in ForValue => frame.ast.form \in Valued \cup Tests /\ frame.pc = "operands"
  /\ frame.of = "statement" =>
       /\ frame.ast.form \in Statements
       /\ frame.ast.form \in Nested => frame.pc \in {"test", "body", "link", "statements"}
       /\ frame.ast.form \notin Nested => frame.pc = "operands"
  /\ InList(frame) => frame.n <= Len(frame.stmts)
  /\ frame.of = "statement" /\ InList(frame) =>
       1 \in DOMAIN frame.done /\ frame.BB # 0 /\ frame.bodyBB # 0
  /\ frame.of = "statement" /\ frame.pc = "body" => frame.BB # 0
  /\ frame.bodyBB # 0 => frame.BB # 0
  /\ frame.BB # 0 => frame.of = "statement" /\ frame.pc \in {"body", "link", "statements"}
  /\ frame.lastTrueBB # 0 <=> frame.falseBB # 0
  /\ frame.lastTrueBB # 0 => frame.of = "statement" /\ InList(frame) /\ frame.ast.form = "IF"

\* How the calls follow on one another: below a call for a value all wait for
\* values, down to a list of statements.
StackInv ==
  /\ stack \in Seq(Frames)
  /\ \A f \in DOMAIN stack : FrameInv(stack[f])
  /\ \A f \in DOMAIN stack : stack[f].of = "procedure" <=> f = 1
  /\ \A f \in 1 .. (Len(stack) - 1) :
       /\ stack[f].pc \in {"operands", "body", "return", "link"}
       /\ stack[f].pc \in {"body", "return"} => stack[f].n = 1
       /\ stack[f].pc = "link" => stack[f + 1].of = "statement"
  /\ \A f, g \in DOMAIN stack : f < g /\ stack[f].pc # "link" => stack[g].of \in ForValue
  /\ stack # << >> /\ Top.pc \in {"body", "return"} => 1 \in DOMAIN Top.done

\* The variables other than stack.
DataInv ==
  /\ program \in Programs
  /\ k \in 0 .. Len(program)
  /\ blocks \in Seq([func : DOMAIN functions, code : Seq(Instructions)])
  /\ at \in 0 .. Len(blocks)
  /\ stack # << >> => at # 0
  /\ count \in Nat
  /\ \A id \in DOMAIN dclSymbolTable : dclSymbolTable[id] \in Values
  /\ DOMAIN functions \subseteq STRING
  /\ \A f \in DOMAIN functions : functions[f] \in Functions /\ functions[f].entry <= Len(blocks)
  /\ \A name \in DOMAIN symbols : symbols[name] \in {"procedure", "library"}
  /\ phase \in {"generating", "generated", "error", "ill"}

BlocksOf(frame) == {frame.BB, frame.bodyBB, frame.lastTrueBB, frame.falseBB} \ {0}

Held(frame) == {frame.BB, frame.lastTrueBB} \ {0}

\* A call goes on with the same blocks.
Kept(frame, next) ==
  /\ next.BB = frame.BB /\ next.bodyBB = frame.bodyBB
  /\ next.lastTrueBB = frame.lastTrueBB /\ next.falseBB = frame.falseBB
  /\ next.pc = "body" <=> frame.pc = "body"

Entry(b) == functions[blocks[b].func].entry

\* Blocks of the current function that are not its entry.
BlocksInv ==
  /\ \A f \in DOMAIN stack : \A b \in BlocksOf(stack[f]) :
       b \in DOMAIN blocks /\ blocks[b].func = blocks[at].func /\ b # Entry(at)
  /\ stack # << >> /\ at = Entry(at) => Len(stack) = 1 /\ Top.pc = "link"

\* Who will come back to which block: nobody to one that another will come back
\* to, nor to the insertion point, unless it is the test that is generated there.
HeldInv ==
  /\ \A f, g \in DOMAIN stack : f # g => Held(stack[f]) \cap Held(stack[g]) = {}
  /\ \A f \in DOMAIN stack : stack[f].BB # 0 => stack[f].BB # stack[f].lastTrueBB
  /\ \A f \in DOMAIN stack :
       /\ stack[f].pc = "body" => stack[f].BB = at
       /\ at \in Held(stack[f]) => stack[f].pc = "body"

-----------------------------------------------------------------------------
(* Frames.                                                                 *)

\* The value of an operand is added to those that are there.
LEMMA ReceivedFrame ==
  ASSUME NEW frame \in Frames, NEW value \in Values
  PROVE  /\ Received(frame, value) = [frame EXCEPT !.done = Received(frame, value).done]
         /\ Received(frame, value) \in Frames
         /\ DOMAIN Received(frame, value).done = DOMAIN frame.done \cup {frame.n}
         /\ \A m \in DOMAIN frame.done : frame.done[m] \in Values
<1> DEFINE new == [m \in DOMAIN frame.done \cup {frame.n} |-> IF m = frame.n THEN value ELSE frame.done[m]]
<1>1. Received(frame, value) = [frame EXCEPT !.done = new]
  BY Zenon DEF Received
<1>2. frame.n \in Nat /\ frame.done \in PartialValues
  BY DEF Frames
<1>3. PICK D \in SUBSET Nat : frame.done \in [D -> Values]
  BY <1>2 DEF PartialValues
<1>4. DOMAIN frame.done = D /\ \A m \in D : frame.done[m] \in Values
  BY <1>3
<1>5. new \in [D \cup {frame.n} -> Values]
  BY <1>4
<1>6. new \in PartialValues
  BY <1>2, <1>5 DEF PartialValues
<1>7. DOMAIN new = DOMAIN frame.done \cup {frame.n}
  OBVIOUS
<1> HIDE DEF new
<1>8. [frame EXCEPT !.done = new] \in Frames /\ [frame EXCEPT !.done = new].done = new
  BY <1>6 DEF Frames
<1> QED
  BY <1>1, <1>4, <1>7, <1>8

\* A call that has just been made.
LEMMA NewFrame ==
  ASSUME NEW of \in {"statement", "value", "address"}, NEW ast \in Trees,
         of = "statement" => ast.form \in Statements,
         of # "statement" => ast.form \in Valued \cup Tests
  PROVE  /\ FrameInv(Frame(of, ast))
         /\ Frame(of, ast).of = of
         /\ Frame(of, ast).pc \in {"operands", "test"}
         /\ Held(Frame(of, ast)) = {}
         /\ BlocksOf(Frame(of, ast)) = {}
<1>1. [n \in {} |-> 0] \in PartialValues
  BY DEF PartialValues
<1>2. << >> \in Seq(TreesOf(Statements))
  OBVIOUS
<1>3. Frame(of, ast) \in Frames
  BY <1>1, <1>2 DEF Frame, Frames, Kinds, Locations
<1> QED
  BY <1>3 DEF Frame, FrameInv, InList, ForValue, Nested, Statements, Valued, Tests, Factors, Terms, Exprs, Held, BlocksOf

-----------------------------------------------------------------------------
(* What the moves of the stack keep.                                       *)

\* codegen() of another tree is called.
LEMMA CallKeeps ==
  ASSUME StackInv, stack # << >>, NEW frame, NEW callee,
         FrameInv(frame), frame.of = Top.of,
         frame.pc \in {"operands", "body", "return", "link"},
         frame.pc \in {"body", "return"} => frame.n = 1,
         FrameInv(callee), callee.of # "procedure", callee.pc \in {"operands", "test"},
         IF frame.pc = "link" THEN callee.of = "statement" ELSE callee.of \in ForValue,
         Call(frame, callee)
  PROVE  /\ StackInv'
         /\ Len(stack') = Len(stack) + 1
         /\ stack'[Len(stack)] = frame
         /\ stack'[Len(stack) + 1] = callee
         /\ \A f \in 1 .. (Len(stack) - 1) : stack'[f] = stack[f]
         /\ Top' = callee
<1> DEFINE l == Len(stack)
<1>1. stack \in Seq(Frames) /\ l \in Nat \ {0}
  BY DEF StackInv
<1>2. frame \in Frames /\ callee \in Frames
  BY DEF FrameInv
<1>3. /\ stack' \in Seq(Frames)
      /\ Len(stack') = l + 1
      /\ stack'[l] = frame
      /\ stack'[l + 1] = callee
      /\ \A f \in 1 .. (l - 1) : stack'[f] = stack[f]
  BY <1>1, <1>2 DEF Call
<1>4. Top = stack[l]
  BY DEF Top
<1>5. \A f \in DOMAIN stack' : f = l + 1 \/ f = l \/ f \in 1 .. (l - 1)
  BY <1>1, <1>3
<1>6. \A f \in DOMAIN stack' : FrameInv(stack'[f])
  BY <1>1, <1>3, <1>5 DEF StackInv
<1>7. \A f \in DOMAIN stack' : stack'[f].of = "procedure" <=> f = 1
  BY <1>1, <1>3, <1>4, <1>5 DEF StackInv
<1>8. \A f \in 1 .. (Len(stack') - 1) :
        /\ stack'[f].pc \in {"operands", "body", "return", "link"}
        /\ stack'[f].pc \in {"body", "return"} => stack'[f].n = 1
        /\ stack'[f].pc = "link" => stack'[f + 1].of = "statement"
  <2> TAKE f \in 1 .. (Len(stack') - 1)
  <2>1. CASE f = l
    BY <1>3, <2>1
  <2>2. CASE f \in 1 .. (l - 1)
    <3>1. stack'[f] = stack[f] /\ stack'[f + 1].of = stack[f + 1].of
      BY <1>1, <1>3, <1>4, <2>2
    <3> QED
      BY <1>1, <2>2, <3>1 DEF StackInv
  <2> QED
    BY <1>1, <1>3, <2>1, <2>2
<1>9. ASSUME NEW f \in DOMAIN stack', NEW g \in DOMAIN stack', f < g, stack'[f].pc # "link"
      PROVE  stack'[g].of \in ForValue
  <2>1. CASE f = l
    BY <1>1, <1>3, <2>1, <1>9
  <2>2. CASE f \in 1 .. (l - 1) /\ g \in 1 .. l
    BY <1>1, <1>3, <1>4, <2>2, <1>9 DEF StackInv
  <2>3. CASE f \in 1 .. (l - 1) /\ g = l + 1
    <3>1. Top.of \in ForValue
      BY <1>1, <1>3, <1>4, <2>3, <1>9 DEF StackInv
    <3>2. frame.pc = "operands"
      BY <3>1 DEF FrameInv
    <3> QED
      BY <1>3, <2>3, <3>2
  <2> QED
    BY <1>1, <1>3, <1>5, <1>9, <2>1, <2>2, <2>3
<1>10. Top' = callee
  BY <1>1, <1>3 DEF Top
<1> QED
  BY <1>3, <1>6, <1>7, <1>8, <1>9, <1>10 DEF StackInv

\* The call on top goes on.
LEMMA BecomeKeeps ==
  ASSUME StackInv, stack # << >>, NEW frame,
         FrameInv(frame), frame.of = Top.of, frame.pc \notin {"body", "return"},
         Become(frame)
  PROVE  /\ StackInv'
         /\ Len(stack') = Len(stack)
         /\ stack'[Len(stack)] = frame
         /\ \A f \in 1 .. (Len(stack) - 1) : stack'[f] = stack[f]
         /\ Top' = frame
<1> DEFINE l == Len(stack)
<1>1. stack \in Seq(Frames) /\ l \in Nat \ {0}
  BY DEF StackInv
<1>2. frame \in Frames
  BY DEF FrameInv
<1>3. /\ stack' \in Seq(Frames)
      /\ Len(stack') = l
      /\ stack'[l] = frame
      /\ \A f \in 1 .. (l - 1) : stack'[f] = stack[f]
  BY <1>1, <1>2 DEF Become
<1>4. Top = stack[l]
  BY DEF Top
<1>5. \A f \in DOMAIN stack' : f \in DOMAIN stack /\ stack'[f].of = stack[f].of /\ (f = l \/ f \in 1 .. (l - 1))
  BY <1>1, <1>3, <1>4
<1>6. \A f \in DOMAIN stack' : FrameInv(stack'[f])
  BY <1>1, <1>3, <1>5 DEF StackInv
<1>7. \A f \in DOMAIN stack' : stack'[f].of = "procedure" <=> f = 1
  BY <1>1, <1>3, <1>5 DEF StackInv
<1>8. \A f \in 1 .. (Len(stack') - 1) :
        /\ stack'[f].pc \in {"operands", "body", "return", "link"}
        /\ stack'[f].pc \in {"body", "return"} => stack'[f].n = 1
        /\ stack'[f].pc = "link" => stack'[f + 1].of = "statement"
  <2> TAKE f \in 1 .. (Len(stack') - 1)
  <2>1. stack'[f] = stack[f] /\ f + 1 \in DOMAIN stack'
    BY <1>1, <1>3
  <2> QED
    BY <1>1, <1>3, <1>5, <2>1 DEF StackInv
<1>9. ASSUME NEW f \in DOMAIN stack', NEW g \in DOMAIN stack', f < g, stack'[f].pc # "link"
      PROVE  stack'[g].of \in ForValue
  <2>1. stack'[f] = stack[f] /\ f \in DOMAIN stack /\ g \in DOMAIN stack
    BY <1>1, <1>3, <1>9
  <2> QED
    BY <1>5, <1>9, <2>1 DEF StackInv
<1>10. Top' = frame
  BY <1>1, <1>3 DEF Top
<1> QED
  BY <1>3, <1>6, <1>7, <1>8, <1>9, <1>10 DEF StackInv

\* What a call that waits is told of a value.
LEMMA ReceivedInv ==
  ASSUME NEW frame, FrameInv(frame), NEW value \in Values
  PROVE  FrameInv(Received(frame, value)) /\ Kept(frame, Received(frame, value))
<1>1. frame \in Frames
  BY DEF FrameInv
<1>2. /\ Received(frame, value) = [frame EXCEPT !.done = Received(frame, value).done]
      /\ Received(frame, value) \in Frames
      /\ DOMAIN frame.done \subseteq DOMAIN Received(frame, value).done
  BY <1>1, ReceivedFrame
<1> DEFINE new == Received(frame, value)
<1>3. /\ new.of = frame.of /\ new.ast = frame.ast /\ new.pc = frame.pc /\ new.stmts = frame.stmts
      /\ new.n = frame.n /\ new.BB = frame.BB /\ new.bodyBB = frame.bodyBB
      /\ new.lastTrueBB = frame.lastTrueBB /\ new.falseBB = frame.falseBB
  BY <1>1, <1>2 DEF Frames
<1> HIDE DEF new
<1> QED
  BY <1>2, <1>3 DEF FrameInv, InList, Kept, new

\* A call returns a value.
LEMMA ReturnKeeps ==
  ASSUME StackInv, stack # << >>, Top.of \in ForValue, NEW value \in Values, Return(value)
  PROVE  /\ StackInv'
         /\ Len(stack') = Len(stack) - 1
         /\ stack' # << >>
         /\ Top'.pc \in {"operands", "body", "return"}
         /\ \A f \in DOMAIN stack' : f \in DOMAIN stack /\ f # Len(stack) /\ Kept(stack[f], stack'[f])
<1> DEFINE l == Len(stack)
<1>1. stack \in Seq(Frames) /\ l \in Nat \ {0} /\ DOMAIN stack = 1 .. l
  BY DEF StackInv
<1>2. CASE l = 1
  BY <1>1, <1>2 DEF StackInv, Top, ForValue
<1>3. CASE l > 1
  <2> DEFINE new == Received(stack[l - 1], value)
  <2>1. l - 1 \in DOMAIN stack /\ l - 1 \in Nat
    BY <1>1, <1>3
  <2>2. FrameInv(stack[l - 1]) /\ stack[l - 1] \in Frames
    BY <1>1, <2>1 DEF StackInv
  <2>3. /\ new \in Frames /\ FrameInv(new)
        /\ new.of = stack[l - 1].of /\ new.pc = stack[l - 1].pc /\ new.n = stack[l - 1].n
        /\ stack[l - 1].n \in DOMAIN new.done
        /\ Kept(stack[l - 1], new)
    <3>1. /\ new = [stack[l - 1] EXCEPT !.done = new.done]
          /\ DOMAIN new.done = DOMAIN stack[l - 1].done \cup {stack[l - 1].n}
          /\ new \in Frames
      BY <2>2, ReceivedFrame
    <3> QED
      BY <2>2, <3>1, ReceivedInv DEF Frames
  <2> HIDE DEF new
  <2>4. stack' = [m \in 1 .. (l - 1) |-> IF m = l - 1 THEN new ELSE stack[m]]
    BY DEF Return, new
  <2>5. \A m \in 1 .. (l - 1) : stack[m] \in Frames
    BY <1>1
  <2>6. /\ stack' \in Seq(Frames)
        /\ Len(stack') = l - 1
        /\ DOMAIN stack' = 1 .. (l - 1)
        /\ stack'[l - 1] = new
        /\ \A m \in 1 .. (l - 2) : stack'[m] = stack[m]
    <3>1. stack' \in [1 .. (l - 1) -> Frames]
      BY <2>3, <2>4, <2>5
    <3>2. stack' \in Seq(Frames) /\ Len(stack') = l - 1
      BY <2>1, <3>1
    <3>3. l - 1 \in 1 .. (l - 1) /\ \A m \in 1 .. (l - 2) : m \in 1 .. (l - 1) /\ m # l - 1
      <4>1. l \in Nat
        BY <1>1
      <4> HIDE DEF l
      <4> QED
        BY <4>1, <1>3
    <3> QED
      BY <2>4, <3>1, <3>2, <3>3
  <2>7. \A m \in DOMAIN stack' : m = l - 1 \/ m \in 1 .. (l - 2)
    BY <1>1, <2>6
  <2>8. \A m \in DOMAIN stack' :
          /\ m \in DOMAIN stack
          /\ stack'[m].of = stack[m].of /\ stack'[m].pc = stack[m].pc /\ stack'[m].n = stack[m].n
    BY <1>1, <2>3, <2>6, <2>7
  <2>9. \A f \in DOMAIN stack' : FrameInv(stack'[f])
    BY <1>1, <2>3, <2>6, <2>7 DEF StackInv
  <2>10. \A f \in DOMAIN stack' : stack'[f].of = "procedure" <=> f = 1
    BY <2>8 DEF StackInv
  <2>11. \A f \in 1 .. (Len(stack') - 1) :
           /\ stack'[f].pc \in {"operands", "body", "return", "link"}
           /\ stack'[f].pc \in {"body", "return"} => stack'[f].n = 1
           /\ stack'[f].pc = "link" => stack'[f + 1].of = "statement"
    <3> TAKE f \in 1 .. (Len(stack') - 1)
    <3>1. f \in DOMAIN stack' /\ f + 1 \in DOMAIN stack' /\ f \in 1 .. (l - 1)
      BY <1>1, <2>6
    <3> QED
      BY <2>8, <3>1 DEF StackInv
  <2>12. \A f, g \in DOMAIN stack' : f < g /\ stack'[f].pc # "link" => stack'[g].of \in ForValue
    BY <2>8 DEF StackInv
  <2>13. Top' = new
    BY <2>6 DEF Top
  <2>14. Top'.pc \in {"body", "return"} => 1 \in DOMAIN Top'.done
    <3>1. new.pc \in {"body", "return"} => new.n = 1
      BY <1>1, <1>3, <2>3 DEF StackInv
    <3> QED
      BY <2>3, <2>13, <3>1
  <2>15. StackInv'
    BY <2>6, <2>9, <2>10, <2>11, <2>12, <2>14 DEF StackInv
  <2>16. \A f \in DOMAIN stack' : f \in DOMAIN stack /\ f # Len(stack) /\ Kept(stack[f], stack'[f])
    <3> TAKE f \in DOMAIN stack'
    <3>1. f \in DOMAIN stack /\ f # Len(stack)
      BY <1>1, <2>6
    <3>2. f = l - 1 => Kept(stack[f], stack'[f])
      BY <2>3, <2>6
    <3>3. f # l - 1 => Kept(stack[f], stack'[f])
      BY <2>6, <2>7 DEF Kept
    <3> QED
      BY <3>1, <3>2, <3>3
  <2>17. Top'.pc \in {"operands", "body", "return"}
    <3>1. stack[l - 1].pc \in {"operands", "body", "return", "link"}
      BY <1>1, <1>3 DEF StackInv
    <3>2. stack[l - 1].pc # "link"
      BY <1>1, <1>3 DEF StackInv, Top, ForValue
    <3> QED
      BY <2>3, <2>13, <3>1, <3>2
  <2>18. stack' # << >>
    <3>1. l - 1 \in DOMAIN stack'
      BY <1>1, <1>3, <2>6
    <3>2. DOMAIN << >> = {}
      OBVIOUS
    <3> QED
      BY <3>1, <3>2
  <2> QED
    BY <2>6, <2>15, <2>16, <2>17, <2>18
<1>4. l = 1 \/ l > 1
  BY <1>1
<1> QED
  BY <1>2, <1>3, <1>4, Zenon

\* A statement, or a procedure, returns: a list goes on behind it.
LEMMA ReturnVoidKeeps ==
  ASSUME StackInv, stack # << >>, Top.of \notin ForValue, ReturnVoid
  PROVE  /\ StackInv'
         /\ stack' # << >> => Top'.pc = "link"
         /\ Top.of = "procedure" => stack' = << >>
         /\ Len(stack') = Len(stack) - 1
         /\ Top.of # "procedure" => stack' # << >>
         /\ \A f \in DOMAIN stack' : f \in DOMAIN stack /\ f # Len(stack) /\ stack'[f] = stack[f]
<1> DEFINE l == Len(stack)
<1>1. stack \in Seq(Frames) /\ l \in Nat \ {0} /\ DOMAIN stack = 1 .. l
  BY DEF StackInv
<1>2. /\ stack' \in Seq(Frames)
      /\ Len(stack') = l - 1
      /\ DOMAIN stack' = 1 .. (l - 1)
      /\ \A f \in 1 .. (l - 1) : stack'[f] = stack[f]
  BY <1>1 DEF ReturnVoid
<1>3. Top.of = "procedure" => l = 1
  BY <1>1 DEF StackInv, Top
<1>4. ASSUME stack' # << >> PROVE Top'.pc = "link"
  <2>1. l > 1 /\ l - 1 \in DOMAIN stack /\ Top' = stack[l - 1]
    BY <1>1, <1>2, <1>4 DEF Top
  <2>2. stack[l - 1].pc # "link" => Top.of \in ForValue
    BY <1>1, <2>1 DEF StackInv, Top
  <2> QED
    BY <2>1, <2>2
<1>5. \A f \in 1 .. (Len(stack') - 1) :
        f \in 1 .. (l - 1) /\ stack'[f] = stack[f] /\ stack'[f + 1] = stack[f + 1]
  BY <1>1, <1>2
<1>6. \A f \in DOMAIN stack' : f \in DOMAIN stack /\ f # l /\ stack'[f] = stack[f]
  BY <1>1, <1>2
<1>7. StackInv'
  BY <1>2, <1>4, <1>5, <1>6 DEF StackInv
<1>8. l = 1 => stack' = << >> /\ Top.of = "procedure"
  BY <1>1, <1>2 DEF StackInv, Top
<1> QED
  BY <1>1, <1>2, <1>3, <1>4, <1>6, <1>7, <1>8

-----------------------------------------------------------------------------
(* Trees and operands.                                                     *)

\* How many children there are, and what they are.
LEMMA Kids ==
  ASSUME NEW ast \in Trees
  PROVE  /\ ast.kids \in Seq(Trees)
         /\ ast.form \in {"PAREN", "NEW", "AMP", "DEREF", "PRINTLN", "DELETE"} => 1 \in DOMAIN ast.kids
         /\ ast.form \in Terms \cup Exprs \cup Tests \cup {"ASSIGN"} => 1 \in DOMAIN ast.kids /\ 2 \in DOMAIN ast.kids
         /\ ast.form \in Nested =>
              1 \in DOMAIN ast.kids /\ 2 \in DOMAIN ast.kids /\ ast.kids[1].form \in Tests /\ ast.kids[2].form = "BLOCK"
         /\ ast.form = "IF" => 3 \in DOMAIN ast.kids /\ ast.kids[3].form = "BLOCK"
<1>1. ast.kids \in Seq(Trees) /\ IsTree(ast)
  BY TreeAssumption
<1>2. ASSUME NEW A, HasKids(ast, << A >>)
      PROVE  1 \in DOMAIN ast.kids /\ ast.kids[1].form \in A
  <2>1. Len(ast.kids) = 1
    BY <1>2 DEF HasKids
  <2> QED
    BY <1>1, <1>2, <2>1 DEF HasKids
<1>3. ASSUME NEW A, NEW B, HasKids(ast, << A, B >>)
      PROVE  1 \in DOMAIN ast.kids /\ 2 \in DOMAIN ast.kids /\ ast.kids[1].form \in A /\ ast.kids[2].form \in B
  <2>1. Len(ast.kids) = 2
    BY <1>3 DEF HasKids
  <2> QED
    BY <1>1, <1>3, <2>1 DEF HasKids
<1>4. ASSUME NEW A, NEW B, NEW C, HasKids(ast, << A, B, C >>)
      PROVE  /\ 1 \in DOMAIN ast.kids /\ 2 \in DOMAIN ast.kids /\ 3 \in DOMAIN ast.kids
             /\ ast.kids[1].form \in A /\ ast.kids[2].form \in B /\ ast.kids[3].form \in C
  <2>1. Len(ast.kids) = 3
    BY <1>4 DEF HasKids
  <2> QED
    BY <1>1, <1>4, <2>1 DEF HasKids
<1>5. ast.form \in {"PAREN", "NEW", "AMP", "DEREF", "PRINTLN", "DELETE"} => 1 \in DOMAIN ast.kids
  <2>1. ast.form \in {"PAREN", "NEW"} => 1 \in DOMAIN ast.kids
    BY <1>1, <1>2 DEF IsTree, IsFactor
  <2>2. ast.form = "AMP" => 1 \in DOMAIN ast.kids
    BY <1>1, <1>2 DEF IsTree, IsFactor
  <2>3. ast.form = "DEREF" => 1 \in DOMAIN ast.kids
    BY <1>1, <1>2 DEF IsTree, IsFactor
  <2>4. ast.form \in {"PRINTLN", "DELETE"} => 1 \in DOMAIN ast.kids
    BY <1>1, <1>2 DEF IsTree, IsStatement
  <2> QED
    BY <2>1, <2>2, <2>3, <2>4
<1>6. ast.form \in Terms \cup Exprs \cup Tests \cup {"ASSIGN"} => 1 \in DOMAIN ast.kids /\ 2 \in DOMAIN ast.kids
  <2>1. ast.form \in Terms => 1 \in DOMAIN ast.kids /\ 2 \in DOMAIN ast.kids
    BY <1>1, <1>3 DEF IsTree, IsTerm
  <2>2. ast.form \in Exprs => 1 \in DOMAIN ast.kids /\ 2 \in DOMAIN ast.kids
    BY <1>1, <1>3 DEF IsTree, IsExpr
  <2>3. ast.form \in Tests => 1 \in DOMAIN ast.kids /\ 2 \in DOMAIN ast.kids
    BY <1>1, <1>3 DEF IsTree, IsTest
  <2>4. ast.form = "ASSIGN" => 1 \in DOMAIN ast.kids /\ 2 \in DOMAIN ast.kids
    BY <1>1, <1>3 DEF IsTree, IsStatement
  <2> QED
    BY <2>1, <2>2, <2>3, <2>4
<1>7. ast.form = "WHILE" =>
        1 \in DOMAIN ast.kids /\ 2 \in DOMAIN ast.kids /\ ast.kids[1].form \in Tests /\ ast.kids[2].form = "BLOCK"
  BY <1>1, <1>3 DEF IsTree, IsStatement
<1>8. ast.form = "IF" =>
        /\ 1 \in DOMAIN ast.kids /\ 2 \in DOMAIN ast.kids /\ 3 \in DOMAIN ast.kids
        /\ ast.kids[1].form \in Tests /\ ast.kids[2].form = "BLOCK" /\ ast.kids[3].form = "BLOCK"
  BY <1>1, <1>4 DEF IsTree, IsStatement
<1> QED
  BY <1>1, <1>5, <1>6, <1>7, <1>8 DEF Nested

\* What has an operand has operands with a value.
LEMMA KidsValued ==
  ASSUME NEW ast \in Trees, ast.form \in Valued \cup Tests \cup (Statements \ Nested), NEW n \in DOMAIN ast.kids
  PROVE  ast.kids[n] \in Trees /\ ast.kids[n].form \in Valued
<1>1. ast.kids \in Seq(Trees) /\ IsTree(ast)
  BY TreeAssumption
<1>2. ast.kids[n] \in Trees
  BY <1>1
<1>3. ASSUME NEW A, A \subseteq Valued, HasKids(ast, << A >>)
      PROVE  ast.kids[n].form \in Valued
  <2>1. Len(ast.kids) = 1
    BY <1>3 DEF HasKids
  <2>2. n = 1
    BY <1>1, <2>1
  <2> QED
    BY <1>3, <2>2 DEF HasKids
<1>4. ASSUME NEW A, A \subseteq Valued, HasKids(ast, << A, Valued >>)
      PROVE  ast.kids[n].form \in Valued
  <2>1. Len(ast.kids) = 2
    BY <1>4 DEF HasKids
  <2>2. n = 1 \/ n = 2
    BY <1>1, <2>1
  <2> QED
    BY <1>4, <2>2 DEF HasKids
<1>5. HasKids(ast, << >>) => FALSE
  BY <1>1 DEF HasKids
<1>6. Lvalues \subseteq Valued /\ Factors \subseteq Valued /\ Valued \subseteq Valued
  BY DEF Lvalues, Valued, Factors
<1>7. CASE ast.form \in {"ID", "NUM", "NULL"}
  BY <1>1, <1>5, <1>7 DEF IsTree, IsFactor
<1>8. CASE ast.form \in {"PAREN", "NEW"}
  BY <1>1, <1>3, <1>6, <1>8 DEF IsTree, IsFactor
<1>9. CASE ast.form = "AMP"
  BY <1>1, <1>2, <1>3, <1>6, <1>9 DEF IsTree, IsFactor
<1>10. CASE ast.form = "DEREF"
  BY <1>1, <1>2, <1>3, <1>6, <1>10 DEF IsTree, IsFactor
<1>11. CASE ast.form = "CALL"
  BY <1>1, <1>2, <1>11 DEF IsTree, IsArglist, HasOnly
<1>12. CASE ast.form \in Terms
  BY <1>1, <1>2, <1>4, <1>6, <1>12 DEF IsTree, IsTerm
<1>13. CASE ast.form \in Exprs
  BY <1>1, <1>2, <1>4, <1>6, <1>13 DEF IsTree, IsExpr
<1>14. CASE ast.form \in Tests
  BY <1>1, <1>2, <1>4, <1>6, <1>14 DEF IsTree, IsTest
<1>15. CASE ast.form = "ASSIGN"
  BY <1>1, <1>2, <1>4, <1>6, <1>15 DEF IsTree, IsStatement
<1>16. CASE ast.form \in {"PRINTLN", "DELETE"}
  BY <1>1, <1>2, <1>3, <1>6, <1>16 DEF IsTree, IsStatement
<1>17. ast.form \in {"ID", "NUM", "NULL"} \cup {"PAREN", "NEW"} \cup {"AMP", "DEREF", "CALL"} \cup Terms \cup Exprs
         \cup Tests \cup {"ASSIGN", "PRINTLN", "DELETE"}
  BY DEF Valued, Factors, Statements, Nested
<1> QED
  BY <1>2, <1>7, <1>8, <1>9, <1>10, <1>11, <1>12, <1>13, <1>14, <1>15, <1>16, <1>17

\* A list of statements in braces.
LEMMA BlockStatements ==
  ASSUME NEW ast \in Trees, ast.form = "BLOCK"
  PROVE  ast.kids \in Seq(TreesOf(Statements))
<1>1. ast.kids \in Seq(Trees) /\ IsTree(ast)
  BY TreeAssumption
<1>2. \A n \in DOMAIN ast.kids : ast.kids[n].form \in Statements
  BY <1>1 DEF IsTree, IsStatement, HasOnly
<1>3. \A n \in 1 .. Len(ast.kids) : ast.kids[n] \in TreesOf(Statements)
  BY <1>1, <1>2 DEF TreesOf
<1> QED
  BY <1>1, <1>3

\* The call on top.
LEMMA TopFrame ==
  ASSUME StackInv, stack # << >>
  PROVE  /\ FrameInv(Top)
         /\ Top \in Frames
         /\ Len(stack) \in DOMAIN stack
         /\ Top = stack[Len(stack)]
         /\ \A n \in DOMAIN Top.done : Arg(n) \in Values
<1>1. stack \in Seq(Frames) /\ Len(stack) \in DOMAIN stack
  BY DEF StackInv
<1>2. Top = stack[Len(stack)]
  BY DEF Top
<1>3. FrameInv(Top)
  BY <1>1, <1>2 DEF StackInv
<1>4. Top \in Frames
  BY <1>3 DEF FrameInv
<1>5. Top.done \in PartialValues
  BY <1>4 DEF Frames
<1>6. PICK D \in SUBSET Nat : Top.done \in [D -> Values]
  BY <1>5 DEF PartialValues
<1>7. \A n \in DOMAIN Top.done : Arg(n) \in Values
  BY <1>6 DEF Arg
<1> QED
  BY <1>1, <1>2, <1>3, <1>4, <1>7

-----------------------------------------------------------------------------
(* Steps that move no block: no call gets one, or ends that has one.       *)

Quiet ==
  /\ stack # << >> /\ stack' # << >> /\ Top.pc # "link"
  /\ Top'.pc = "link" \/ Top'.pc = "operands" \/ Top'.pc = "test" \/ Top'.pc = "body" \/ Top'.pc = "return"
  /\ \A f \in DOMAIN stack' :
       IF f \in DOMAIN stack THEN Kept(stack[f], stack'[f])
       ELSE BlocksOf(stack'[f]) = {} /\ stack'[f].pc # "body"
  /\ \A f \in DOMAIN stack : f \notin DOMAIN stack' => BlocksOf(stack[f]) = {}

SameBlocks ==
  /\ at' = at
  /\ functions' = functions
  /\ DOMAIN blocks' = DOMAIN blocks
  /\ \A b \in DOMAIN blocks : blocks'[b].func = blocks[b].func

\* Frames that are kept hold the same blocks.
LEMMA KeptBlocks ==
  ASSUME NEW frame, NEW next, Kept(frame, next)
  PROVE  BlocksOf(next) = BlocksOf(frame) /\ Held(next) = Held(frame)
BY DEF Kept, BlocksOf, Held

\* Who is to come back to a block.
LEMMA Claims ==
  ASSUME NEW calling
  PROVE  \A b : b \in UNION { {calling[f].BB, calling[f].lastTrueBB} : f \in DOMAIN calling } <=>
               \E f \in DOMAIN calling : b = calling[f].BB \/ b = calling[f].lastTrueBB
<1> TAKE b
<1>1. ASSUME NEW f \in DOMAIN calling, b = calling[f].BB \/ b = calling[f].lastTrueBB
      PROVE  b \in UNION { {calling[g].BB, calling[g].lastTrueBB} : g \in DOMAIN calling }
  <2>1. b \in {calling[f].BB, calling[f].lastTrueBB}
    BY <1>1
  <2>2. {calling[f].BB, calling[f].lastTrueBB} \in { {calling[g].BB, calling[g].lastTrueBB} : g \in DOMAIN calling }
    OBVIOUS
  <2> QED
    BY <2>1, <2>2, Zenon
<1> QED
  BY <1>1

\* Blocks and who will come back to them are as before.
LEMMA QuietBlocks ==
  ASSUME DataInv, BlocksInv, HeldInv, Quiet, SameBlocks
  PROVE  BlocksInv' /\ HeldInv' /\ OpenBlocks' = OpenBlocks
<1>1. at \in DOMAIN blocks
  BY DEF DataInv, Quiet
<1>2. Entry(at)' = Entry(at)
  BY <1>1 DEF Entry, SameBlocks
<1>3. at # Entry(at)
  BY DEF BlocksInv, Quiet
<1>4. \A f \in DOMAIN stack' :
        \/ /\ f \in DOMAIN stack
           /\ BlocksOf(stack'[f]) = BlocksOf(stack[f]) /\ Held(stack'[f]) = Held(stack[f])
           /\ stack'[f].BB = stack[f].BB /\ stack'[f].lastTrueBB = stack[f].lastTrueBB
           /\ stack'[f].pc = "body" <=> stack[f].pc = "body"
        \/ /\ f \notin DOMAIN stack
           /\ BlocksOf(stack'[f]) = {} /\ Held(stack'[f]) = {}
           /\ stack'[f].BB = 0 /\ stack'[f].lastTrueBB = 0
           /\ stack'[f].pc # "body"
  <2> TAKE f \in DOMAIN stack'
  <2>1. CASE f \in DOMAIN stack
    <3>1. Kept(stack[f], stack'[f])
      BY <2>1 DEF Quiet
    <3> QED
      BY <2>1, <3>1, KeptBlocks DEF Kept
  <2>2. CASE f \notin DOMAIN stack
    BY <2>2 DEF Quiet, BlocksOf, Held
  <2> QED
    BY <2>1, <2>2
<1>5. BlocksInv'
  <2>1. \A f \in DOMAIN stack' : \A b \in BlocksOf(stack'[f]) :
          b \in DOMAIN blocks' /\ blocks'[b].func = blocks'[at'].func /\ b # Entry(at)'
    BY <1>1, <1>2, <1>4 DEF BlocksInv, SameBlocks
  <2>2. at' # Entry(at)'
    BY <1>2, <1>3 DEF SameBlocks
  <2> QED
    BY <2>1, <2>2 DEF BlocksInv
<1>6. HeldInv'
  <2>1. at' = at
    BY DEF SameBlocks
  <2> QED
    BY <1>4, <2>1 DEF HeldInv
<1>7. OpenBlocks' = OpenBlocks
  <2>1. \A f \in DOMAIN stack : f \notin DOMAIN stack' => stack[f].BB = 0 /\ stack[f].lastTrueBB = 0
    BY DEF Quiet, BlocksOf
  <2>2. \A b : b \in OpenBlocks <=>
              b = at \/ (b # 0 /\ \E f \in DOMAIN stack : b = stack[f].BB \/ b = stack[f].lastTrueBB)
    <3> DEFINE U == UNION { {stack[f].BB, stack[f].lastTrueBB} : f \in DOMAIN stack }
    <3>1. \A b : b \in U <=> \E f \in DOMAIN stack : b = stack[f].BB \/ b = stack[f].lastTrueBB
      BY Claims
    <3>2. OpenBlocks = {at} \cup (U \ {0})
      <4>1. stack # << >>
        BY DEF Quiet
      <4> QED
        BY <4>1, Zenon DEF OpenBlocks
    <3> HIDE DEF U
    <3> QED
      BY <3>1, <3>2
  <2>3. \A b : b \in OpenBlocks' <=>
              b = at \/ (b # 0 /\ \E f \in DOMAIN stack' : b = stack'[f].BB \/ b = stack'[f].lastTrueBB)
    <3> DEFINE U == UNION { {stack'[f].BB, stack'[f].lastTrueBB} : f \in DOMAIN stack' }
    <3>1. \A b : b \in U <=> \E f \in DOMAIN stack' : b = stack'[f].BB \/ b = stack'[f].lastTrueBB
      BY Claims
    <3>2. OpenBlocks' = {at'} \cup (U \ {0}) /\ at' = at
      <4>1. stack' # << >> /\ at' = at
        BY DEF Quiet, SameBlocks
      <4> QED
        BY <4>1, Zenon DEF OpenBlocks
    <3> HIDE DEF U
    <3> QED
      BY <3>1, <3>2
  <2>4. \A b : (b # 0 /\ \E f \in DOMAIN stack' : b = stack'[f].BB \/ b = stack'[f].lastTrueBB)
               <=> (b # 0 /\ \E f \in DOMAIN stack : b = stack[f].BB \/ b = stack[f].lastTrueBB)
    BY <1>4, <2>1
  <2>5. \A b : b \in OpenBlocks' <=> b \in OpenBlocks
    BY <2>2, <2>3, <2>4
  <2> QED
    BY <2>5
<1> QED
  BY <1>5, <1>6, <1>7

\* An operand, a statement or the return value is generated next.
LEMMA CallQuiet ==
  ASSUME StackInv, stack # << >>, NEW frame, NEW of, NEW ast \in Trees,
         FrameInv(frame), frame.of = Top.of, Kept(Top, frame), Top.pc # "link",
         frame.pc \in {"operands", "return", "link"},
         frame.pc = "return" => frame.n = 1,
         of \in {"statement", "value", "address"},
         IF of = "statement" THEN ast.form \in Statements /\ frame.pc = "link"
         ELSE ast.form \in Valued /\ frame.pc # "link",
         Call(frame, Frame(of, ast))
  PROVE  StackInv' /\ Quiet /\ Top' = Frame(of, ast)
<1> DEFINE callee == Frame(of, ast)
<1>1. /\ FrameInv(callee) /\ callee.of = of /\ callee.pc \in {"operands", "test"}
      /\ BlocksOf(callee) = {}
  BY NewFrame
<1> HIDE DEF callee
<1>2. Call(frame, callee)
  BY DEF callee
<1>3. /\ StackInv' /\ Len(stack') = Len(stack) + 1
      /\ stack'[Len(stack)] = frame /\ stack'[Len(stack) + 1] = callee
      /\ \A f \in 1 .. (Len(stack) - 1) : stack'[f] = stack[f]
      /\ Top' = callee
  BY <1>1, <1>2, CallKeeps DEF ForValue
<1>4. Len(stack) \in Nat /\ DOMAIN stack = 1 .. Len(stack) /\ DOMAIN stack' = 1 .. Len(stack')
  BY <1>3 DEF StackInv
<1>5. \A f \in DOMAIN stack' :
        IF f \in DOMAIN stack THEN Kept(stack[f], stack'[f])
        ELSE BlocksOf(stack'[f]) = {} /\ stack'[f].pc # "body"
  <2> TAKE f \in DOMAIN stack'
  <2>1. \/ f = Len(stack) + 1 /\ f \notin DOMAIN stack
        \/ f = Len(stack) /\ f \in DOMAIN stack
        \/ f \in 1 .. (Len(stack) - 1) /\ f \in DOMAIN stack
    BY <1>3, <1>4
  <2>2. f \in 1 .. (Len(stack) - 1) => Kept(stack[f], stack'[f])
    BY <1>3 DEF Kept
  <2>3. f = Len(stack) => Kept(stack[f], stack'[f])
    BY <1>3 DEF Top
  <2> QED
    BY <1>1, <1>3, <2>1, <2>2, <2>3
<1>6. \A f \in DOMAIN stack : f \in DOMAIN stack'
  BY <1>3, <1>4
<1>7. stack' # << >>
  BY <1>3, <1>4
<1>8. Quiet
  BY <1>1, <1>3, <1>5, <1>6, <1>7 DEF Quiet
<1> QED
  BY <1>3, <1>8 DEF callee

\* A value is returned.
LEMMA ReturnQuiet ==
  ASSUME StackInv, stack # << >>, Top.of \in ForValue, NEW value \in Values, Return(value)
  PROVE  StackInv' /\ Quiet /\ Top'.pc \notin {"test", "statements"}
<1>1. /\ StackInv' /\ Len(stack') = Len(stack) - 1 /\ stack' # << >>
      /\ Top'.pc \in {"operands", "body", "return"}
      /\ \A f \in DOMAIN stack' : f \in DOMAIN stack /\ f # Len(stack) /\ Kept(stack[f], stack'[f])
  BY ReturnKeeps
<1>2. FrameInv(Top) /\ Top = stack[Len(stack)] /\ Top \in Frames
  BY TopFrame
<1>3. Top.pc = "operands" /\ BlocksOf(Top) = {}
  BY <1>2 DEF FrameInv, ForValue, BlocksOf, InList, Frames
<1>4. \A f \in DOMAIN stack : f \notin DOMAIN stack' => f = Len(stack)
  BY <1>1 DEF StackInv
<1> QED
  BY <1>1, <1>2, <1>3, <1>4 DEF Quiet

\* A statement that has no block returns.
LEMMA VoidQuiet ==
  ASSUME StackInv, stack # << >>, Top.of = "statement", Top.pc = "operands", ReturnVoid
  PROVE  StackInv' /\ Quiet /\ Top'.pc = "link"
<1>1. /\ StackInv' /\ Len(stack') = Len(stack) - 1 /\ stack' # << >> /\ Top'.pc = "link"
      /\ \A f \in DOMAIN stack' : f \in DOMAIN stack /\ f # Len(stack) /\ stack'[f] = stack[f]
  BY ReturnVoidKeeps DEF ForValue
<1>2. FrameInv(Top) /\ Top = stack[Len(stack)] /\ Top \in Frames
  BY TopFrame
<1>3. BlocksOf(Top) = {}
  BY <1>2 DEF FrameInv, ForValue, BlocksOf, InList, Frames
<1>4. \A f \in DOMAIN stack : f \notin DOMAIN stack' => f = Len(stack)
  BY <1>1 DEF StackInv
<1>5. \A f \in DOMAIN stack' : Kept(stack[f], stack'[f])
  BY <1>1 DEF Kept
<1> QED
  BY <1>1, <1>2, <1>3, <1>4, <1>5 DEF Quiet

-----------------------------------------------------------------------------
(* The code of a block.                                                    *)

\* Only its last instruction may be a terminator.
Inner(code) == \A i \in 1 .. (Len(code) - 1) : ~ IsTerminator(code[i])

Ended(code) == code # << >> /\ IsTerminator(code[Len(code)])

\* Where its branches go.
GoesTo(code, targets) == \A i \in DOMAIN code : \A n \in DOMAIN code[i].to : code[i].to[n] \in targets

\* What the branches of block b may go to.
Siblings(b) == { c \in DOMAIN blocks : blocks[c].func = blocks[b].func /\ c # Entry(b) }

Plain(instr) == ~ IsTerminator(instr) /\ instr.to = << >>

\* The property, block by block.
LEMMA WellFormedBlocks ==
  BlocksWellFormed <=>
    \A b \in DOMAIN blocks :
      /\ Inner(blocks[b].code)
      /\ Ended(blocks[b].code) <=> b \notin OpenBlocks
      /\ GoesTo(blocks[b].code, Siblings(b))
BY DEF BlocksWellFormed, Inner, Ended, GoesTo, Siblings, Entry

\* An open block stays open when what is added is no terminator.
LEMMA ExtendPlain ==
  ASSUME NEW code \in Seq(Instructions), NEW instrs \in Seq(Instructions), NEW targets, Inner(code), ~ Ended(code),
         GoesTo(code, targets), \A i \in DOMAIN instrs : Plain(instrs[i])
  PROVE  /\ code \o instrs \in Seq(Instructions)
         /\ Inner(code \o instrs) /\ ~ Ended(code \o instrs) /\ GoesTo(code \o instrs, targets)
<1> DEFINE all == code \o instrs
<1>1. /\ all \in Seq(Instructions) /\ Len(all) = Len(code) + Len(instrs)
      /\ Len(code) \in Nat /\ Len(instrs) \in Nat
  OBVIOUS
<1>2. \A i \in 1 .. Len(code) : all[i] = code[i]
  OBVIOUS
<1>3. \A i \in 1 .. Len(all) : i \notin 1 .. Len(code) => i - Len(code) \in DOMAIN instrs /\ all[i] = instrs[i - Len(code)]
  OBVIOUS
<1>4. \A i \in 1 .. Len(code) : ~ IsTerminator(code[i])
  <2>1. Len(code) \in 1 .. Len(code) => ~ IsTerminator(code[Len(code)])
    BY DEF Ended
  <2>2. \A i \in 1 .. Len(code) : i \in 1 .. (Len(code) - 1) \/ i = Len(code)
    BY <1>1
  <2> QED
    BY <2>1, <2>2 DEF Inner
<1>5. \A i \in 1 .. Len(all) : ~ IsTerminator(all[i])
  <2> TAKE i \in 1 .. Len(all)
  <2>1. CASE i \in 1 .. Len(code)
    <3>1. all[i] = code[i]
      BY <1>2, <2>1
    <3> QED
      BY <1>4, <2>1, <3>1
  <2>2. CASE i \notin 1 .. Len(code)
    <3>1. i - Len(code) \in DOMAIN instrs /\ all[i] = instrs[i - Len(code)]
      BY <1>3, <2>2
    <3> QED
      BY <3>1 DEF Plain
  <2> QED
    BY <2>1, <2>2
<1>6. \A i \in DOMAIN all : \A n \in DOMAIN all[i].to : all[i].to[n] \in targets
  <2> TAKE i \in DOMAIN all
  <2>0. i \in 1 .. Len(all)
    BY <1>1
  <2>1. CASE i \in 1 .. Len(code)
    <3>1. all[i] = code[i] /\ i \in DOMAIN code
      BY <1>2, <2>1
    <3> QED
      BY <3>1 DEF GoesTo
  <2>2. CASE i \notin 1 .. Len(code)
    <3>1. i - Len(code) \in DOMAIN instrs /\ all[i] = instrs[i - Len(code)]
      BY <1>3, <2>0, <2>2
    <3>2. all[i].to = << >>
      BY <3>1 DEF Plain
    <3> QED
      BY <3>2
  <2> QED
    BY <2>1, <2>2
<1> HIDE DEF all
<1>7. Inner(all) /\ ~ Ended(all)
  <2>1. \A i \in 1 .. (Len(all) - 1) : i \in 1 .. Len(all)
    BY <1>1
  <2>2. all # << >> => Len(all) \in 1 .. Len(all)
    BY <1>1
  <2> QED
    BY <1>5, <2>1, <2>2 DEF Inner, Ended
<1>8. GoesTo(all, targets)
  BY <1>6 DEF GoesTo
<1> QED
  BY <1>1, <1>7, <1>8 DEF all

\* A terminator closes an open block.
LEMMA ExtendTerminator ==
  ASSUME NEW code \in Seq(Instructions), NEW instr \in Instructions, NEW targets, Inner(code), ~ Ended(code),
         GoesTo(code, targets), IsTerminator(instr), \A n \in DOMAIN instr.to : instr.to[n] \in targets
  PROVE  /\ code \o << instr >> \in Seq(Instructions)
         /\ Inner(code \o << instr >>) /\ Ended(code \o << instr >>) /\ GoesTo(code \o << instr >>, targets)
<1> DEFINE all == code \o << instr >>
<1>1. all \in Seq(Instructions) /\ Len(all) = Len(code) + 1 /\ Len(code) \in Nat
  OBVIOUS
<1>2. \A i \in 1 .. Len(code) : all[i] = code[i]
  OBVIOUS
<1>3. all[Len(code) + 1] = instr
  OBVIOUS
<1>4. \A i \in 1 .. Len(code) : ~ IsTerminator(code[i])
  <2>1. Len(code) \in 1 .. Len(code) => ~ IsTerminator(code[Len(code)])
    BY DEF Ended
  <2>2. \A i \in 1 .. Len(code) : i \in 1 .. (Len(code) - 1) \/ i = Len(code)
    BY <1>1
  <2> QED
    BY <2>1, <2>2 DEF Inner
<1> HIDE DEF all
<1>5. Inner(all)
  <2>1. \A i \in 1 .. (Len(all) - 1) : i \in 1 .. Len(code)
    BY <1>1
  <2> QED
    BY <1>2, <1>4, <2>1 DEF Inner
<1>6. Ended(all)
  <2>1. all # << >>
    BY <1>1
  <2> QED
    BY <1>1, <1>3, <2>1 DEF Ended
<1>7. GoesTo(all, targets)
  <2>1. \A i \in DOMAIN all : (i \in 1 .. Len(code) /\ i \in DOMAIN code) \/ i = Len(code) + 1
    BY <1>1
  <2> QED
    BY <1>2, <1>3, <2>1 DEF GoesTo
<1> QED
  BY <1>1, <1>5, <1>6, <1>7 DEF all

\* What is at the insertion point, and who has it.
LEMMA AtBlock ==
  ASSUME DataInv, stack # << >>
  PROVE  /\ at \in DOMAIN blocks /\ at \in OpenBlocks
         /\ DOMAIN blocks = 1 .. Len(blocks) /\ Len(blocks) \in Nat
         /\ blocks[at] \in [func : DOMAIN functions, code : Seq(Instructions)]
<1>1. at \in OpenBlocks
  BY Zenon DEF OpenBlocks
<1>2. at \in 0 .. Len(blocks) /\ at # 0 /\ blocks \in Seq([func : DOMAIN functions, code : Seq(Instructions)])
  BY DEF DataInv
<1>3. DOMAIN blocks = 1 .. Len(blocks) /\ Len(blocks) \in Nat
  BY <1>2
<1>4. at \in DOMAIN blocks
  BY <1>2, <1>3
<1>5. blocks[at] \in [func : DOMAIN functions, code : Seq(Instructions)]
  <2> DEFINE R == [func : DOMAIN functions, code : Seq(Instructions)]
  <2>1. blocks \in Seq(R)
    BY <1>2
  <2> HIDE DEF R
  <2>2. blocks[at] \in R
    BY <1>3, <1>4, <2>1
  <2> QED
    BY <2>2 DEF R
<1> QED
  BY <1>1, <1>3, <1>4, <1>5

\* A step that moves no block adds nothing.
LEMMA StillKeeps ==
  ASSUME DataInv, BlocksInv, HeldInv, BlocksWellFormed, Quiet,
         UNCHANGED << program, k, blocks, at, count, dclSymbolTable, functions, phase >>,
         \A name \in DOMAIN symbols' : symbols'[name] \in {"procedure", "library"}
  PROVE  DataInv' /\ BlocksInv' /\ HeldInv' /\ BlocksWellFormed'
<1>1. SameBlocks
  BY DEF SameBlocks
<1>2. BlocksInv' /\ HeldInv' /\ OpenBlocks' = OpenBlocks
  BY <1>1, QuietBlocks
<1>3. DataInv'
  <2>1. Instructions' = Instructions
    BY DEF Instructions
  <2> QED
    BY <2>1 DEF DataInv, Quiet
<1>4. BlocksWellFormed'
  BY <1>2 DEF BlocksWellFormed
<1> QED
  BY <1>2, <1>3, <1>4

\* A step that moves no block adds instructions that do not branch.
LEMMA InsertKeeps ==
  ASSUME DataInv, BlocksInv, HeldInv, BlocksWellFormed, Quiet,
         NEW instrs \in Seq(Instructions), \A i \in DOMAIN instrs : Plain(instrs[i]), Insert(instrs),
         UNCHANGED << program, k, at, dclSymbolTable, functions, phase >>,
         \A name \in DOMAIN symbols' : symbols'[name] \in {"procedure", "library"}
  PROVE  DataInv' /\ BlocksInv' /\ HeldInv' /\ BlocksWellFormed'
<1>0. stack # << >>
  BY DEF Quiet
<1>1. /\ at \in DOMAIN blocks /\ at \in OpenBlocks
      /\ DOMAIN blocks = 1 .. Len(blocks) /\ Len(blocks) \in Nat
      /\ blocks[at] \in [func : DOMAIN functions, code : Seq(Instructions)]
  BY <1>0, AtBlock
<1>2. /\ \A b \in DOMAIN blocks : Inner(blocks[b].code) /\ (Ended(blocks[b].code) <=> b \notin OpenBlocks)
                                  /\ GoesTo(blocks[b].code, Siblings(b))
  BY WellFormedBlocks
<1> DEFINE new == [func |-> blocks[at].func, code |-> blocks[at].code \o instrs]
<1>3. blocks' = [blocks EXCEPT ![at] = new]
  BY DEF Insert, Extended, BasicBlock
<1>4. /\ blocks[at].code \o instrs \in Seq(Instructions)
      /\ Inner(new.code) /\ ~ Ended(new.code) /\ GoesTo(new.code, Siblings(at))
  BY <1>1, <1>2, ExtendPlain
<1>5. new \in [func : DOMAIN functions, code : Seq(Instructions)] /\ new.func = blocks[at].func
  BY <1>1, <1>4
<1> HIDE DEF new
<1>6. /\ blocks' \in Seq([func : DOMAIN functions, code : Seq(Instructions)])
      /\ Len(blocks') = Len(blocks) /\ DOMAIN blocks' = DOMAIN blocks
      /\ \A b \in DOMAIN blocks : blocks'[b] = IF b = at THEN new ELSE blocks[b]
  BY <1>1, <1>3, <1>5 DEF DataInv
<1>7. SameBlocks
  BY <1>5, <1>6 DEF SameBlocks
<1>8. BlocksInv' /\ HeldInv' /\ OpenBlocks' = OpenBlocks
  BY <1>7, QuietBlocks
<1>9. DataInv'
  <2>1. count' \in Nat
    BY DEF DataInv, Insert
  <2>2. stack' # << >> => at' # 0
    BY <1>0 DEF DataInv
  <2>3. Instructions' = Instructions
    BY DEF Instructions
  <2> QED
    BY <1>6, <2>1, <2>2, <2>3 DEF DataInv
<1>10. \A b \in DOMAIN blocks : Siblings(b)' = Siblings(b)
  BY <1>7 DEF SameBlocks, Siblings, Entry
<1>11. BlocksWellFormed'
  <2>1. \A b \in DOMAIN blocks' :
          /\ Inner(blocks'[b].code)
          /\ Ended(blocks'[b].code) <=> b \notin OpenBlocks'
          /\ GoesTo(blocks'[b].code, Siblings(b)')
    <3> TAKE b \in DOMAIN blocks'
    <3>1. b \in DOMAIN blocks
      BY <1>6
    <3>2. CASE b = at
      BY <1>1, <1>4, <1>6, <1>8, <1>10, <3>2
    <3>3. CASE b # at
      <4>1. blocks'[b] = blocks[b] /\ Siblings(b)' = Siblings(b)
        BY <1>6, <1>10, <3>1, <3>3
      <4> QED
        BY <1>2, <1>8, <3>1, <4>1
    <3> QED
      BY <3>2, <3>3
  <2> QED
    BY <2>1, WellFormedBlocks DEF BlocksWellFormed, Inner, Ended, GoesTo, Siblings, Entry
<1> QED
  BY <1>8, <1>9, <1>11

-----------------------------------------------------------------------------
(* Steps that begin a block, and close some that are open.                 *)

Blocks == [func : DOMAIN functions, code : Seq(Instructions)]

\* A block was begun, Builder is there.
Begun ==
  /\ at' = NewBB
  /\ functions' = functions
  /\ NewBB \notin DOMAIN blocks
  /\ DOMAIN blocks' = DOMAIN blocks \cup {NewBB}
  /\ blocks'[NewBB] = EmptyBB
  /\ \A b \in DOMAIN blocks : blocks'[b].func = blocks[b].func

\* Which blocks are open, now and then.
LEMMA OpenBlocksAre ==
  /\ \A b : b \in OpenBlocks <=> (stack # << >> /\ b = at) \/ \E f \in DOMAIN stack : b \in Held(stack[f])
  /\ \A b : b \in OpenBlocks' <=> (stack' # << >> /\ b = at') \/ \E f \in DOMAIN stack' : b \in Held(stack'[f])
<1>1. \A b : b \in OpenBlocks <=> (stack # << >> /\ b = at) \/ \E f \in DOMAIN stack : b \in Held(stack[f])
  <2> DEFINE U == UNION { {stack[f].BB, stack[f].lastTrueBB} : f \in DOMAIN stack }
  <2>1. \A b : b \in U <=> \E f \in DOMAIN stack : b = stack[f].BB \/ b = stack[f].lastTrueBB
    BY Claims
  <2>2. OpenBlocks = (IF stack = << >> THEN {} ELSE {at}) \cup (U \ {0})
    BY Zenon DEF OpenBlocks
  <2> HIDE DEF U
  <2> QED
    BY <2>1, <2>2 DEF Held
<1>2. \A b : b \in OpenBlocks' <=> (stack' # << >> /\ b = at') \/ \E f \in DOMAIN stack' : b \in Held(stack'[f])
  <2> DEFINE U == UNION { {stack'[f].BB, stack'[f].lastTrueBB} : f \in DOMAIN stack' }
  <2>1. \A b : b \in U <=> \E f \in DOMAIN stack' : b = stack'[f].BB \/ b = stack'[f].lastTrueBB
    BY Claims
  <2>2. OpenBlocks' = (IF stack' = << >> THEN {} ELSE {at'}) \cup (U \ {0})
    BY Zenon DEF OpenBlocks
  <2> HIDE DEF U
  <2> QED
    BY <2>1, <2>2 DEF Held
<1> QED
  BY <1>1, <1>2

\* The block and what is typed.
LEMMA BeginsBlock ==
  ASSUME DataInv, stack # << >>, NEW closed, NEW ends, NEW old,
         old = [b \in DOMAIN blocks |-> IF b \in closed THEN Extended(blocks[b], << ends[b] >>) ELSE blocks[b]],
         \A b \in closed : ends[b] \in Instructions,
         blocks' = Append(old, EmptyBB), at' = NewBB,
         UNCHANGED << program, k, count, dclSymbolTable, functions, symbols, phase >>
  PROVE  /\ DataInv' /\ Begun
         /\ \A b \in DOMAIN blocks :
              blocks'[b].code = IF b \in closed THEN blocks[b].code \o << ends[b] >> ELSE blocks[b].code
<1>1. /\ at \in DOMAIN blocks /\ DOMAIN blocks = 1 .. Len(blocks) /\ Len(blocks) \in Nat
      /\ blocks[at] \in [func : DOMAIN functions, code : Seq(Instructions)]
  BY AtBlock
<1>2. \A b \in DOMAIN blocks : blocks[b] \in Blocks
  <2>1. blocks \in Seq(Blocks)
    BY DEF DataInv, Blocks
  <2> QED
    BY <1>1, <2>1
<1>3. \A b \in DOMAIN blocks :
        /\ old[b] \in Blocks /\ old[b].func = blocks[b].func
        /\ old[b].code = IF b \in closed THEN blocks[b].code \o << ends[b] >> ELSE blocks[b].code
  <2> TAKE b \in DOMAIN blocks
  <2>1. blocks[b] \in Blocks
    BY <1>2
  <2>2. CASE b \in closed
    <3>1. old[b] = [func |-> blocks[b].func, code |-> blocks[b].code \o << ends[b] >>]
      BY <2>2 DEF Extended, BasicBlock
    <3>2. << ends[b] >> \in Seq(Instructions)
      BY <2>2
    <3>3. blocks[b].code \o << ends[b] >> \in Seq(Instructions)
      BY <2>1, <3>2 DEF Blocks
    <3>4. old[b].func = blocks[b].func /\ old[b].code = blocks[b].code \o << ends[b] >>
      BY <3>1
    <3>5. old[b] \in Blocks
      <4>1. blocks[b].func \in DOMAIN functions
        BY <2>1 DEF Blocks
      <4> DEFINE code == blocks[b].code \o << ends[b] >>
      <4>2. code \in Seq(Instructions) /\ old[b] = [func |-> blocks[b].func, code |-> code]
        BY <3>1, <3>3
      <4> HIDE DEF code
      <4> QED
        BY <4>1, <4>2 DEF Blocks
    <3> QED
      BY <2>2, <3>4, <3>5
  <2>3. CASE b \notin closed
    <3>1. old[b] = blocks[b]
      BY <2>3
    <3> QED
      BY <2>1, <2>3, <3>1
  <2> QED
    BY <2>2, <2>3
<1>4. old \in Seq(Blocks) /\ Len(old) = Len(blocks)
  <2>1. old \in [1 .. Len(blocks) -> Blocks]
    BY <1>1, <1>3
  <2> DEFINE n == Len(blocks)
  <2>2. n \in Nat /\ old \in [1 .. n -> Blocks]
    BY <1>1, <2>1
  <2> HIDE DEF n
  <2>3. old \in Seq(Blocks) /\ Len(old) = n
    BY ONLY <2>2
  <2> QED
    BY <2>3 DEF n
<1>5. EmptyBB \in Blocks /\ EmptyBB.func = blocks[at].func /\ EmptyBB.code = << >>
  BY <1>1 DEF EmptyBB, BasicBlock, Blocks
<1>6. /\ blocks' \in Seq(Blocks) /\ Len(blocks') = NewBB /\ DOMAIN blocks' = 1 .. NewBB
      /\ blocks'[NewBB] = EmptyBB
      /\ \A b \in 1 .. Len(blocks) : blocks'[b] = old[b]
  <2>1. /\ Append(old, EmptyBB) \in Seq(Blocks) /\ Len(Append(old, EmptyBB)) = Len(old) + 1
        /\ DOMAIN Append(old, EmptyBB) = 1 .. (Len(old) + 1)
        /\ Append(old, EmptyBB)[Len(old) + 1] = EmptyBB
        /\ \A b \in 1 .. Len(old) : Append(old, EmptyBB)[b] = old[b]
    BY <1>4, <1>5
  <2> QED
    BY <1>4, <2>1 DEF NewBB
<1>7. NewBB \in Nat /\ NewBB # 0 /\ NewBB \notin DOMAIN blocks /\ 1 .. NewBB = DOMAIN blocks \cup {NewBB}
  BY <1>1 DEF NewBB
<1>8. Begun
  BY <1>1, <1>3, <1>6, <1>7 DEF Begun
<1>9. DataInv'
  <2>1. at' \in 0 .. Len(blocks') /\ at' # 0
    BY <1>6, <1>7
  <2>2. \A f \in DOMAIN functions : functions[f].entry <= Len(blocks')
    <3>1. \A f \in DOMAIN functions : functions[f].entry \in Nat /\ functions[f].entry <= Len(blocks)
      BY DEF DataInv, Functions
    <3> QED
      BY <1>1, <1>6, <3>1 DEF NewBB
  <2>3. Instructions' = Instructions
    BY DEF Instructions
  <2> QED
    BY <1>6, <2>1, <2>2, <2>3 DEF DataInv, Blocks
<1> QED
  BY <1>1, <1>3, <1>6, <1>8, <1>9

\* The blocks stay well formed.
LEMMA BeginKeepsForm ==
  ASSUME DataInv, BlocksWellFormed, stack # << >>, stack' # << >>, Begun, NEW closed, NEW ends,
         \A b \in DOMAIN blocks :
           blocks'[b].code = IF b \in closed THEN blocks[b].code \o << ends[b] >> ELSE blocks[b].code,
         \A b \in closed :
           /\ b \in DOMAIN blocks /\ b \in OpenBlocks /\ blocks[b].func = blocks[at].func
           /\ ends[b] \in Instructions /\ IsTerminator(ends[b])
           /\ \A n \in DOMAIN ends[b].to : ends[b].to[n] \in Siblings(b) \cup {NewBB},
         \A b \in DOMAIN blocks : b \in OpenBlocks' <=> b \in OpenBlocks /\ b \notin closed
  PROVE  BlocksWellFormed' /\ blocks'[at'].code = << >>
<1>1. /\ at \in DOMAIN blocks /\ DOMAIN blocks = 1 .. Len(blocks) /\ Len(blocks) \in Nat
      /\ blocks[at] \in [func : DOMAIN functions, code : Seq(Instructions)]
  BY AtBlock
<1>2. \A b \in DOMAIN blocks :
        /\ Inner(blocks[b].code) /\ (Ended(blocks[b].code) <=> b \notin OpenBlocks)
        /\ GoesTo(blocks[b].code, Siblings(b))
  BY WellFormedBlocks
<1>3. \A b \in DOMAIN blocks : blocks[b].func \in DOMAIN functions /\ blocks[b].code \in Seq(Instructions)
  <2>1. blocks \in Seq(Blocks)
    BY DEF DataInv, Blocks
  <2>2. \A b \in DOMAIN blocks : blocks[b] \in Blocks
    BY <1>1, <2>1
  <2> QED
    BY <2>2 DEF Blocks
<1>4. \A f \in DOMAIN functions : functions[f].entry # NewBB
  <2>1. \A f \in DOMAIN functions : functions[f].entry \in Nat /\ functions[f].entry <= Len(blocks)
    BY DEF DataInv, Functions
  <2> QED
    BY <1>1, <2>1 DEF NewBB
<1>5. \A b \in DOMAIN blocks :
        /\ Siblings(b) \subseteq Siblings(b)'
        /\ blocks[b].func = blocks[at].func => NewBB \in Siblings(b)'
  BY <1>3, <1>4 DEF Begun, Siblings, Entry, EmptyBB, BasicBlock
<1>6. blocks'[NewBB].code = << >> /\ at' = NewBB
  BY DEF Begun, EmptyBB, BasicBlock
<1>7. \A b \in DOMAIN blocks :
        /\ Inner(blocks'[b].code)
        /\ Ended(blocks'[b].code) <=> b \notin OpenBlocks'
        /\ GoesTo(blocks'[b].code, Siblings(b)')
  <2> TAKE b \in DOMAIN blocks
  <2>1. CASE b \in closed
    <3>1. GoesTo(blocks[b].code, Siblings(b)')
      BY <1>2, <1>5 DEF GoesTo
    <3>2. \A n \in DOMAIN ends[b].to : ends[b].to[n] \in Siblings(b)'
      BY <1>5, <2>1
    <3>3. /\ Inner(blocks[b].code \o << ends[b] >>) /\ Ended(blocks[b].code \o << ends[b] >>)
          /\ GoesTo(blocks[b].code \o << ends[b] >>, Siblings(b)')
      BY <1>2, <1>3, <2>1, <3>1, <3>2, ExtendTerminator
    <3> QED
      BY <2>1, <3>3
  <2>2. CASE b \notin closed
    <3>1. GoesTo(blocks[b].code, Siblings(b)')
      BY <1>2, <1>5 DEF GoesTo
    <3> QED
      BY <1>2, <2>2, <3>1
  <2> QED
    BY <2>1, <2>2
<1>8. ASSUME NEW b, b = NewBB
      PROVE  /\ Inner(blocks'[b].code) /\ ~ Ended(blocks'[b].code) /\ b \in OpenBlocks'
             /\ GoesTo(blocks'[b].code, Siblings(b)')
  <2>1. b \in OpenBlocks'
    BY <1>6, <1>8, OpenBlocksAre
  <2>2. Inner(<< >>) /\ ~ Ended(<< >>)
    BY DEF Inner, Ended
  <2>3. GoesTo(<< >>, Siblings(b)')
    BY DEF GoesTo
  <2>4. blocks'[b].code = << >>
    BY <1>6, <1>8
  <2> QED
    BY <2>1, <2>2, <2>3, <2>4
<1>9. \A b \in DOMAIN blocks' :
        /\ Inner(blocks'[b].code)
        /\ Ended(blocks'[b].code) <=> b \notin OpenBlocks'
        /\ GoesTo(blocks'[b].code, Siblings(b)')
  <2> TAKE b \in DOMAIN blocks'
  <2>1. b \in DOMAIN blocks \/ b = NewBB
    BY DEF Begun
  <2>2. CASE b \in DOMAIN blocks
    BY <1>7, <2>2
  <2>3. CASE b = NewBB
    <3>1. /\ Inner(blocks'[b].code) /\ ~ Ended(blocks'[b].code) /\ b \in OpenBlocks'
          /\ GoesTo(blocks'[b].code, Siblings(b)')
      BY <1>8, <2>3
    <3> QED
      BY <3>1
  <2> QED
    BY <2>1, <2>2, <2>3
<1> QED
  BY <1>6, <1>9 DEF BlocksWellFormed, Inner, Ended, GoesTo, Siblings, Entry

\* Below a statement, lists of statements wait.
LEMMA WaitingLists ==
  ASSUME StackInv, HeldInv, stack # << >>, Top.of \notin ForValue
  PROVE  /\ \A f \in DOMAIN stack : f # Len(stack) => stack[f].pc = "link" /\ at \notin Held(stack[f])
         /\ Top.pc # "body" => at \notin Held(Top)
<1>1. Len(stack) \in DOMAIN stack /\ Top = stack[Len(stack)]
  BY TopFrame
<1>2. \A f \in DOMAIN stack : f # Len(stack) => f < Len(stack)
  BY DEF StackInv
<1>3. \A f \in DOMAIN stack : f # Len(stack) => stack[f].pc = "link"
  BY <1>1, <1>2 DEF StackInv
<1> QED
  BY <1>1, <1>3 DEF HeldInv

\* The call on top goes on in the new block; it may come back to the one left.
LEMMA BecomeBlocks ==
  ASSUME StackInv, DataInv, BlocksInv, HeldInv, Begun, stack # << >>, Top.of \notin ForValue,
         NEW frame, FrameInv(frame), frame.of = Top.of, frame.pc = "statements", Become(frame),
         BlocksOf(frame) \subseteq BlocksOf(Top) \cup (IF Top.pc = "link" THEN {} ELSE {at}) \cup {NewBB},
         Held(frame) \ {at} = Held(Top) \ {at},
         NewBB \notin Held(frame),
         frame.BB # 0 => frame.BB # frame.lastTrueBB
  PROVE  /\ StackInv' /\ BlocksInv' /\ HeldInv' /\ stack' # << >> /\ Top'.pc = "statements"
         /\ \A b \in DOMAIN blocks : b \in OpenBlocks' <=> b \in OpenBlocks /\ (b = at => at \in Held(frame))
<1> DEFINE l == Len(stack)
<1>1. l \in DOMAIN stack /\ Top = stack[l] /\ DOMAIN stack = 1 .. l /\ l \in Nat
  BY TopFrame DEF StackInv
<1>2. /\ StackInv' /\ Len(stack') = l /\ stack'[l] = frame
      /\ \A f \in 1 .. (l - 1) : stack'[f] = stack[f]
      /\ Top' = frame
  BY BecomeKeeps
<1>3. DOMAIN stack' = DOMAIN stack /\ stack' # << >>
  BY <1>1, <1>2 DEF StackInv
<1>4. \A f \in DOMAIN stack : f # l => stack'[f] = stack[f]
  BY <1>1, <1>2
<1>5. \A f \in DOMAIN stack : f # l => stack[f].pc = "link" /\ at \notin Held(stack[f])
  BY WaitingLists
<1>6. /\ at \in DOMAIN blocks /\ blocks[at] \in [func : DOMAIN functions, code : Seq(Instructions)]
  BY AtBlock
<1>7. at' = NewBB /\ blocks'[at'].func = blocks[at].func /\ Entry(at)' = Entry(at)
  BY DEF Begun, Entry, EmptyBB, BasicBlock
<1>8. Entry(at) # NewBB
  <2>1. Entry(at) \in Nat /\ Entry(at) <= Len(blocks)
    BY <1>6 DEF DataInv, Functions, Entry
  <2>2. Len(blocks) \in Nat
    BY DEF DataInv
  <2> QED
    BY <2>1, <2>2 DEF NewBB
<1> HIDE DEF l
<1>9. BlocksInv'
  <2>1. Top.pc # "link" => at # Entry(at)
    BY DEF BlocksInv
  <2>2. \A b \in BlocksOf(frame) : b \in DOMAIN blocks' /\ blocks'[b].func = blocks'[at'].func /\ b # Entry(at)
    <3> TAKE b \in BlocksOf(frame)
    <3>1. CASE b \in BlocksOf(Top)
      BY <1>1, <1>7, <3>1 DEF BlocksInv, Begun
    <3>2. CASE Top.pc # "link" /\ b = at
      BY <1>6, <1>7, <2>1, <3>2 DEF Begun
    <3>3. CASE b = NewBB
      BY <1>7, <1>8, <3>3 DEF Begun
    <3> QED
      BY <3>1, <3>2, <3>3
  <2>3. \A f \in DOMAIN stack' : \A b \in BlocksOf(stack'[f]) :
          b \in DOMAIN blocks' /\ blocks'[b].func = blocks'[at'].func /\ b # Entry(at)'
    <3> TAKE f \in DOMAIN stack'
    <3>1. CASE f = l
      BY <1>2, <1>7, <2>2, <3>1
    <3>2. CASE f # l
      BY <1>3, <1>4, <1>7, <3>2 DEF BlocksInv, Begun
    <3> QED
      BY <3>1, <3>2
  <2>4. at' # Entry(at)'
    BY <1>7, <1>8
  <2> QED
    BY <2>3, <2>4 DEF BlocksInv
<1>10. HeldInv'
  <2>1. \A f \in DOMAIN stack : f # l => Held(stack[f]) \cap Held(frame) = {}
    <3> TAKE f \in DOMAIN stack
    <3> HAVE f # l
    <3>1. Held(stack[f]) \cap Held(Top) = {} /\ at \notin Held(stack[f])
      BY <1>1, <1>5 DEF HeldInv
    <3>2. Held(frame) \subseteq Held(Top) \cup {at}
      OBVIOUS
    <3> QED
      BY <3>1, <3>2
  <2>2. \A f, g \in DOMAIN stack' : f # g => Held(stack'[f]) \cap Held(stack'[g]) = {}
    <3> TAKE f, g \in DOMAIN stack'
    <3> HAVE f # g
    <3>1. CASE f = l
      BY <1>2, <1>3, <1>4, <2>1, <3>1
    <3>2. CASE g = l
      BY <1>2, <1>3, <1>4, <2>1, <3>2
    <3>3. CASE f # l /\ g # l
      BY <1>3, <1>4, <3>3 DEF HeldInv
    <3> QED
      BY <3>1, <3>2, <3>3
  <2>3. \A f \in DOMAIN stack' : stack'[f].BB # 0 => stack'[f].BB # stack'[f].lastTrueBB
    BY <1>2, <1>3, <1>4 DEF HeldInv
  <2>4. \A f \in DOMAIN stack' : stack'[f].pc # "body" /\ NewBB \notin Held(stack'[f])
    <3> TAKE f \in DOMAIN stack'
    <3>1. CASE f = l
      BY <1>2, <3>1
    <3>2. CASE f # l
      <4>1. stack'[f] = stack[f] /\ stack[f].pc = "link"
        BY <1>3, <1>4, <1>5, <3>2
      <4>2. Held(stack[f]) \subseteq DOMAIN blocks
        BY <1>3 DEF BlocksInv, BlocksOf, Held
      <4> QED
        BY <4>1, <4>2 DEF Begun
    <3> QED
      BY <3>1, <3>2
  <2> QED
    BY <1>7, <2>2, <2>3, <2>4 DEF HeldInv
<1>11. \A b \in DOMAIN blocks : b \in OpenBlocks' <=> b \in OpenBlocks /\ (b = at => at \in Held(frame))
  <2> TAKE b \in DOMAIN blocks
  <2>1. b # NewBB
    BY DEF Begun
  <2>2. b \in OpenBlocks' <=> \E f \in DOMAIN stack' : b \in Held(stack'[f])
    BY <1>3, <1>7, <2>1, OpenBlocksAre
  <2>3. b \in OpenBlocks <=> b = at \/ \E f \in DOMAIN stack : b \in Held(stack[f])
    BY OpenBlocksAre
  <2>4. CASE b = at
    <3>1. b \in OpenBlocks
      BY <2>3, <2>4
    <3>2. b \in OpenBlocks' <=> at \in Held(frame)
      BY <1>1, <1>2, <1>3, <1>4, <1>5, <2>2, <2>4
    <3> QED
      BY <2>4, <3>1, <3>2
  <2>5. CASE b # at
    <3>1. b \in Held(frame) <=> b \in Held(Top)
      BY <2>5
    <3>2. \A f \in DOMAIN stack : b \in Held(stack'[f]) <=> b \in Held(stack[f])
      BY <1>1, <1>2, <1>4, <3>1
    <3> QED
      BY <1>3, <2>2, <2>3, <2>5, <3>2
  <2> QED
    BY <2>4, <2>5
<1> QED
  BY <1>2, <1>3, <1>9, <1>10, <1>11

\* A statement with blocks returns; nothing of it is left open.
LEMMA EndBlocks ==
  ASSUME StackInv, DataInv, BlocksInv, HeldInv, Begun, stack # << >>, Top.of = "statement", Top.pc # "body", ReturnVoid
  PROVE  /\ StackInv' /\ BlocksInv' /\ HeldInv' /\ stack' # << >> /\ Top'.pc = "link"
         /\ \A b \in DOMAIN blocks : b \in OpenBlocks' <=> b \in OpenBlocks /\ b # at /\ b \notin Held(Top)
<1> DEFINE l == Len(stack)
<1>1. l \in DOMAIN stack /\ Top = stack[l] /\ DOMAIN stack = 1 .. l /\ l \in Nat
  BY TopFrame DEF StackInv
<1>2. /\ StackInv' /\ stack' # << >> /\ Top'.pc = "link" /\ Len(stack') = l - 1
      /\ \A f \in DOMAIN stack' : f \in DOMAIN stack /\ f # l /\ stack'[f] = stack[f]
  BY ReturnVoidKeeps DEF ForValue
<1>3. \A f \in DOMAIN stack : f # l => f \in DOMAIN stack'
  BY <1>1, <1>2 DEF StackInv
<1>4. Top.of \notin ForValue
  BY DEF ForValue
<1>5. /\ \A f \in DOMAIN stack : f # l => stack[f].pc = "link" /\ at \notin Held(stack[f])
      /\ at \notin Held(Top)
  BY <1>4, WaitingLists
<1>6. /\ at \in DOMAIN blocks /\ blocks[at] \in [func : DOMAIN functions, code : Seq(Instructions)]
  BY AtBlock
<1>7. at' = NewBB /\ blocks'[at'].func = blocks[at].func /\ Entry(at)' = Entry(at)
  BY DEF Begun, Entry, EmptyBB, BasicBlock
<1>8. Entry(at) # NewBB
  <2>1. Entry(at) \in Nat /\ Entry(at) <= Len(blocks)
    BY <1>6 DEF DataInv, Functions, Entry
  <2>2. Len(blocks) \in Nat
    BY DEF DataInv
  <2> QED
    BY <2>1, <2>2 DEF NewBB
<1> HIDE DEF l
<1>9. BlocksInv'
  <2>1. \A f \in DOMAIN stack' : \A b \in BlocksOf(stack'[f]) :
          b \in DOMAIN blocks' /\ blocks'[b].func = blocks'[at'].func /\ b # Entry(at)'
    BY <1>2, <1>7 DEF BlocksInv, Begun
  <2>2. at' # Entry(at)'
    BY <1>7, <1>8
  <2> QED
    BY <2>1, <2>2 DEF BlocksInv
<1>10. HeldInv'
  <2>1. \A f \in DOMAIN stack' : stack'[f].pc # "body" /\ NewBB \notin Held(stack'[f])
    <3> TAKE f \in DOMAIN stack'
    <3>1. f \in DOMAIN stack /\ stack'[f] = stack[f] /\ stack[f].pc = "link"
      BY <1>2, <1>5
    <3>2. Held(stack[f]) \subseteq DOMAIN blocks
      BY <3>1 DEF BlocksInv, BlocksOf, Held
    <3> QED
      BY <3>1, <3>2 DEF Begun
  <2> QED
    BY <1>2, <1>7, <2>1 DEF HeldInv
<1>11. \A b \in DOMAIN blocks : b \in OpenBlocks' <=> b \in OpenBlocks /\ b # at /\ b \notin Held(Top)
  <2> TAKE b \in DOMAIN blocks
  <2>1. b # NewBB
    BY DEF Begun
  <2>2. b \in OpenBlocks' <=> \E f \in DOMAIN stack' : b \in Held(stack'[f])
    BY <1>7, <2>1, OpenBlocksAre
  <2>3. b \in OpenBlocks <=> b = at \/ \E f \in DOMAIN stack : b \in Held(stack[f])
    BY OpenBlocksAre
  <2>4. (\E f \in DOMAIN stack' : b \in Held(stack'[f])) <=> \E f \in DOMAIN stack : f # l /\ b \in Held(stack[f])
    BY <1>2, <1>3
  <2>5. \A f \in DOMAIN stack : f # l => ~ (b \in Held(stack[f]) /\ b \in Held(Top))
    BY <1>1 DEF HeldInv
  <2> QED
    BY <1>1, <1>5, <2>2, <2>3, <2>4, <2>5
<1> QED
  BY <1>2, <1>9, <1>10, <1>11

-----------------------------------------------------------------------------
(* The inductive invariant, and what each kind of step does to it.         *)

IInv == StackInv /\ DataInv /\ BlocksInv /\ HeldInv /\ BlocksWellFormed /\ StatementsStartBlocks

\* main() ends.
LEMMA ThrowKeeps ==
  ASSUME IInv, NEW how \in {"generated", "error", "ill"}, Throw(how)
  PROVE  IInv'
<1>1. UNCHANGED << program, k, stack, blocks, at, count, dclSymbolTable, functions, symbols >>
      /\ Instructions' = Instructions
  BY DEF Throw, Instructions
<1>2. StackInv' /\ BlocksInv' /\ HeldInv'
  BY <1>1 DEF IInv, StackInv, Top, BlocksInv, Entry, HeldInv
<1>3. DataInv'
  BY <1>1 DEF IInv, DataInv, Throw
<1>4. BlocksWellFormed' /\ StatementsStartBlocks'
  BY <1>1 DEF IInv, BlocksWellFormed, OpenBlocks, StatementsStartBlocks, Top
<1> QED
  BY <1>2, <1>3, <1>4 DEF IInv

\* Instructions that are no terminators.
LEMMA Plains ==
  ASSUME NEW op \in Opcodes \ Terminators, NEW args \in Seq(Values), NEW r \in Nat
  PROVE  /\ Instr(op, args, r) \in Instructions
         /\ Plain(Instr(op, args, r))
<1> DEFINE none == << >>
<1>1. none \in Seq(Nat)
  OBVIOUS
<1>2. Instr(op, args, r) = [op |-> op, name |-> "", args |-> args, result |-> r, to |-> none]
  BY DEF Instr
<1>3. Instr(op, args, r).op = op /\ Instr(op, args, r).to = << >>
  BY DEF Instr
<1> HIDE DEF none
<1> DEFINE instr == Instr(op, args, r)
<1> HIDE DEF instr
<1>4. instr \in Instructions
  <2>1. instr = [op |-> op, name |-> "", args |-> args, result |-> r, to |-> none]
    BY <1>2 DEF instr
  <2> QED
    BY <1>1, <2>1 DEF Instructions
<1> QED
  BY <1>3, <1>4 DEF Plain, IsTerminator, instr

\* A call.
LEMMA PlainCall ==
  ASSUME NEW name \in DOMAIN functions, NEW args \in Seq(Values), NEW r \in Nat
  PROVE  CallOf(name, args, r) \in Instructions /\ Plain(CallOf(name, args, r))
<1> DEFINE instr == Instr("call", args, r)
<1>1. instr \in Instructions /\ Plain(instr)
  BY Plains DEF Opcodes, Terminators
<1>2. CallOf(name, args, r) = [instr EXCEPT !.name = name]
  BY DEF CallOf
<1> HIDE DEF instr
<1>3. /\ CallOf(name, args, r) \in Instructions
      /\ CallOf(name, args, r).op = instr.op /\ CallOf(name, args, r).to = instr.to
  BY <1>1, <1>2 DEF Instructions
<1> QED
  BY <1>1, <1>3 DEF Plain, IsTerminator

\* Registers and constants are values.
LEMMA ValueTypes ==
  /\ \A t \in LLVMTypes, n \in Nat : Reg(t, n) \in Values
  /\ \A t \in LLVMTypes, c \in Int : Const(t, c) \in Values
BY DEF Reg, Const, Values, LLVMTypes

\* A call whose operands are there.
LEMMA ReadyFacts ==
  ASSUME StackInv, NEW forms, Ready(forms)
  PROVE  /\ stack # << >>
         /\ Top.pc = "operands"
         /\ Top.ast \in Trees /\ Top.ast.form \in forms
         /\ Top.ast.form \in Valued \cup Tests \cup (Statements \ Nested)
         /\ Top.ast.form \in Valued \cup Tests => Top.of \in ForValue
         /\ Top.ast.form \in Statements => Top.of = "statement"
         /\ Top.ast.kids \in Seq(Trees)
         /\ \A n \in DOMAIN Top.ast.kids : Arg(n) \in Values
<1>1. stack # << >> /\ Top.pc = "operands" /\ Top.ast.form \in forms /\ DOMAIN Top.done = DOMAIN Top.ast.kids
  BY DEF Ready, At
<1>2. FrameInv(Top) /\ Top \in Frames /\ \A n \in DOMAIN Top.done : Arg(n) \in Values
  BY <1>1, TopFrame
<1>3. Top.ast \in Trees
  BY <1>2 DEF Frames
<1>4. Top.ast.kids \in Seq(Trees)
  BY <1>3, TreeAssumption
<1>5. Top.of \in Kinds
  BY <1>2 DEF Frames
<1>6. /\ Top.of = "procedure" => FALSE
      /\ Top.of \in ForValue => Top.ast.form \in Valued \cup Tests
      /\ Top.of = "statement" => Top.ast.form \in Statements \ Nested
  BY <1>1, <1>2 DEF FrameInv
<1>7. (Valued \cup Tests) \cap Statements = {}
  BY DEF Valued, Factors, Terms, Exprs, Tests, Statements
<1> QED
  BY <1>1, <1>2, <1>3, <1>4, <1>5, <1>6, <1>7 DEF Kinds, ForValue

\* A value is returned as it is.
LEMMA HandBackKeeps ==
  ASSUME IInv, stack # << >>, Top.of \in ForValue, NEW value \in Values, HandBack(value)
  PROVE  IInv'
<1>1. StackInv' /\ Quiet /\ Top'.pc \notin {"test", "statements"}
  BY ReturnQuiet DEF IInv, HandBack
<1>2. \A name \in DOMAIN symbols' : symbols'[name] \in {"procedure", "library"}
  BY DEF IInv, DataInv, HandBack
<1>3. DataInv' /\ BlocksInv' /\ HeldInv' /\ BlocksWellFormed'
  BY <1>1, <1>2, StillKeeps DEF IInv, HandBack
<1>4. StatementsStartBlocks'
  BY <1>1 DEF StatementsStartBlocks
<1> QED
  BY <1>1, <1>3, <1>4 DEF IInv

\* A value is returned that an instruction gives.
LEMMA CreateKeeps ==
  ASSUME IInv, stack # << >>, Top.of \in ForValue, NEW instrs \in Seq(Instructions),
         \A i \in DOMAIN instrs : Plain(instrs[i]), NEW t \in LLVMTypes, Create(instrs, t),
         \A name \in DOMAIN symbols' : symbols'[name] \in {"procedure", "library"}
  PROVE  IInv'
<1>1. Reg(t, count + Len(instrs)) \in Values
  BY ValueTypes DEF IInv, DataInv
<1>2. StackInv' /\ Quiet /\ Top'.pc \notin {"test", "statements"}
  BY <1>1, ReturnQuiet DEF IInv, Create
<1>3. DataInv' /\ BlocksInv' /\ HeldInv' /\ BlocksWellFormed'
  BY <1>2, InsertKeeps DEF IInv, Create
<1>4. StatementsStartBlocks'
  BY <1>2 DEF StatementsStartBlocks
<1> QED
  BY <1>2, <1>3, <1>4 DEF IInv

\* A statement that is one instruction.
LEMMA VoidKeeps ==
  ASSUME IInv, stack # << >>, Top.of = "statement", Top.pc = "operands",
         NEW op \in Opcodes \ Terminators, NEW args \in Seq(Values), CreateVoid(op, args)
  PROVE  IInv'
<1>1. StackInv' /\ Quiet /\ Top'.pc = "link"
  BY VoidQuiet DEF IInv, CreateVoid
<1> DEFINE instr == Instr(op, args, 0)
<1>2. instr \in Instructions /\ Plain(instr)
  BY Plains
<1> HIDE DEF instr
<1>3. << instr >> \in Seq(Instructions) /\ \A i \in DOMAIN << instr >> : Plain(<< instr >>[i])
  BY <1>2
<1>4. Insert(<< instr >>) /\ UNCHANGED << program, k, at, dclSymbolTable, functions, phase >> /\ symbols' = symbols
  BY DEF CreateVoid, instr
<1>5. \A name \in DOMAIN symbols' : symbols'[name] \in {"procedure", "library"}
  BY <1>4 DEF IInv, DataInv
<1>6. DataInv' /\ BlocksInv' /\ HeldInv' /\ BlocksWellFormed'
  BY <1>1, <1>3, <1>4, <1>5, InsertKeeps DEF IInv
<1>7. StatementsStartBlocks'
  BY <1>1 DEF StatementsStartBlocks
<1> QED
  BY <1>1, <1>6, <1>7 DEF IInv

-----------------------------------------------------------------------------
(* The actions: operands and values.                                       *)

\* A tuple of values.
LEMMA Tuples ==
  ASSUME NEW S
  PROVE  /\ \A x \in S : << x >> \in Seq(S) /\ \A i \in DOMAIN << x >> : << x >>[i] = x
         /\ \A x, y \in S : << x, y >> \in Seq(S) /\ \A i \in DOMAIN << x, y >> : << x, y >>[i] \in {x, y}
         /\ \A x, y, z \in S : << x, y, z >> \in Seq(S) /\ \A i \in DOMAIN << x, y, z >> : << x, y, z >>[i] \in {x, y, z}
OBVIOUS

\* A name in the module stays with who has it.
LEMMA DeclaredTypes ==
  ASSUME DataInv, NEW name, NEW who \in {"procedure", "library"}
  PROVE  \A x \in DOMAIN Declared(name, who) : Declared(name, who)[x] \in {"procedure", "library"}
<1>1. \A x \in DOMAIN symbols : symbols[x] \in {"procedure", "library"}
  BY DEF DataInv
<1> QED
  BY <1>1 DEF Declared

\* A library function may be declared on the way to the first operand.
LEMMA GenerateOperandKeeps == IInv /\ GenerateOperand => IInv'
<1> SUFFICES ASSUME IInv, GenerateOperand PROVE IInv'
  OBVIOUS
<1>1. stack # << >> /\ Top.pc = "operands" /\ FrameInv(Top) /\ Top \in Frames
  BY TopFrame DEF GenerateOperand, At, IInv
<1>2. PICK n \in Due(Top) : Call([Top EXCEPT !.n = n], Frame(OperandKind(Top, n), Top.ast.kids[n]))
  BY DEF GenerateOperand
<1>3. n \in DOMAIN Top.ast.kids
  BY DEF Due
<1>4. Top.ast \in Trees /\ Top.of \in Kinds
  BY <1>1 DEF Frames
<1>5. Top.ast.form \in Valued \cup Tests \cup (Statements \ Nested)
  BY <1>1, <1>4 DEF FrameInv, Kinds, ForValue
<1>6. Top.ast.kids[n] \in Trees /\ Top.ast.kids[n].form \in Valued
  BY <1>3, <1>4, <1>5, KidsValued
<1>7. n \in Nat
  <2>1. Top.ast.kids \in Seq(Trees)
    BY <1>4, TreeAssumption
  <2> QED
    BY <1>3, <2>1
<1> DEFINE frame == [Top EXCEPT !.n = n]
<1>8. /\ frame \in Frames /\ frame.of = Top.of /\ frame.pc = "operands" /\ frame.ast = Top.ast /\ frame.n = n
      /\ frame.done = Top.done /\ frame.stmts = Top.stmts
      /\ frame.BB = Top.BB /\ frame.bodyBB = Top.bodyBB
      /\ frame.lastTrueBB = Top.lastTrueBB /\ frame.falseBB = Top.falseBB
  BY <1>1, <1>7 DEF Frames
<1>9. Call(frame, Frame(OperandKind(Top, n), Top.ast.kids[n]))
  BY <1>2
<1> HIDE DEF frame
<1>10. FrameInv(frame) /\ Kept(Top, frame)
  BY <1>1, <1>8 DEF FrameInv, Kept, InList
<1>11. OperandKind(Top, n) \in {"value", "address"}
  BY DEF OperandKind
<1>12. StackInv' /\ Quiet /\ Top' = Frame(OperandKind(Top, n), Top.ast.kids[n])
  <2> DEFINE of == OperandKind(Top, n)
             ast == Top.ast.kids[n]
  <2>1. /\ of \in {"value", "address"} /\ ast \in Trees /\ ast.form \in Valued
        /\ Call(frame, Frame(of, ast))
    BY <1>6, <1>9, <1>11
  <2> HIDE DEF of, ast
  <2>2. StackInv' /\ Quiet /\ Top' = Frame(of, ast)
    BY <1>1, <1>8, <1>10, <2>1, CallQuiet DEF IInv
  <2> QED
    BY <2>2 DEF of, ast
<1>13. Top'.pc = "operands"
  BY <1>6, <1>12 DEF Frame, Valued, Factors, Terms, Exprs
<1>14. \A x \in DOMAIN symbols' : symbols'[x] \in {"procedure", "library"}
  <2>1. CASE symbols' = symbols
    BY <2>1 DEF IInv, DataInv
  <2>2. CASE symbols' = Declared(LibraryOf[Top.ast.form], "library")
    BY <2>2, DeclaredTypes DEF IInv
  <2> QED
    BY <2>1, <2>2 DEF GenerateOperand
<1>15. DataInv' /\ BlocksInv' /\ HeldInv' /\ BlocksWellFormed'
  BY <1>12, <1>14, StillKeeps DEF IInv, GenerateOperand
<1>16. StatementsStartBlocks'
  BY <1>13 DEF StatementsStartBlocks
<1> QED
  BY <1>12, <1>15, <1>16 DEF IInv

\* What is handed back was there.
LEMMA HandBacksKeep ==
  IInv /\ (Address \/ AddressOfOperand \/ Parentheses \/ Literal) => IInv'
<1>1. ASSUME IInv, NEW forms, Ready(forms), forms \subseteq Valued, NEW value \in Values, HandBack(value)
      PROVE  IInv'
  <2>1. stack # << >> /\ Top.of \in ForValue
    BY <1>1, ReadyFacts DEF IInv
  <2> QED
    BY <1>1, <2>1, HandBackKeeps
<1>2. {"ID"} \subseteq Valued /\ {"PAREN", "DEREF"} \subseteq Valued /\ {"PAREN"} \subseteq Valued
      /\ {"NUM"} \subseteq Valued /\ {"NULL"} \subseteq Valued
  BY DEF Valued, Factors
<1>3. ASSUME IInv, Address PROVE IInv'
  <2>1. Ready({"ID"}) /\ WellTyped /\ HandBack(dclSymbolTable[Top.ast.name])
    BY <1>3 DEF Address
  <2>2. Top.ast.form = "ID"
    BY <2>1 DEF Ready
  <2>3. dclSymbolTable[Top.ast.name] \in Values
    BY <1>3, <2>1, <2>2 DEF WellTyped, IInv, DataInv
  <2> QED
    BY <1>1, <1>2, <1>3, <2>1, <2>3
<1>4. ASSUME IInv, NEW forms, forms \subseteq {"PAREN", "DEREF"}, Ready(forms) PROVE Arg(1) \in Values
  <2>1. Top.ast \in Trees /\ Top.ast.form \in {"PAREN", "DEREF"} /\ \A n \in DOMAIN Top.ast.kids : Arg(n) \in Values
    BY <1>4, ReadyFacts DEF IInv
  <2> QED
    BY <2>1, Kids
<1>5. ASSUME IInv, AddressOfOperand PROVE IInv'
  BY <1>1, <1>2, <1>4, <1>5 DEF AddressOfOperand
<1>6. ASSUME IInv, Parentheses PROVE IInv'
  <2>1. Ready({"PAREN"}) /\ HandBack(Arg(1)) /\ {"PAREN"} \subseteq {"PAREN", "DEREF"}
    BY <1>6 DEF Parentheses
  <2> QED
    BY <1>1, <1>2, <1>4, <1>6, <2>1
<1>7. ASSUME IInv, Ready({"NUM"}), HandBack(Const("i32", Number[Top.ast.name])) PROVE IInv'
  <2>1. Top.ast \in Trees /\ Top.ast.form = "NUM"
    BY <1>7, ReadyFacts DEF IInv
  <2>2. Top.ast.name \in DOMAIN Number
    BY <2>1, TreeAssumption DEF IsTree, IsFactor
  <2>3. Number[Top.ast.name] \in Int
    BY <2>2, TreeAssumption
  <2>4. Const("i32", Number[Top.ast.name]) \in Values
    BY <2>3, ValueTypes DEF LLVMTypes
  <2> QED
    BY <1>1, <1>2, <1>7, <2>4
<1>8. ASSUME IInv, Ready({"NULL"}), HandBack(Const("i32*", 0)) PROVE IInv'
  <2>1. Const("i32*", 0) \in Values
    BY ValueTypes DEF LLVMTypes
  <2> QED
    BY <1>1, <1>2, <1>8, <2>1
<1> QED
  BY <1>3, <1>5, <1>6, <1>7, <1>8 DEF Literal

\* Instructions for a value.
LEMMA CreatesKeep ==
  ASSUME IInv, NEW forms, CanCreate(forms), forms \subseteq Valued \cup Tests, NEW instrs \in Seq(Instructions),
         \A i \in DOMAIN instrs : Plain(instrs[i]), NEW t \in LLVMTypes, Create(instrs, t),
         symbols' = symbols \/ symbols' = Declared("malloc", "library")
  PROVE  IInv'
<1>1. stack # << >> /\ Top.of \in ForValue
  BY ReadyFacts DEF IInv, CanCreate
<1>2. \A x \in DOMAIN symbols' : symbols'[x] \in {"procedure", "library"}
  <2>1. CASE symbols' = symbols
    BY <2>1 DEF IInv, DataInv
  <2>2. CASE symbols' = Declared("malloc", "library")
    BY <2>2, DeclaredTypes DEF IInv
  <2> QED
    BY <2>1, <2>2
<1> QED
  BY <1>1, <1>2, CreateKeeps

\* One instruction.
LEMMA CreateOneKeeps ==
  ASSUME IInv, NEW forms, CanCreate(forms), forms \subseteq Valued \cup Tests,
         NEW op \in Opcodes \ Terminators, NEW args \in Seq(Values), NEW t \in LLVMTypes,
         Create(<< Instr(op, args, count + 1) >>, t), UNCHANGED symbols
  PROVE  IInv'
<1> DEFINE instr == Instr(op, args, count + 1)
<1>1. count + 1 \in Nat
  BY DEF IInv, DataInv
<1>2. instr \in Instructions /\ Plain(instr)
  BY <1>1, Plains
<1>3. Create(<< instr >>, t)
  OBVIOUS
<1> HIDE DEF instr
<1>4. << instr >> \in Seq(Instructions) /\ \A i \in DOMAIN << instr >> : Plain(<< instr >>[i])
  BY <1>2, Tuples
<1> QED
  BY <1>3, <1>4, CreatesKeep

\* The operands of an operator.
LEMMA TwoOperands ==
  ASSUME IInv, NEW forms, Ready(forms), forms \subseteq Terms \cup Exprs \cup Tests
  PROVE  /\ Arg(1) \in Values /\ Arg(2) \in Values
         /\ Pointer \in Values /\ Offset \in Values
         /\ OpOf[Top.ast.form] \in Opcodes \ Terminators
         /\ forms \subseteq Valued \cup Tests
<1>1. /\ Top.ast \in Trees /\ Top.ast.form \in forms
      /\ \A n \in DOMAIN Top.ast.kids : Arg(n) \in Values
  BY ReadyFacts DEF IInv
<1>2. Arg(1) \in Values /\ Arg(2) \in Values
  BY <1>1, Kids
<1>3. OpOf[Top.ast.form] \in Opcodes \ Terminators
  <2>1. ASSUME NEW form \in Terms \cup Exprs \cup Tests PROVE OpOf[form] \in Opcodes \ Terminators
    <3>1. CASE form \in Terms
      <4>1. OpOf["STAR"] = "mul" /\ OpOf["SLASH"] = "sdiv" /\ OpOf["PCT"] = "srem"
        BY DEF OpOf
      <4> QED
        BY <3>1, <4>1 DEF Opcodes, Terminators, Terms
    <3>2. CASE form \in Exprs
      <4>1. OpOf["PLUS"] = "add" /\ OpOf["MINUS"] = "sub"
        BY DEF OpOf
      <4> QED
        BY <3>2, <4>1 DEF Opcodes, Terminators, Exprs
    <3>3. CASE form \in Tests
      <4>1. /\ OpOf["EQ"] = "eq" /\ OpOf["NE"] = "ne" /\ OpOf["LT"] = "slt"
            /\ OpOf["LE"] = "sle" /\ OpOf["GE"] = "sge" /\ OpOf["GT"] = "sgt"
        BY DEF OpOf
      <4> QED
        BY <3>3, <4>1 DEF Opcodes, Terminators, Tests
    <3> QED
      BY <3>1, <3>2, <3>3
  <2> QED
    BY <1>1, <2>1
<1> QED
  BY <1>2, <1>3 DEF Pointer, Offset, Valued

\* What an address holds.
LEMMA LoadKeeps ==
  ASSUME IInv, NEW forms, CanCreate(forms), forms \subseteq Valued, NEW address \in Values, Load(address), UNCHANGED symbols
  PROVE  IInv'
<1>1. << address >> \in Seq(Values)
  BY Tuples
<1>2. "load" \in Opcodes \ Terminators
  BY DEF Opcodes, Terminators
<1>3. \A x : (IF x = "i32**" THEN "i32*" ELSE "i32") \in LLVMTypes
  BY DEF LLVMTypes
<1> QED
  BY <1>1, <1>2, <1>3, CreateOneKeeps DEF Load

\* Factors that need an instruction.
LEMMA FactorsKeep ==
  IInv /\ (LoadVariable \/ LoadOperand \/ NewArray \/ CallProcedure) => IInv'
<1>1. {"ID"} \subseteq Valued /\ {"AMP", "DEREF"} \subseteq Valued /\ {"NEW"} \subseteq Valued /\ {"CALL"} \subseteq Valued
  BY DEF Valued, Factors
<1>2. ASSUME IInv, LoadVariable PROVE IInv'
  <2>1. CanCreate({"ID"}) /\ Load(dclSymbolTable[Top.ast.name]) /\ UNCHANGED symbols
    BY <1>2 DEF LoadVariable
  <2>2. Top.ast.form = "ID" /\ WellTyped
    BY <2>1 DEF CanCreate, Ready
  <2>3. dclSymbolTable[Top.ast.name] \in Values
    BY <1>2, <2>2 DEF WellTyped, IInv, DataInv
  <2> QED
    BY <1>1, <1>2, <2>1, <2>3, LoadKeeps
<1>3. ASSUME IInv, LoadOperand PROVE IInv'
  <2>1. CanCreate({"AMP", "DEREF"}) /\ Load(Arg(1)) /\ UNCHANGED symbols
    BY <1>3 DEF LoadOperand
  <2>2. Top.ast \in Trees /\ Top.ast.form \in {"AMP", "DEREF"} /\ \A n \in DOMAIN Top.ast.kids : Arg(n) \in Values
    BY <1>3, <2>1, ReadyFacts DEF IInv, CanCreate
  <2>3. Arg(1) \in Values
    BY <2>2, Kids
  <2> QED
    BY <1>1, <1>3, <2>1, <2>3, LoadKeeps
<1>4. ASSUME IInv, NewArray PROVE IInv'
  <2>1. CanCreate({"NEW"}) /\ symbols' = Declared("malloc", "library")
    BY <1>4 DEF NewArray
  <2>2. Top.ast \in Trees /\ Top.ast.form = "NEW" /\ \A n \in DOMAIN Top.ast.kids : Arg(n) \in Values
    BY <1>4, <2>1, ReadyFacts DEF IInv, CanCreate
  <2>3. Arg(1) \in Values
    BY <2>2, Kids
  <2>4. count + 1 \in Nat /\ count + 2 \in Nat
    BY <1>4 DEF IInv, DataInv
  <2>5. Const("i32", 4) \in Values /\ Reg("i32", count + 1) \in Values
    BY <2>4, ValueTypes DEF LLVMTypes
  <2> DEFINE mul    == Instr("mul", << Arg(1), Const("i32", 4) >>, count + 1)
             malloc == Instr("malloc", << Reg("i32", count + 1) >>, count + 2)
  <2>6. /\ mul \in Instructions /\ Plain(mul)
        /\ malloc \in Instructions /\ Plain(malloc)
    <3>1. << Arg(1), Const("i32", 4) >> \in Seq(Values) /\ << Reg("i32", count + 1) >> \in Seq(Values)
      BY <2>3, <2>5, Tuples
    <3>2. "mul" \in Opcodes \ Terminators /\ "malloc" \in Opcodes \ Terminators
      BY DEF Opcodes, Terminators
    <3> QED
      BY <2>4, <3>1, <3>2, Plains
  <2>7. Create(<< mul, malloc >>, "i32*")
    BY <1>4 DEF NewArray
  <2> HIDE DEF mul, malloc
  <2>8. << mul, malloc >> \in Seq(Instructions) /\ \A i \in DOMAIN << mul, malloc >> : Plain(<< mul, malloc >>[i])
    BY <2>6
  <2> QED
    BY <1>1, <1>4, <2>1, <2>7, <2>8, CreatesKeep DEF LLVMTypes
<1>5. ASSUME IInv, CallProcedure PROVE IInv'
  <2>1. CanCreate({"CALL"}) /\ UNCHANGED symbols
    BY <1>5 DEF CallProcedure
  <2>2. Top.ast \in Trees /\ Top.ast.form = "CALL" /\ Top.ast.kids \in Seq(Trees) /\ WellTyped
        /\ \A n \in DOMAIN Top.ast.kids : Arg(n) \in Values
    BY <1>5, <2>1, ReadyFacts DEF IInv, CanCreate
  <2>3. Top.ast.name \in DOMAIN functions
    BY <2>2 DEF WellTyped
  <2> DEFINE args == [n \in 1 .. Len(Top.ast.kids) |-> Arg(n)]
             instr == CallOf(Top.ast.name, args, count + 1)
  <2>4. args \in Seq(Values)
    <3>1. DOMAIN Top.ast.kids = 1 .. Len(Top.ast.kids) /\ Len(Top.ast.kids) \in Nat
      BY <2>2
    <3>2. args \in [1 .. Len(Top.ast.kids) -> Values]
      BY <2>2, <3>1
    <3> QED
      BY <3>1, <3>2
  <2>5. Create(<< instr >>, "i32")
    BY <1>5 DEF CallProcedure
  <2>6. count + 1 \in Nat
    BY <1>5 DEF IInv, DataInv
  <2> HIDE DEF args
  <2>7. instr \in Instructions /\ Plain(instr)
    BY <2>3, <2>4, <2>6, PlainCall
  <2> HIDE DEF instr
  <2>8. << instr >> \in Seq(Instructions) /\ \A i \in DOMAIN << instr >> : Plain(<< instr >>[i])
    BY <2>7, Tuples
  <2> QED
    BY <1>1, <1>5, <2>1, <2>5, <2>8, CreatesKeep DEF LLVMTypes
<1> QED
  BY <1>2, <1>3, <1>4, <1>5

\* Operators.
LEMMA OperatorsKeep ==
  IInv /\ (Multiply \/ Add \/ AddToPointer \/ SubtractFromPointer \/ SubtractPointers \/ Compare) => IInv'
<1>1. /\ Terms \subseteq Terms \cup Exprs \cup Tests /\ Exprs \subseteq Terms \cup Exprs \cup Tests
      /\ Tests \subseteq Terms \cup Exprs \cup Tests /\ {"PLUS"} \subseteq Terms \cup Exprs \cup Tests
      /\ {"MINUS"} \subseteq Terms \cup Exprs \cup Tests
  BY DEF Exprs
<1>2. "i1" \in LLVMTypes /\ "i32" \in LLVMTypes /\ "i32*" \in LLVMTypes
  BY DEF LLVMTypes
<1>3. ASSUME IInv, NEW forms, CanCreate(forms), forms \subseteq Terms \cup Exprs \cup Tests,
             NEW t \in LLVMTypes, Compute(t), UNCHANGED symbols
      PROVE  IInv'
  <2>1. /\ Arg(1) \in Values /\ Arg(2) \in Values /\ OpOf[Top.ast.form] \in Opcodes \ Terminators
        /\ forms \subseteq Valued \cup Tests
    BY <1>3, TwoOperands DEF CanCreate
  <2>2. << Arg(1), Arg(2) >> \in Seq(Values)
    BY <2>1, Tuples
  <2> QED
    BY <1>3, <2>1, <2>2, CreateOneKeeps DEF Compute
<1>4. ASSUME IInv, Multiply PROVE IInv'
  BY <1>1, <1>2, <1>3, <1>4 DEF Multiply
<1>5. ASSUME IInv, Add PROVE IInv'
  BY <1>1, <1>2, <1>3, <1>5 DEF Add
<1>6. ASSUME IInv, Compare PROVE IInv'
  BY <1>1, <1>2, <1>3, <1>6 DEF Compare
<1>7. ASSUME IInv, AddToPointer PROVE IInv'
  <2>1. CanCreate({"PLUS"}) /\ Create(<< Instr("gep", << Pointer, Offset >>, count + 1) >>, "i32*") /\ UNCHANGED symbols
    BY <1>7 DEF AddToPointer
  <2>2. Pointer \in Values /\ Offset \in Values /\ {"PLUS"} \subseteq Valued \cup Tests
    BY <1>1, <1>7, <2>1, TwoOperands DEF CanCreate
  <2>3. << Pointer, Offset >> \in Seq(Values) /\ "gep" \in Opcodes \ Terminators
    BY <2>2, Tuples DEF Opcodes, Terminators
  <2> QED
    BY <1>2, <1>7, <2>1, <2>2, <2>3, CreateOneKeeps
<1>8. ASSUME IInv, SubtractFromPointer PROVE IInv'
  <2>1. CanCreate({"MINUS"}) /\ UNCHANGED symbols
    BY <1>8 DEF SubtractFromPointer
  <2>2. Pointer \in Values /\ Offset \in Values /\ {"MINUS"} \subseteq Valued \cup Tests
    BY <1>1, <1>8, <2>1, TwoOperands DEF CanCreate
  <2>3. count + 1 \in Nat /\ count + 2 \in Nat
    BY <1>8 DEF IInv, DataInv
  <2>4. Const("i32", 0) \in Values /\ Reg("i32", count + 1) \in Values
    BY <1>2, <2>3, ValueTypes
  <2> DEFINE sub == Instr("sub", << Const("i32", 0), Offset >>, count + 1)
             gep == Instr("gep", << Pointer, Reg("i32", count + 1) >>, count + 2)
  <2>5. sub \in Instructions /\ Plain(sub) /\ gep \in Instructions /\ Plain(gep)
    <3>1. << Const("i32", 0), Offset >> \in Seq(Values) /\ << Pointer, Reg("i32", count + 1) >> \in Seq(Values)
      BY <2>2, <2>4, Tuples
    <3>2. "sub" \in Opcodes \ Terminators /\ "gep" \in Opcodes \ Terminators
      BY DEF Opcodes, Terminators
    <3> QED
      BY <2>3, <3>1, <3>2, Plains
  <2>6. Create(<< sub, gep >>, "i32*")
    BY <1>8 DEF SubtractFromPointer
  <2> HIDE DEF sub, gep
  <2>7. << sub, gep >> \in Seq(Instructions) /\ \A i \in DOMAIN << sub, gep >> : Plain(<< sub, gep >>[i])
    BY <2>5
  <2> QED
    BY <1>2, <1>8, <2>1, <2>2, <2>6, <2>7, CreatesKeep
<1>9. ASSUME IInv, SubtractPointers PROVE IInv'
  <2>1. CanCreate({"MINUS"}) /\ UNCHANGED symbols
    BY <1>9 DEF SubtractPointers
  <2>2. Arg(1) \in Values /\ Arg(2) \in Values /\ {"MINUS"} \subseteq Valued \cup Tests
    BY <1>1, <1>9, <2>1, TwoOperands DEF CanCreate
  <2>3. count + 1 \in Nat /\ count + 2 \in Nat /\ count + 3 \in Nat
    BY <1>9 DEF IInv, DataInv
  <2>4. Reg("i32", count + 1) \in Values /\ Reg("i32", count + 2) \in Values
    BY <1>2, <2>3, ValueTypes
  <2> DEFINE right == Instr("ptrtoint", << Arg(2) >>, count + 1)
             left  == Instr("ptrtoint", << Arg(1) >>, count + 2)
             div   == Instr("exact sdiv", << Reg("i32", count + 2), Reg("i32", count + 1) >>, count + 3)
  <2>5. /\ right \in Instructions /\ Plain(right) /\ left \in Instructions /\ Plain(left)
        /\ div \in Instructions /\ Plain(div)
    <3>1. /\ << Arg(2) >> \in Seq(Values) /\ << Arg(1) >> \in Seq(Values)
          /\ << Reg("i32", count + 2), Reg("i32", count + 1) >> \in Seq(Values)
      BY <2>2, <2>4, Tuples
    <3>2. "ptrtoint" \in Opcodes \ Terminators /\ "exact sdiv" \in Opcodes \ Terminators
      BY DEF Opcodes, Terminators
    <3> QED
      BY <2>3, <3>1, <3>2, Plains
  <2>6. Create(<< right, left, div >>, "i32")
    BY <1>9 DEF SubtractPointers
  <2> HIDE DEF right, left, div
  <2>7. << right, left, div >> \in Seq(Instructions) /\ \A i \in DOMAIN << right, left, div >> : Plain(<< right, left, div >>[i])
    BY <2>5
  <2> QED
    BY <1>2, <1>9, <2>1, <2>2, <2>6, <2>7, CreatesKeep
<1> QED
  BY <1>4, <1>5, <1>6, <1>7, <1>8, <1>9

-----------------------------------------------------------------------------
(* The actions: statements and procedures.                                 *)

\* Statements that are one instruction.
LEMMA StatementsKeep ==
  IInv /\ (LvalueStatement \/ PrintlnStatement \/ DeleteStatement) => IInv'
<1>1. ASSUME IInv, NEW form \in {"ASSIGN", "PRINTLN", "DELETE"}, CanCreate({form})
      PROVE  /\ stack # << >> /\ Top.of = "statement" /\ Top.pc = "operands"
             /\ Arg(1) \in Values
             /\ form = "ASSIGN" => Arg(2) \in Values
  <2>1. /\ stack # << >> /\ Top.pc = "operands"
        /\ Top.ast \in Trees /\ Top.ast.form = form
        /\ Top.ast.form \in Statements => Top.of = "statement"
        /\ \A n \in DOMAIN Top.ast.kids : Arg(n) \in Values
    BY <1>1, ReadyFacts DEF IInv, CanCreate
  <2> QED
    BY <2>1, Kids DEF Statements
<1>2. ASSUME IInv, LvalueStatement PROVE IInv'
  <2>1. CanCreate({"ASSIGN"}) /\ CreateVoid("store", << Arg(2), Arg(1) >>)
    BY <1>2 DEF LvalueStatement
  <2>2. Arg(1) \in Values /\ Arg(2) \in Values /\ stack # << >> /\ Top.of = "statement" /\ Top.pc = "operands"
    BY <1>1, <1>2, <2>1
  <2>3. << Arg(2), Arg(1) >> \in Seq(Values) /\ "store" \in Opcodes \ Terminators
    BY <2>2, Tuples DEF Opcodes, Terminators
  <2> QED
    BY <1>2, <2>1, <2>2, <2>3, VoidKeeps
<1>3. ASSUME IInv, PrintlnStatement PROVE IInv'
  <2>1. CanCreate({"PRINTLN"}) /\ CreateVoid("print", << Arg(1) >>)
    BY <1>3 DEF PrintlnStatement
  <2>2. Arg(1) \in Values /\ stack # << >> /\ Top.of = "statement" /\ Top.pc = "operands"
    BY <1>1, <1>3, <2>1
  <2>3. << Arg(1) >> \in Seq(Values) /\ "print" \in Opcodes \ Terminators
    BY <2>2, Tuples DEF Opcodes, Terminators
  <2> QED
    BY <1>3, <2>1, <2>2, <2>3, VoidKeeps
<1>4. ASSUME IInv, DeleteStatement PROVE IInv'
  <2>1. CanCreate({"DELETE"}) /\ CreateVoid("free", << Arg(1) >>)
    BY <1>4 DEF DeleteStatement
  <2>2. Arg(1) \in Values /\ stack # << >> /\ Top.of = "statement" /\ Top.pc = "operands"
    BY <1>1, <1>4, <2>1
  <2>3. << Arg(1) >> \in Seq(Values) /\ "free" \in Opcodes \ Terminators
    BY <2>2, Tuples DEF Opcodes, Terminators
  <2> QED
    BY <1>4, <2>1, <2>2, <2>3, VoidKeeps
<1> QED
  BY <1>2, <1>3, <1>4

\* A statement finds an empty block, and the loop comes back behind it.
LEMMA NextStatementKeeps == IInv /\ NextStatement => IInv'
<1> SUFFICES ASSUME IInv, NextStatement PROVE IInv'
  OBVIOUS
<1>1. stack # << >> /\ Top.pc = "statements" /\ Top.n < Len(Top.stmts) /\ FrameInv(Top) /\ Top \in Frames
  BY TopFrame DEF NextStatement, At, IInv
<1>2. Top.stmts \in Seq(TreesOf(Statements)) /\ Top.n \in Nat
  BY <1>1 DEF Frames
<1> DEFINE frame == [Top EXCEPT !.pc = "link", !.n = @ + 1]
           ast == Top.stmts[Top.n + 1]
<1>3. ast \in Trees /\ ast.form \in Statements
  <2>1. Top.n + 1 \in 1 .. Len(Top.stmts)
    BY <1>1, <1>2
  <2>2. ast \in TreesOf(Statements)
    BY <1>2, <2>1
  <2> QED
    BY <2>2 DEF TreesOf
<1>4. /\ frame \in Frames /\ frame.of = Top.of /\ frame.pc = "link" /\ frame.ast = Top.ast /\ frame.n = Top.n + 1
      /\ frame.done = Top.done /\ frame.stmts = Top.stmts
      /\ frame.BB = Top.BB /\ frame.bodyBB = Top.bodyBB
      /\ frame.lastTrueBB = Top.lastTrueBB /\ frame.falseBB = Top.falseBB
  <2> DEFINE m == Top.n + 1
  <2>1. m \in Nat /\ frame = [Top EXCEPT !.pc = "link", !.n = m]
    BY <1>1, <1>2 DEF Frames
  <2> HIDE DEF m, frame
  <2>2. /\ frame \in Frames /\ frame.of = Top.of /\ frame.pc = "link" /\ frame.ast = Top.ast /\ frame.n = m
        /\ frame.done = Top.done /\ frame.stmts = Top.stmts
        /\ frame.BB = Top.BB /\ frame.bodyBB = Top.bodyBB
        /\ frame.lastTrueBB = Top.lastTrueBB /\ frame.falseBB = Top.falseBB
    BY <1>1, <2>1 DEF Frames, Locations
  <2> QED
    BY <2>2 DEF m
<1>5. Call(frame, Frame("statement", ast))
  BY DEF NextStatement
<1> HIDE DEF frame, ast
<1>6. FrameInv(frame) /\ Kept(Top, frame)
  <2>1. frame.n <= Len(frame.stmts)
    BY <1>1, <1>2, <1>4
  <2> QED
    BY <1>1, <1>4, <2>1 DEF FrameInv, Kept, InList, Nested, ForValue
<1>7. StackInv' /\ Quiet /\ Top' = Frame("statement", ast)
  BY <1>1, <1>3, <1>4, <1>5, <1>6, CallQuiet DEF IInv
<1>8. \A x \in DOMAIN symbols' : symbols'[x] \in {"procedure", "library"}
  BY DEF IInv, DataInv, NextStatement
<1>9. DataInv' /\ BlocksInv' /\ HeldInv' /\ BlocksWellFormed'
  BY <1>7, <1>8, StillKeeps DEF IInv, NextStatement
<1>10. StatementsStartBlocks'
  BY <1>1 DEF StatementsStartBlocks, NextStatement, IInv
<1> QED
  BY <1>7, <1>9, <1>10 DEF IInv

\* The statements of a procedure are followed by its value.
LEMMA GenerateReturnExprKeeps == IInv /\ GenerateReturnExpr => IInv'
<1> SUFFICES ASSUME IInv, GenerateReturnExpr PROVE IInv'
  OBVIOUS
<1>1. stack # << >> /\ Top.pc = "statements" /\ Top.of = "procedure" /\ FrameInv(Top) /\ Top \in Frames
  BY TopFrame DEF GenerateReturnExpr, AtEnd, At, IInv
<1> DEFINE frame == [Top EXCEPT !.pc = "return", !.n = 1]
<1>2. /\ frame \in Frames /\ frame.of = Top.of /\ frame.pc = "return" /\ frame.ast = Top.ast /\ frame.n = 1
      /\ frame.done = Top.done /\ frame.stmts = Top.stmts
      /\ frame.BB = Top.BB /\ frame.bodyBB = Top.bodyBB
      /\ frame.lastTrueBB = Top.lastTrueBB /\ frame.falseBB = Top.falseBB
  BY <1>1 DEF Frames, Locations
<1>3. Call(frame, Frame("value", Top.ast))
  BY DEF GenerateReturnExpr
<1> HIDE DEF frame
<1>4. FrameInv(frame) /\ Kept(Top, frame)
  BY <1>1, <1>2 DEF FrameInv, Kept, InList, Nested, ForValue
<1>5. Top.ast \in Trees /\ Top.ast.form \in Valued
  BY <1>1 DEF FrameInv, Frames
<1>6. StackInv' /\ Quiet /\ Top' = Frame("value", Top.ast)
  <2> DEFINE ast == Top.ast
  <2>1. ast \in Trees /\ ast.form \in Valued /\ Call(frame, Frame("value", ast))
    BY <1>3, <1>5
  <2> HIDE DEF ast
  <2>2. StackInv' /\ Quiet /\ Top' = Frame("value", ast)
    BY <1>1, <1>2, <1>4, <2>1, CallQuiet DEF IInv
  <2> QED
    BY <2>2 DEF ast
<1>7. Top'.pc = "operands"
  BY <1>5, <1>6 DEF Frame, Valued, Factors, Terms, Exprs
<1>8. \A x \in DOMAIN symbols' : symbols'[x] \in {"procedure", "library"}
  BY DEF IInv, DataInv, GenerateReturnExpr
<1>9. DataInv' /\ BlocksInv' /\ HeldInv' /\ BlocksWellFormed'
  BY <1>6, <1>8, StillKeeps DEF IInv, GenerateReturnExpr
<1>10. StatementsStartBlocks'
  BY <1>7 DEF StatementsStartBlocks
<1> QED
  BY <1>6, <1>9, <1>10 DEF IInv

\* The block of the test is now one that the call will come back to.
LEMMA GenerateTestKeeps == IInv /\ GenerateTest => IInv'
<1> SUFFICES ASSUME IInv, GenerateTest PROVE IInv'
  OBVIOUS
<1> DEFINE l == Len(stack)
<1>1. stack # << >> /\ Top.pc = "test" /\ FrameInv(Top) /\ Top \in Frames /\ l \in DOMAIN stack /\ Top = stack[l]
  BY TopFrame DEF GenerateTest, At, IInv
<1>2. Top.of = "statement" /\ Top.ast.form \in Nested
  BY <1>1 DEF FrameInv, Frames, Kinds, ForValue
<1>3. at \in DOMAIN blocks /\ at # 0 /\ at \in Nat
  BY <1>1, AtBlock DEF IInv, DataInv
<1> DEFINE frame == [Top EXCEPT !.pc = "body", !.n = 1, !.BB = at]
<1>4. /\ frame \in Frames /\ frame.of = Top.of /\ frame.pc = "body" /\ frame.ast = Top.ast /\ frame.n = 1
      /\ frame.done = Top.done /\ frame.stmts = Top.stmts
      /\ frame.BB = at /\ frame.bodyBB = Top.bodyBB
      /\ frame.lastTrueBB = Top.lastTrueBB /\ frame.falseBB = Top.falseBB
  BY <1>1, <1>3 DEF Frames, Locations
<1>5. Call(frame, Frame("value", Top.ast.kids[1]))
  BY DEF GenerateTest
<1> HIDE DEF frame
<1>6. Top.BB = 0 /\ Top.bodyBB = 0 /\ Top.lastTrueBB = 0 /\ Top.falseBB = 0
  BY <1>1 DEF FrameInv, InList, Frames
<1>7. FrameInv(frame)
  BY <1>1, <1>2, <1>3, <1>4, <1>6 DEF FrameInv, InList, ForValue
<1>8. Top.ast.kids[1] \in Trees /\ Top.ast.kids[1].form \in Tests
  <2>1. Top.ast \in Trees
    BY <1>1 DEF Frames
  <2>2. Top.ast.kids \in Seq(Trees) /\ 1 \in DOMAIN Top.ast.kids /\ Top.ast.kids[1].form \in Tests
    BY <1>2, <2>1, Kids
  <2> QED
    BY <2>2
<1> DEFINE callee == Frame("value", Top.ast.kids[1])
<1>9. /\ FrameInv(callee) /\ callee.of = "value" /\ callee.pc = "operands"
      /\ Held(callee) = {} /\ BlocksOf(callee) = {}
  <2> DEFINE ast == Top.ast.kids[1]
  <2>1. ast \in Trees /\ ast.form \in Tests
    BY <1>8
  <2> HIDE DEF ast
  <2>2. /\ FrameInv(Frame("value", ast)) /\ Frame("value", ast).of = "value" /\ Frame("value", ast).pc = "operands"
        /\ Held(Frame("value", ast)) = {} /\ BlocksOf(Frame("value", ast)) = {}
    <3>1. Frame("value", ast).pc = "operands"
      BY <2>1 DEF Frame, Tests
    <3> QED
      BY <2>1, <3>1, NewFrame
  <2> QED
    BY <2>2 DEF ast
<1>10. Call(frame, callee)
  BY <1>5
<1> HIDE DEF callee
<1>11. /\ StackInv' /\ Len(stack') = l + 1 /\ stack'[l] = frame /\ stack'[l + 1] = callee
       /\ \A f \in 1 .. (l - 1) : stack'[f] = stack[f]
       /\ Top' = callee
  BY <1>1, <1>4, <1>7, <1>9, <1>10, CallKeeps DEF IInv, ForValue
<1>12. UNCHANGED << program, k, blocks, at, count, dclSymbolTable, functions, symbols, phase >>
  BY DEF GenerateTest
<1>13. \A f \in DOMAIN stack' :
         \/ f = l
         \/ f = l + 1
         \/ f # l /\ f \in DOMAIN stack /\ stack'[f] = stack[f] /\ stack[f].pc = "link" /\ at \notin Held(stack[f])
  <2>1. \A f \in DOMAIN stack' : f = l \/ f = l + 1 \/ (f # l /\ f \in DOMAIN stack /\ f \in 1 .. (l - 1))
    BY <1>1, <1>11 DEF IInv, StackInv
  <2>2. Top.of \notin ForValue
    BY <1>2 DEF ForValue
  <2>3. \A f \in DOMAIN stack : f # l => stack[f].pc = "link" /\ at \notin Held(stack[f])
    BY <1>1, <2>2, WaitingLists DEF IInv
  <2> QED
    BY <1>11, <2>1, <2>3
<1>14. l + 1 \in DOMAIN stack' /\ l \in DOMAIN stack' /\ l # l + 1 /\ \A f \in DOMAIN stack : f \in DOMAIN stack'
  BY <1>1, <1>11 DEF IInv, StackInv
<1> HIDE DEF l
<1>15. Held(frame) = {at} /\ BlocksOf(frame) = {at}
  BY <1>3, <1>4, <1>6 DEF Held, BlocksOf
<1>16. Held(Top) = {}
  BY <1>6 DEF Held
<1>17. DataInv'
  <2>1. Instructions' = Instructions
    BY <1>12 DEF Instructions
  <2> QED
    BY <1>3, <1>12, <2>1 DEF IInv, DataInv
<1>18. BlocksInv'
  <2>1. at # Entry(at) /\ Entry(at)' = Entry(at)
    BY <1>1, <1>12 DEF IInv, BlocksInv, Entry
  <2>2. \A f \in DOMAIN stack' : \A b \in BlocksOf(stack'[f]) :
          b \in DOMAIN blocks /\ blocks[b].func = blocks[at].func /\ b # Entry(at)
    <3> TAKE f \in DOMAIN stack'
    <3>1. CASE f = l
      BY <1>3, <1>11, <1>15, <2>1, <3>1
    <3>2. CASE f = l + 1
      BY <1>9, <1>11, <3>2
    <3>3. CASE f # l /\ f \in DOMAIN stack /\ stack'[f] = stack[f]
      BY <3>3 DEF IInv, BlocksInv
    <3> QED
      BY <1>13, <3>1, <3>2, <3>3
  <2> QED
    BY <1>12, <2>1, <2>2 DEF BlocksInv
<1>19. HeldInv'
  <2>1. \A f, g \in DOMAIN stack' : f # g => Held(stack'[f]) \cap Held(stack'[g]) = {}
    <3> TAKE f, g \in DOMAIN stack'
    <3> HAVE f # g
    <3>1. CASE f = l + 1 \/ g = l + 1
      BY <1>9, <1>11, <3>1
    <3>2. CASE f = l /\ g # l + 1
      BY <1>11, <1>13, <1>15, <3>2
    <3>3. CASE g = l /\ f # l + 1
      BY <1>11, <1>13, <1>15, <3>3
    <3>4. CASE f \notin {l, l + 1} /\ g \notin {l, l + 1}
      BY <1>13, <3>4 DEF IInv, HeldInv
    <3> QED
      BY <3>1, <3>2, <3>3, <3>4
  <2>2. \A f \in DOMAIN stack' :
          /\ stack'[f].BB # 0 => stack'[f].BB # stack'[f].lastTrueBB
          /\ stack'[f].pc = "body" => stack'[f].BB = at
          /\ at \in Held(stack'[f]) => stack'[f].pc = "body"
    <3> TAKE f \in DOMAIN stack'
    <3>1. CASE f = l
      BY <1>3, <1>4, <1>6, <1>11, <3>1
    <3>2. CASE f = l + 1
      BY <1>9, <1>11, <3>2 DEF Held
    <3>3. CASE f \notin {l, l + 1}
      BY <1>13, <3>3 DEF IInv, HeldInv
    <3> QED
      BY <3>1, <3>2, <3>3
  <2> QED
    BY <1>12, <2>1, <2>2 DEF HeldInv
<1>20. OpenBlocks' = OpenBlocks
  <2>1. \A b : b \in OpenBlocks <=> b = at \/ \E f \in DOMAIN stack : b \in Held(stack[f])
    BY <1>1, OpenBlocksAre
  <2>2. \A b : b \in OpenBlocks' <=> b = at \/ \E f \in DOMAIN stack' : b \in Held(stack'[f])
    <3>1. stack' # << >>
      BY <1>14
    <3> QED
      BY <1>12, <3>1, OpenBlocksAre
  <2>3. \A b : (\E f \in DOMAIN stack' : b \in Held(stack'[f])) => b = at \/ \E f \in DOMAIN stack : b \in Held(stack[f])
    BY <1>9, <1>11, <1>13, <1>15
  <2>4. \A b : (\E f \in DOMAIN stack : b \in Held(stack[f])) => \E f \in DOMAIN stack' : b \in Held(stack'[f])
    <3>1. \A f \in DOMAIN stack : f # l => f \in DOMAIN stack' /\ stack'[f] = stack[f]
      <4>1. \A f \in DOMAIN stack : f # l => f \in 1 .. (l - 1)
        BY DEF l, IInv, StackInv
      <4> QED
        BY <1>11, <1>14, <4>1
    <3> QED
      BY <1>1, <1>16, <3>1
  <2>5. \A b : b \in OpenBlocks' <=> b \in OpenBlocks
    BY <2>1, <2>2, <2>3, <2>4
  <2> QED
    BY <2>5
<1>21. BlocksWellFormed'
  BY <1>12, <1>20 DEF IInv, BlocksWellFormed
<1>22. StatementsStartBlocks'
  BY <1>9, <1>11 DEF StatementsStartBlocks
<1> QED
  BY <1>11, <1>17, <1>18, <1>19, <1>21, <1>22 DEF IInv

\* Branches.
LEMMA Branches ==
  /\ \A b \in Nat : Br(b) \in Instructions /\ IsTerminator(Br(b)) /\ Br(b).to = << b >> /\ Br(b).args = << >>
  /\ \A test \in Values, b, c \in Nat :
       /\ CondBr(test, b, c) \in Instructions /\ IsTerminator(CondBr(test, b, c))
       /\ CondBr(test, b, c).to = << b, c >> /\ CondBr(test, b, c).args = << test >>
<1>1. ASSUME NEW op \in Terminators, NEW args \in Seq(Values), NEW to \in Seq(Nat), NEW instr,
             instr = [Instr(op, args, 0) EXCEPT !.to = to]
      PROVE  instr \in Instructions /\ IsTerminator(instr) /\ instr.to = to
  <2>1. instr = [op |-> op, name |-> "", args |-> args, result |-> 0, to |-> to]
    BY <1>1 DEF Instr
  <2>2. instr \in Instructions
    BY <2>1 DEF Instructions, Opcodes
  <2> QED
    BY <2>1, <2>2 DEF IsTerminator
<1>2. ASSUME NEW b \in Nat PROVE Br(b) \in Instructions /\ IsTerminator(Br(b)) /\ Br(b).to = << b >> /\ Br(b).args = << >>
  <2> DEFINE to == << b >>
             args == << >>
             instr == Br(b)
  <2>1. to \in Seq(Nat) /\ args \in Seq(Values) /\ "br" \in Terminators /\ instr = [Instr("br", args, 0) EXCEPT !.to = to]
    BY DEF Terminators, Br
  <2> HIDE DEF to, args, instr
  <2>2. instr \in Instructions /\ IsTerminator(instr) /\ instr.to = to
    BY <1>1, <2>1
  <2>3. instr.args = args
    BY <2>1 DEF Instr
  <2> QED
    BY <2>2, <2>3 DEF to, args, instr
<1>3. ASSUME NEW test \in Values, NEW b \in Nat, NEW c \in Nat
      PROVE  /\ CondBr(test, b, c) \in Instructions /\ IsTerminator(CondBr(test, b, c))
             /\ CondBr(test, b, c).to = << b, c >> /\ CondBr(test, b, c).args = << test >>
  <2> DEFINE to == << b, c >>
             args == << test >>
             instr == CondBr(test, b, c)
  <2>1. to \in Seq(Nat) /\ args \in Seq(Values) /\ "condbr" \in Terminators
        /\ instr = [Instr("condbr", args, 0) EXCEPT !.to = to]
    BY DEF Terminators, CondBr
  <2> HIDE DEF to, args, instr
  <2>2. instr \in Instructions /\ IsTerminator(instr) /\ instr.to = to
    BY <1>1, <2>1
  <2>3. instr.args = args
    BY <2>1 DEF Instr
  <2> QED
    BY <2>2, <2>3 DEF to, args, instr
<1> QED
  BY <1>2, <1>3

\* The next block of a list.
LEMMA LinkKeeps == IInv /\ Link => IInv'
<1> SUFFICES ASSUME IInv, Link PROVE IInv'
  OBVIOUS
<1>1. stack # << >> /\ Top.pc = "link" /\ FrameInv(Top) /\ Top \in Frames
  BY TopFrame DEF Link, At, IInv
<1>2. Top.of \notin ForValue
  BY <1>1 DEF FrameInv
<1>3. /\ at \in DOMAIN blocks /\ at \in OpenBlocks /\ DOMAIN blocks = 1 .. Len(blocks) /\ Len(blocks) \in Nat
  BY <1>1, AtBlock DEF IInv
<1>4. NewBB \in Nat
  BY <1>3 DEF NewBB
<1> DEFINE closed == {at}
           ends == [b \in {at} |-> Br(NewBB)]
           old == [b \in DOMAIN blocks |-> IF b \in closed THEN Extended(blocks[b], << ends[b] >>) ELSE blocks[b]]
<1>5. blocks' = Append(old, EmptyBB)
  <2>1. old = [blocks EXCEPT ![at] = Extended(@, << Br(NewBB) >>)]
    BY <1>3
  <2> QED
    BY <2>1 DEF Link
<1>6. \A b \in closed : ends[b] = Br(NewBB)
  OBVIOUS
<1>7. \A b \in closed : b = at
  OBVIOUS
<1>8. \A b \in closed : ends[b] \in Instructions /\ IsTerminator(ends[b]) /\ ends[b].to = << NewBB >>
  BY <1>4, <1>6, Branches
<1>9. \A b : b = at => b \in closed
  OBVIOUS
<1> HIDE DEF closed, ends
<1>10. /\ DataInv' /\ Begun
       /\ \A b \in DOMAIN blocks :
            blocks'[b].code = IF b \in closed THEN blocks[b].code \o << ends[b] >> ELSE blocks[b].code
  BY <1>1, <1>5, <1>8, BeginsBlock DEF IInv, Link
<1> DEFINE frame == [Top EXCEPT !.pc = "statements"]
<1>11. /\ frame \in Frames /\ frame.of = Top.of /\ frame.pc = "statements" /\ frame.ast = Top.ast /\ frame.n = Top.n
       /\ frame.done = Top.done /\ frame.stmts = Top.stmts
       /\ frame.BB = Top.BB /\ frame.bodyBB = Top.bodyBB
       /\ frame.lastTrueBB = Top.lastTrueBB /\ frame.falseBB = Top.falseBB
  BY <1>1 DEF Frames, Locations
<1>12. Become(frame)
  BY DEF Link
<1> HIDE DEF frame
<1>13. FrameInv(frame)
  BY <1>1, <1>11 DEF FrameInv, InList, Nested, ForValue
<1>14. Held(frame) = Held(Top) /\ BlocksOf(frame) = BlocksOf(Top)
  BY <1>11 DEF Held, BlocksOf
<1>15. NewBB \notin Held(frame) /\ at \notin Held(frame) /\ (frame.BB # 0 => frame.BB # frame.lastTrueBB)
  <2>1. Len(stack) \in DOMAIN stack /\ Top = stack[Len(stack)]
    BY <1>1, TopFrame DEF IInv
  <2>2. Held(Top) \subseteq DOMAIN blocks
    BY <2>1 DEF IInv, BlocksInv, Held, BlocksOf
  <2> QED
    BY <1>1, <1>10, <1>11, <1>14, <2>1, <2>2 DEF IInv, HeldInv, Begun
<1>16. /\ StackInv' /\ BlocksInv' /\ HeldInv' /\ stack' # << >> /\ Top'.pc = "statements"
       /\ \A b \in DOMAIN blocks : b \in OpenBlocks' <=> b \in OpenBlocks /\ (b = at => at \in Held(frame))
  BY <1>1, <1>2, <1>10, <1>11, <1>12, <1>13, <1>14, <1>15, BecomeBlocks DEF IInv
<1>17. BlocksWellFormed' /\ blocks'[at'].code = << >>
  <2>1. \A b \in DOMAIN blocks : b \in OpenBlocks' <=> b \in OpenBlocks /\ b \notin closed
    BY <1>7, <1>9, <1>15, <1>16
  <2>2. \A b \in closed :
          /\ b \in DOMAIN blocks /\ b \in OpenBlocks /\ blocks[b].func = blocks[at].func
          /\ ends[b] \in Instructions /\ IsTerminator(ends[b])
          /\ \A n \in DOMAIN ends[b].to : ends[b].to[n] \in Siblings(b) \cup {NewBB}
    BY <1>3, <1>7, <1>8
  <2> QED
    BY <1>1, <1>10, <1>16, <2>1, <2>2, BeginKeepsForm DEF IInv
<1>18. StatementsStartBlocks'
  BY <1>17 DEF StatementsStartBlocks
<1> QED
  BY <1>10, <1>16, <1>17, <1>18 DEF IInv

\* A list of statements is begun in a block that nothing reaches yet.
LEMMA BeginsList ==
  ASSUME IInv, stack # << >>, Top.of = "statement",
         blocks' = Append(blocks, EmptyBB), at' = NewBB,
         UNCHANGED << program, k, count, dclSymbolTable, functions, symbols, phase >>,
         NEW frame, FrameInv(frame), frame.of = "statement", frame.pc = "statements", Become(frame), Top.pc # "link",
         BlocksOf(frame) \subseteq BlocksOf(Top) \cup {at} \cup {NewBB},
         Held(frame) = Held(Top) \cup {at},
         frame.BB # frame.lastTrueBB
  PROVE  IInv'
<1>1. /\ at \in DOMAIN blocks /\ at \in OpenBlocks /\ DOMAIN blocks = 1 .. Len(blocks) /\ Len(blocks) \in Nat
  BY AtBlock DEF IInv
<1> DEFINE closed == {}
           ends == [b \in {} |-> Br(0)]
           old == [b \in DOMAIN blocks |-> IF b \in closed THEN Extended(blocks[b], << ends[b] >>) ELSE blocks[b]]
<1>2. blocks' = Append(old, EmptyBB)
  <2>1. blocks = [b \in DOMAIN blocks |-> blocks[b]]
    BY DEF IInv, DataInv
  <2>2. old = [b \in DOMAIN blocks |-> blocks[b]]
    OBVIOUS
  <2> QED
    BY <2>1, <2>2
<1>3. \A b : b \notin closed
  OBVIOUS
<1> HIDE DEF closed, ends
<1>4. /\ DataInv' /\ Begun
      /\ \A b \in DOMAIN blocks :
           blocks'[b].code = IF b \in closed THEN blocks[b].code \o << ends[b] >> ELSE blocks[b].code
  <2>1. \A b \in closed : ends[b] \in Instructions
    BY <1>3
  <2> QED
    BY <1>2, <2>1, BeginsBlock DEF IInv
<1>5. NewBB \notin Held(frame)
  <2>1. Len(stack) \in DOMAIN stack /\ Top = stack[Len(stack)]
    BY TopFrame DEF IInv
  <2>2. Held(Top) \subseteq DOMAIN blocks
    BY <2>1 DEF IInv, BlocksInv, Held, BlocksOf
  <2> QED
    BY <1>1, <1>4, <2>2 DEF Begun
<1>6. Top.of \notin ForValue
  BY DEF ForValue
<1>7. /\ StackInv' /\ BlocksInv' /\ HeldInv' /\ stack' # << >> /\ Top'.pc = "statements"
      /\ \A b \in DOMAIN blocks : b \in OpenBlocks' <=> b \in OpenBlocks /\ (b = at => at \in Held(frame))
  <2>1. Held(frame) \ {at} = Held(Top) \ {at}
    OBVIOUS
  <2>2. BlocksOf(frame) \subseteq BlocksOf(Top) \cup (IF Top.pc = "link" THEN {} ELSE {at}) \cup {NewBB}
    OBVIOUS
  <2> QED
    BY <1>4, <1>5, <1>6, <2>1, <2>2, BecomeBlocks DEF IInv
<1>8. BlocksWellFormed' /\ blocks'[at'].code = << >>
  <2>1. \A b \in DOMAIN blocks : b \in OpenBlocks' <=> b \in OpenBlocks /\ b \notin closed
    BY <1>3, <1>7
  <2> QED
    BY <1>3, <1>4, <1>7, <2>1, BeginKeepsForm DEF IInv
<1>9. StatementsStartBlocks'
  BY <1>8 DEF StatementsStartBlocks
<1> QED
  BY <1>4, <1>7, <1>8, <1>9 DEF IInv

\* trueBB, whileBB.
LEMMA BeginBodyKeeps == IInv /\ BeginBody => IInv'
<1> SUFFICES ASSUME IInv, BeginBody PROVE IInv'
  OBVIOUS
<1>1. stack # << >> /\ Top.pc = "body" /\ FrameInv(Top) /\ Top \in Frames
      /\ Len(stack) \in DOMAIN stack /\ Top = stack[Len(stack)]
  BY TopFrame DEF BeginBody, At, IInv
<1>2. Top.of = "statement" /\ Top.ast.form \in Nested
  BY <1>1 DEF FrameInv, Frames, Kinds, ForValue
<1>3. Top.BB = at /\ Top.BB # 0 /\ 1 \in DOMAIN Top.done
  <2>1. Top.BB = at
    BY <1>1 DEF IInv, HeldInv
  <2>2. Top.BB # 0
    BY <1>1, <1>2 DEF FrameInv
  <2>3. 1 \in DOMAIN Top.done
    BY <1>1 DEF IInv, StackInv
  <2> QED
    BY <2>1, <2>2, <2>3
<1>4. Top.lastTrueBB = 0 /\ Top.falseBB = 0
  BY <1>1 DEF FrameInv, InList
<1>5. Top.ast.kids[2].kids \in Seq(TreesOf(Statements))
  <2>1. Top.ast \in Trees
    BY <1>1 DEF Frames
  <2>2. Top.ast.kids \in Seq(Trees) /\ 2 \in DOMAIN Top.ast.kids /\ Top.ast.kids[2].form = "BLOCK"
    BY <1>2, <2>1, Kids
  <2>3. Top.ast.kids[2] \in Trees
    BY <2>2
  <2> QED
    BY <2>2, <2>3, BlockStatements
<1>6. NewBB \in Nat /\ NewBB # 0
  BY <1>1, AtBlock DEF NewBB, IInv
<1> DEFINE list == Top.ast.kids[2].kids
           frame == [Top EXCEPT !.pc = "statements", !.bodyBB = NewBB, !.stmts = list, !.n = 0]
<1>7. Become(frame)
  BY DEF BeginBody
<1>8. list \in Seq(TreesOf(Statements))
  BY <1>5
<1> HIDE DEF list
<1>9. /\ frame \in Frames /\ frame.of = Top.of /\ frame.pc = "statements" /\ frame.ast = Top.ast /\ frame.n = 0
      /\ frame.done = Top.done /\ frame.stmts = list
      /\ frame.BB = Top.BB /\ frame.bodyBB = NewBB
      /\ frame.lastTrueBB = Top.lastTrueBB /\ frame.falseBB = Top.falseBB
  BY <1>1, <1>6, <1>8 DEF Frames, Locations
<1> HIDE DEF frame
<1>10. FrameInv(frame)
  <2>1. frame.n <= Len(frame.stmts)
    BY <1>8, <1>9
  <2> QED
    BY <1>1, <1>2, <1>3, <1>4, <1>6, <1>9, <2>1 DEF FrameInv, InList, ForValue, Nested, Statements
<1>11. /\ Held(frame) = Held(Top) \cup {at}
       /\ BlocksOf(frame) \subseteq BlocksOf(Top) \cup {at} \cup {NewBB}
       /\ frame.BB # frame.lastTrueBB
  BY <1>3, <1>4, <1>9 DEF Held, BlocksOf
<1> QED
  BY <1>1, <1>2, <1>7, <1>9, <1>10, <1>11, BeginsList DEF BeginBody

\* falseBB.
LEMMA BeginElseKeeps == IInv /\ BeginElse => IInv'
<1> SUFFICES ASSUME IInv, BeginElse PROVE IInv'
  OBVIOUS
<1>1. stack # << >> /\ Top.pc = "statements" /\ FrameInv(Top) /\ Top \in Frames
      /\ Len(stack) \in DOMAIN stack /\ Top = stack[Len(stack)] /\ Top.ast.form = "IF" /\ Top.falseBB = 0
  BY TopFrame DEF BeginElse, AtEnd, At, IInv
<1>2. Top.of = "statement"
  BY <1>1 DEF FrameInv, Frames, Kinds, ForValue, Valued, Factors, Terms, Exprs
<1>3. Top.BB # 0 /\ Top.bodyBB # 0 /\ 1 \in DOMAIN Top.done /\ Top.lastTrueBB = 0
  BY <1>1, <1>2 DEF FrameInv, InList
<1>4. at # 0 /\ at \in Nat /\ Top.BB # at
  <2>1. at # 0 /\ at \in Nat
    BY <1>1 DEF IInv, DataInv
  <2>2. at \notin Held(Top)
    BY <1>1 DEF IInv, HeldInv
  <2> QED
    BY <2>1, <2>2 DEF Held
<1>5. Top.ast.kids[3].kids \in Seq(TreesOf(Statements))
  <2>1. Top.ast \in Trees
    BY <1>1 DEF Frames
  <2>2. Top.ast.kids \in Seq(Trees) /\ 3 \in DOMAIN Top.ast.kids /\ Top.ast.kids[3].form = "BLOCK"
    BY <1>1, <2>1, Kids
  <2>3. Top.ast.kids[3] \in Trees
    BY <2>2
  <2> QED
    BY <2>2, <2>3, BlockStatements
<1>6. NewBB \in Nat /\ NewBB # 0
  BY <1>1, AtBlock DEF NewBB, IInv
<1> DEFINE list == Top.ast.kids[3].kids
           frame == [Top EXCEPT !.lastTrueBB = at, !.falseBB = NewBB, !.stmts = list, !.n = 0]
<1>7. Become(frame)
  BY DEF BeginElse
<1>8. list \in Seq(TreesOf(Statements))
  BY <1>5
<1> HIDE DEF list
<1>9. /\ frame \in Frames /\ frame.of = Top.of /\ frame.pc = "statements" /\ frame.ast = Top.ast /\ frame.n = 0
      /\ frame.done = Top.done /\ frame.stmts = list
      /\ frame.BB = Top.BB /\ frame.bodyBB = Top.bodyBB
      /\ frame.lastTrueBB = at /\ frame.falseBB = NewBB
  BY <1>1, <1>4, <1>6, <1>8 DEF Frames
<1> HIDE DEF frame
<1>10. FrameInv(frame)
  <2>1. frame.n <= Len(frame.stmts)
    BY <1>8, <1>9
  <2> QED
    BY <1>1, <1>2, <1>3, <1>4, <1>6, <1>9, <2>1 DEF FrameInv, InList, ForValue, Statements, Nested
<1>11. /\ Held(frame) = Held(Top) \cup {at}
       /\ BlocksOf(frame) \subseteq BlocksOf(Top) \cup {at} \cup {NewBB}
       /\ frame.BB # frame.lastTrueBB
  BY <1>3, <1>4, <1>9 DEF Held, BlocksOf
<1> QED
  BY <1>1, <1>2, <1>7, <1>9, <1>10, <1>11, BeginsList DEF BeginElse

\* The blocks that the call on top left open, and the current one, are ended.
Closes(ends) ==
  /\ blocks' = Append([b \in DOMAIN blocks |->
                         IF b \in Held(Top) \cup {at} THEN Extended(blocks[b], << ends[b] >>) ELSE blocks[b]],
                      EmptyBB)
  /\ \A b \in Held(Top) \cup {at} :
       /\ ends[b] \in Instructions /\ IsTerminator(ends[b])
       /\ \A n \in DOMAIN ends[b].to : ends[b].to[n] \in BlocksOf(Top) \cup {NewBB}
       /\ ends[b].args = << >> \/ (b = Top.BB /\ ends[b].args = << Arg(1) >>)

\* Everything a statement has left open is closed.
LEMMA EndsStatement ==
  ASSUME IInv, AtEnd, Top.ast.form \in Nested, NEW ends, Closes(ends), at' = NewBB, ReturnVoid,
         UNCHANGED << program, k, count, dclSymbolTable, functions, symbols, phase >>
  PROVE  IInv'
<1>1. stack # << >> /\ Top.pc = "statements" /\ FrameInv(Top) /\ Top \in Frames
      /\ Len(stack) \in DOMAIN stack /\ Top = stack[Len(stack)]
  BY TopFrame DEF AtEnd, At, IInv
<1>2. Top.of = "statement"
  BY <1>1 DEF FrameInv, Frames, Kinds, ForValue, Nested, Valued, Factors, Terms, Exprs
<1>3. at \in DOMAIN blocks /\ at \in OpenBlocks
  BY <1>1, AtBlock DEF IInv
<1> DEFINE closed == Held(Top) \cup {at}
           old == [b \in DOMAIN blocks |-> IF b \in closed THEN Extended(blocks[b], << ends[b] >>) ELSE blocks[b]]
<1>4. blocks' = Append(old, EmptyBB)
  BY DEF Closes
<1>5. \A b : b \in closed <=> b \in Held(Top) \/ b = at
  OBVIOUS
<1>6. \A b \in closed :
        /\ ends[b] \in Instructions /\ IsTerminator(ends[b])
        /\ \A n \in DOMAIN ends[b].to : ends[b].to[n] \in BlocksOf(Top) \cup {NewBB}
  BY DEF Closes
<1> HIDE DEF closed
<1>7. /\ DataInv' /\ Begun
      /\ \A b \in DOMAIN blocks :
           blocks'[b].code = IF b \in closed THEN blocks[b].code \o << ends[b] >> ELSE blocks[b].code
  BY <1>1, <1>4, <1>6, BeginsBlock DEF IInv
<1>8. /\ StackInv' /\ BlocksInv' /\ HeldInv' /\ stack' # << >> /\ Top'.pc = "link"
      /\ \A b \in DOMAIN blocks : b \in OpenBlocks' <=> b \in OpenBlocks /\ b # at /\ b \notin Held(Top)
  BY <1>1, <1>2, <1>7, EndBlocks DEF IInv
<1>9. \A b \in closed :
        /\ b \in DOMAIN blocks /\ b \in OpenBlocks /\ blocks[b].func = blocks[at].func
        /\ \A c \in BlocksOf(Top) : c \in Siblings(b)
  <2> TAKE b \in closed
  <2>1. \A c \in BlocksOf(Top) : c \in DOMAIN blocks /\ blocks[c].func = blocks[at].func /\ c # Entry(at)
    BY <1>1 DEF IInv, BlocksInv
  <2>2. Held(Top) \subseteq BlocksOf(Top)
    BY DEF Held, BlocksOf
  <2>3. b \in DOMAIN blocks /\ blocks[b].func = blocks[at].func
    BY <1>3, <1>5, <2>1, <2>2
  <2>4. Entry(b) = Entry(at)
    BY <2>3 DEF Entry
  <2>5. b \in OpenBlocks
    BY <1>1, <1>5, OpenBlocksAre
  <2> QED
    BY <2>1, <2>3, <2>4, <2>5 DEF Siblings
<1>10. BlocksWellFormed'
  <2>1. \A b \in DOMAIN blocks : b \in OpenBlocks' <=> b \in OpenBlocks /\ b \notin closed
    BY <1>5, <1>8
  <2>2. \A b \in closed :
          /\ b \in DOMAIN blocks /\ b \in OpenBlocks /\ blocks[b].func = blocks[at].func
          /\ ends[b] \in Instructions /\ IsTerminator(ends[b])
          /\ \A n \in DOMAIN ends[b].to : ends[b].to[n] \in Siblings(b) \cup {NewBB}
    BY <1>6, <1>9
  <2> QED
    BY <1>1, <1>7, <1>8, <2>1, <2>2, BeginKeepsForm DEF IInv
<1>11. StatementsStartBlocks'
  BY <1>8 DEF StatementsStartBlocks
<1> QED
  BY <1>7, <1>8, <1>10, <1>11 DEF IInv

\* The exit of an IfStatement.
LEMMA EndIfCloses == IInv /\ EndIf => \E ends : Closes(ends)
<1> SUFFICES ASSUME IInv, EndIf PROVE \E ends : Closes(ends)
  OBVIOUS
<1>1. stack # << >> /\ Top.pc = "statements" /\ FrameInv(Top) /\ Top \in Frames
      /\ Len(stack) \in DOMAIN stack /\ Top = stack[Len(stack)] /\ Top.ast.form = "IF" /\ Top.falseBB # 0
      /\ \A n \in DOMAIN Top.done : Arg(n) \in Values
  BY TopFrame DEF EndIf, AtEnd, At, IInv
<1>2. Top.of = "statement"
  BY <1>1 DEF FrameInv, Frames, Kinds, ForValue, Valued, Factors, Terms, Exprs
<1>3. Top.BB # 0 /\ Top.bodyBB # 0 /\ 1 \in DOMAIN Top.done /\ Top.lastTrueBB # 0
  BY <1>1, <1>2 DEF FrameInv, InList
<1>4. Top.BB # Top.lastTrueBB /\ at \notin Held(Top) /\ Held(Top) = {Top.BB, Top.lastTrueBB}
  BY <1>1, <1>3 DEF IInv, HeldInv, Held
<1>5. NewBB \in Nat /\ Top.bodyBB \in Nat /\ Top.falseBB \in Nat /\ Top.done[1] \in Values
  BY <1>1, <1>3, AtBlock DEF IInv, NewBB, Frames, Arg
<1>6. Top.bodyBB \in BlocksOf(Top) /\ Top.falseBB \in BlocksOf(Top)
  BY <1>1, <1>3 DEF BlocksOf
<1> DEFINE closed == Held(Top) \cup {at}
           ends == [b \in closed |-> IF b = Top.BB THEN CondBr(Top.done[1], Top.bodyBB, Top.falseBB) ELSE Br(NewBB)]
<1>7. \A b \in closed :
        /\ ends[b] \in Instructions /\ IsTerminator(ends[b])
        /\ \A n \in DOMAIN ends[b].to : ends[b].to[n] \in BlocksOf(Top) \cup {NewBB}
        /\ ends[b].args = << >> \/ (b = Top.BB /\ ends[b].args = << Arg(1) >>)
  <2> DEFINE cond == CondBr(Top.done[1], Top.bodyBB, Top.falseBB)
             br == Br(NewBB)
  <2>1. cond \in Instructions /\ IsTerminator(cond) /\ cond.to = << Top.bodyBB, Top.falseBB >>
        /\ cond.args = << Arg(1) >>
    BY <1>5, Branches DEF Arg
  <2>2. br \in Instructions /\ IsTerminator(br) /\ br.to = << NewBB >> /\ br.args = << >>
    BY <1>5, Branches
  <2>3. \A b \in closed : (b = Top.BB /\ ends[b] = cond) \/ ends[b] = br
    OBVIOUS
  <2> HIDE DEF cond, br, ends, closed
  <2> QED
    BY <1>6, <2>1, <2>2, <2>3
<1>8. blocks' = Append([b \in DOMAIN blocks |->
                          IF b \in closed THEN Extended(blocks[b], << ends[b] >>) ELSE blocks[b]], EmptyBB)
  <2> DEFINE New(b) == CASE b = Top.BB -> Extended(blocks[b], << CondBr(Top.done[1], Top.bodyBB, Top.falseBB) >>)
                         [] b \in {Top.lastTrueBB, at} -> Extended(blocks[b], << Br(NewBB) >>)
                         [] OTHER -> blocks[b]
  <2>1. blocks' = Append([b \in DOMAIN blocks |-> New(b)], EmptyBB)
    BY DEF EndIf
  <2>2. \A b \in DOMAIN blocks : New(b) = IF b \in closed THEN Extended(blocks[b], << ends[b] >>) ELSE blocks[b]
    <3> TAKE b \in DOMAIN blocks
    <3>1. CASE b = Top.BB
      <4>1. b \notin {Top.lastTrueBB, at} /\ b \in closed
        BY <1>4, <3>1
      <4> QED
        BY <3>1, <4>1
    <3>2. CASE b \in {Top.lastTrueBB, at}
      <4>1. b # Top.BB /\ b \in closed
        BY <1>4, <3>2
      <4> QED
        BY <3>2, <4>1
    <3>3. CASE b # Top.BB /\ b \notin {Top.lastTrueBB, at}
      <4>1. b \notin closed
        BY <1>4, <3>3
      <4> QED
        BY <3>3, <4>1
    <3> QED
      BY <3>1, <3>2, <3>3
  <2> HIDE DEF New, closed, ends
  <2> QED
    BY <2>1, <2>2
<1> HIDE DEF ends
<1> QED
  BY <1>7, <1>8 DEF Closes


\* Nothing else is disturbed.
LEMMA EndIfKeeps == IInv /\ EndIf => IInv'
<1> SUFFICES ASSUME IInv, EndIf PROVE IInv'
  OBVIOUS
<1>1. PICK ends : Closes(ends)
  BY EndIfCloses
<1>2. Top.ast.form \in Nested
  BY DEF EndIf, Nested
<1> QED
  BY <1>1, <1>2, EndsStatement DEF EndIf

\* The exit of a WhileStatement.
LEMMA EndWhileCloses == IInv /\ EndWhile => \E ends : Closes(ends)
<1> SUFFICES ASSUME IInv, EndWhile PROVE \E ends : Closes(ends)
  OBVIOUS
<1>1. stack # << >> /\ Top.pc = "statements" /\ FrameInv(Top) /\ Top \in Frames
      /\ Len(stack) \in DOMAIN stack /\ Top = stack[Len(stack)] /\ Top.ast.form = "WHILE"
      /\ \A n \in DOMAIN Top.done : Arg(n) \in Values
  BY TopFrame DEF EndWhile, AtEnd, At, IInv
<1>2. Top.of = "statement"
  BY <1>1 DEF FrameInv, Frames, Kinds, ForValue, Valued, Factors, Terms, Exprs
<1>3. Top.BB # 0 /\ Top.bodyBB # 0 /\ 1 \in DOMAIN Top.done /\ Top.lastTrueBB = 0
  BY <1>1, <1>2 DEF FrameInv, InList
<1>4. at \notin Held(Top) /\ Held(Top) = {Top.BB}
  BY <1>1, <1>3 DEF IInv, HeldInv, Held
<1>5. NewBB \in Nat /\ Top.bodyBB \in Nat /\ Top.BB \in Nat /\ Top.done[1] \in Values
  BY <1>1, <1>3, AtBlock DEF IInv, NewBB, Frames, Arg
<1>6. Top.bodyBB \in BlocksOf(Top) /\ Top.BB \in BlocksOf(Top)
  BY <1>1, <1>3 DEF BlocksOf
<1> DEFINE closed == Held(Top) \cup {at}
           ends == [b \in closed |-> IF b = Top.BB THEN CondBr(Top.done[1], Top.bodyBB, NewBB) ELSE Br(Top.BB)]
<1>7. \A b \in closed :
        /\ ends[b] \in Instructions /\ IsTerminator(ends[b])
        /\ \A n \in DOMAIN ends[b].to : ends[b].to[n] \in BlocksOf(Top) \cup {NewBB}
        /\ ends[b].args = << >> \/ (b = Top.BB /\ ends[b].args = << Arg(1) >>)
  <2> DEFINE cond == CondBr(Top.done[1], Top.bodyBB, NewBB)
             br == Br(Top.BB)
  <2>1. cond \in Instructions /\ IsTerminator(cond) /\ cond.to = << Top.bodyBB, NewBB >>
        /\ cond.args = << Arg(1) >>
    BY <1>5, Branches DEF Arg
  <2>2. br \in Instructions /\ IsTerminator(br) /\ br.to = << Top.BB >> /\ br.args = << >>
    BY <1>5, Branches
  <2>3. \A b \in closed : (b = Top.BB /\ ends[b] = cond) \/ ends[b] = br
    OBVIOUS
  <2> HIDE DEF cond, br, ends, closed
  <2> QED
    BY <1>6, <2>1, <2>2, <2>3
<1>8. blocks' = Append([b \in DOMAIN blocks |->
                          IF b \in closed THEN Extended(blocks[b], << ends[b] >>) ELSE blocks[b]], EmptyBB)
  <2> DEFINE New(b) == CASE b = Top.BB -> Extended(blocks[b], << CondBr(Top.done[1], Top.bodyBB, NewBB) >>)
                         [] b = at -> Extended(blocks[b], << Br(Top.BB) >>)
                         [] OTHER -> blocks[b]
  <2>1. blocks' = Append([b \in DOMAIN blocks |-> New(b)], EmptyBB)
    BY DEF EndWhile
  <2>2. \A b \in DOMAIN blocks : New(b) = IF b \in closed THEN Extended(blocks[b], << ends[b] >>) ELSE blocks[b]
    <3> TAKE b \in DOMAIN blocks
    <3>1. CASE b = Top.BB
      <4>1. b # at /\ b \in closed
        BY <1>4, <3>1
      <4> QED
        BY <3>1, <4>1
    <3>2. CASE b = at
      <4>1. b # Top.BB /\ b \in closed
        BY <1>4, <3>2
      <4> QED
        BY <3>2, <4>1
    <3>3. CASE b # Top.BB /\ b # at
      <4>1. b \notin closed
        BY <1>4, <3>3
      <4> QED
        BY <3>3, <4>1
    <3> QED
      BY <3>1, <3>2, <3>3
  <2> HIDE DEF New, closed, ends
  <2> QED
    BY <2>1, <2>2
<1> HIDE DEF ends
<1> QED
  BY <1>7, <1>8 DEF Closes


\* Nothing else is disturbed.
LEMMA EndWhileKeeps == IInv /\ EndWhile => IInv'
<1> SUFFICES ASSUME IInv, EndWhile PROVE IInv'
  OBVIOUS
<1>1. PICK ends : Closes(ends)
  BY EndWhileCloses
<1>2. Top.ast.form \in Nested
  BY DEF EndWhile, Nested
<1> QED
  BY <1>1, <1>2, EndsStatement DEF EndWhile

\* The return of a value.
LEMMA Returns ==
  ASSUME NEW value \in Values
  PROVE  LET instr == Instr("ret", << value >>, 0)
         IN  instr \in Instructions /\ IsTerminator(instr) /\ instr.to = << >>
<1> DEFINE to == << >>
           args == << value >>
           instr == Instr("ret", args, 0)
<1>1. to \in Seq(Nat) /\ args \in Seq(Values)
  OBVIOUS
<1>2. instr = [op |-> "ret", name |-> "", args |-> args, result |-> 0, to |-> to]
  BY DEF Instr
<1>3. instr.op = "ret" /\ instr.to = << >>
  BY DEF Instr
<1> HIDE DEF to, args, instr
<1>4. instr \in Instructions
  BY <1>1, <1>2 DEF Instructions, Opcodes, Terminators
<1>5. IsTerminator(instr)
  BY <1>3 DEF IsTerminator, Terminators
<1> QED
  BY <1>3, <1>4, <1>5 DEF instr, args

\* The last block of a procedure.
LEMMA CreateRetKeeps == IInv /\ CreateRet => IInv'
<1> SUFFICES ASSUME IInv, CreateRet PROVE IInv'
  OBVIOUS
<1>1. stack # << >> /\ Top.pc = "return" /\ FrameInv(Top) /\ Top \in Frames
      /\ Len(stack) \in DOMAIN stack /\ Top = stack[Len(stack)]
      /\ \A n \in DOMAIN Top.done : Arg(n) \in Values
  BY TopFrame DEF CreateRet, At, IInv
<1>2. Top.of = "procedure" /\ Top.of \notin ForValue
  BY <1>1 DEF FrameInv, Frames, Kinds, ForValue
<1>3. Top.BB = 0 /\ Top.lastTrueBB = 0 /\ 1 \in DOMAIN Top.done
  BY <1>1, <1>2 DEF FrameInv, IInv, StackInv
<1>4. StackInv' /\ stack' = << >>
  BY <1>1, <1>2, ReturnVoidKeeps DEF IInv, CreateRet
<1>5. Len(stack) = 1 /\ DOMAIN stack = {1}
  <2>1. Len(stack) = 1
    BY <1>1, <1>2 DEF IInv, StackInv
  <2>2. stack \in Seq(Frames)
    BY DEF IInv, StackInv
  <2> QED
    BY <2>1, <2>2
<1>6. /\ at \in DOMAIN blocks /\ at \in OpenBlocks
      /\ DOMAIN blocks = 1 .. Len(blocks) /\ Len(blocks) \in Nat
      /\ blocks[at] \in [func : DOMAIN functions, code : Seq(Instructions)]
  BY <1>1, AtBlock DEF IInv
<1>7. \A b : b \in OpenBlocks <=> b = at
  <2>1. Held(stack[1]) = {}
    BY <1>1, <1>3, <1>5 DEF Held
  <2> QED
    BY <1>1, <1>5, <2>1, OpenBlocksAre
<1>8. \A b : b \notin OpenBlocks'
  BY <1>4, OpenBlocksAre
<1> DEFINE ret == Instr("ret", << Arg(1) >>, 0)
<1>9. ret \in Instructions /\ IsTerminator(ret) /\ ret.to = << >>
  BY <1>1, <1>3, Returns
<1>10. Insert(<< ret >>)
  BY DEF CreateRet
<1> HIDE DEF ret
<1>11. \A b \in DOMAIN blocks : Inner(blocks[b].code) /\ (Ended(blocks[b].code) <=> b \notin OpenBlocks)
                               /\ GoesTo(blocks[b].code, Siblings(b))
  BY WellFormedBlocks DEF IInv
<1> DEFINE new == [func |-> blocks[at].func, code |-> blocks[at].code \o << ret >>]
<1>12. blocks' = [blocks EXCEPT ![at] = new]
  BY <1>10 DEF Insert, Extended, BasicBlock
<1>13. /\ blocks[at].code \o << ret >> \in Seq(Instructions)
       /\ Inner(new.code) /\ Ended(new.code) /\ GoesTo(new.code, Siblings(at))
  <2>1. \A n \in DOMAIN ret.to : ret.to[n] \in Siblings(at)
    BY <1>9
  <2> QED
    BY <1>6, <1>9, <1>11, <2>1, ExtendTerminator
<1>14. new \in [func : DOMAIN functions, code : Seq(Instructions)] /\ new.func = blocks[at].func
  BY <1>6, <1>13
<1> HIDE DEF new
<1>15. /\ blocks' \in Seq([func : DOMAIN functions, code : Seq(Instructions)])
       /\ Len(blocks') = Len(blocks) /\ DOMAIN blocks' = DOMAIN blocks
       /\ \A b \in DOMAIN blocks : blocks'[b] = IF b = at THEN new ELSE blocks[b]
  BY <1>6, <1>12, <1>14 DEF IInv, DataInv
<1>16. UNCHANGED << program, k, at, dclSymbolTable, functions, symbols, phase >>
  BY DEF CreateRet
<1>17. DataInv'
  <2>1. count' \in Nat
    BY <1>10 DEF IInv, DataInv, Insert
  <2>2. Instructions' = Instructions
    BY <1>16 DEF Instructions
  <2> QED
    BY <1>4, <1>15, <1>16, <2>1, <2>2 DEF IInv, DataInv
<1>18. BlocksInv' /\ HeldInv' /\ StatementsStartBlocks'
  BY <1>4 DEF BlocksInv, HeldInv, StatementsStartBlocks
<1>19. \A b \in DOMAIN blocks : Siblings(b)' = Siblings(b)
  <2>1. \A b \in DOMAIN blocks : blocks'[b].func = blocks[b].func
    BY <1>14, <1>15
  <2> QED
    BY <1>15, <1>16, <2>1 DEF Siblings, Entry
<1>20. BlocksWellFormed'
  <2>1. \A b \in DOMAIN blocks' :
          /\ Inner(blocks'[b].code)
          /\ Ended(blocks'[b].code) <=> b \notin OpenBlocks'
          /\ GoesTo(blocks'[b].code, Siblings(b)')
    <3> TAKE b \in DOMAIN blocks'
    <3>1. b \in DOMAIN blocks
      BY <1>15
    <3>2. CASE b = at
      BY <1>6, <1>8, <1>13, <1>15, <1>19, <3>2
    <3>3. CASE b # at
      <4>1. blocks'[b] = blocks[b] /\ Siblings(b)' = Siblings(b)
        BY <1>15, <1>19, <3>1, <3>3
      <4> QED
        BY <1>7, <1>8, <1>11, <3>1, <3>3, <4>1
    <3> QED
      BY <3>2, <3>3
  <2> QED
    BY <2>1 DEF BlocksWellFormed, Inner, Ended, GoesTo, Siblings, Entry
<1> QED
  BY <1>4, <1>17, <1>18, <1>20 DEF IInv

\* The variables of a procedure.
LEMMA EntryCodeTypes ==
  ASSUME count \in Nat, NEW p \in Procedures, \A n \in DOMAIN p.dcls : ~ BadValue(p.dcls[n])
  PROVE  EntryCode(p) \in Seq({ instr \in Instructions : Plain(instr) })
<1> DEFINE P == { instr \in Instructions : Plain(instr) }
           args == Len(p.params)
           all == p.params \o p.dcls
           Alloca(n) == Instr("alloca", << >>, count + args + n)
           Initial(n) == IF n <= args THEN Reg(LLVMType(all[n].type), count + n) ELSE InitialValue(all[n])
           Store(n) == Instr("store", << Initial(n), Reg(PointerTo(LLVMType(all[n].type)), count + args + n) >>, 0)
<1>1. p.params \in Seq(Dcls) /\ p.dcls \in Seq(Dcls)
  BY DEF Procedures
<1>2. args \in Nat /\ Len(p.dcls) \in Nat /\ all \in Seq(Dcls) /\ Len(all) = args + Len(p.dcls)
  BY <1>1
<1>3. \A n \in 1 .. Len(all) : n \in Nat /\ (~ (n <= args) => n - args \in DOMAIN p.dcls /\ all[n] = p.dcls[n - args])
  <2> DEFINE d == Len(p.dcls)
  <2>1. args \in Nat /\ d \in Nat /\ Len(all) = args + d /\ DOMAIN p.dcls = 1 .. d
    BY <1>1, <1>2
  <2>2. \A n \in 1 .. (args + d) : ~ (n <= args) => all[n] = p.dcls[n - args]
    BY <1>1
  <2> HIDE DEF args, d, all
  <2>3. \A n \in 1 .. (args + d) : n \in Nat /\ (~ (n <= args) => n - args \in 1 .. d)
    BY <2>1
  <2> QED
    BY <2>1, <2>2, <2>3
<1>5. EntryCode(p) = [n \in 1 .. Len(all) |-> Alloca(n)] \o [n \in 1 .. Len(all) |-> Store(n)]
  BY DEF EntryCode
<1> HIDE DEF P, args, all, Alloca, Store
<1>6. \A n \in 1 .. Len(all) : Alloca(n) \in P
  <2> TAKE n \in 1 .. Len(all)
  <2>1. << >> \in Seq(Values) /\ "alloca" \in Opcodes \ Terminators
    BY DEF Opcodes, Terminators
  <2>2. count + args + n \in Nat
    BY <1>2, <1>3
  <2> QED
    BY <2>1, <2>2, Plains DEF P, Alloca
<1>7. \A n \in 1 .. Len(all) : Store(n) \in P
  <2> TAKE n \in 1 .. Len(all)
  <2>1. count + args + n \in Nat /\ count + n \in Nat
    BY <1>2, <1>3
  <2>2. \A t : LLVMType(t) \in LLVMTypes /\ PointerTo(LLVMType(t)) \in LLVMTypes
    BY DEF LLVMType, PointerTo, LLVMTypes
  <2>3. Initial(n) \in Values
    <3>1. CASE n <= args
      BY <2>1, <2>2, <3>1, ValueTypes
    <3>2. CASE ~ (n <= args)
      <4>1. ~ BadValue(all[n])
        BY <1>3, <3>2
      <4>2. all[n].type = "INT" => Number[all[n].value] \in Int
        BY <4>1, TreeAssumption DEF BadValue
      <4>3. InitialValue(all[n]) \in Values
        BY <4>2, ValueTypes DEF InitialValue, LLVMTypes
      <4> QED
        BY <3>2, <4>3
    <3> QED
      BY <3>1, <3>2
  <2> HIDE DEF Initial
  <2>4. Reg(PointerTo(LLVMType(all[n].type)), count + args + n) \in Values
    BY <2>1, <2>2, ValueTypes
  <2>5. << Initial(n), Reg(PointerTo(LLVMType(all[n].type)), count + args + n) >> \in Seq(Values)
    BY <2>3, <2>4, Tuples
  <2>6. "store" \in Opcodes \ Terminators
    BY DEF Opcodes, Terminators
  <2> QED
    BY <2>5, <2>6, Plains DEF P, Store
<1>8. Len(all) \in Nat
  BY <1>2
<1>9. [n \in 1 .. Len(all) |-> Alloca(n)] \in Seq(P) /\ [n \in 1 .. Len(all) |-> Store(n)] \in Seq(P)
  BY <1>6, <1>7, <1>8
<1>10. EntryCode(p) \in Seq(P)
  BY <1>5, <1>9
<1> QED
  BY <1>10 DEF P

\* The call of a procedure.
LEMMA ProcedureFrameInv ==
  ASSUME NEW p \in Procedures
  PROVE  /\ FrameInv(ProcedureFrame(p))
         /\ ProcedureFrame(p).of = "procedure" /\ ProcedureFrame(p).pc = "link"
         /\ BlocksOf(ProcedureFrame(p)) = {} /\ Held(ProcedureFrame(p)) = {}
         /\ ProcedureFrame(p).BB = 0
<1> DEFINE first == Frame("procedure", p.ret[1])
           new == [first EXCEPT !.pc = "link", !.stmts = p.stmts]
<1>1. p.ret[1] \in TreesOf(Valued) /\ p.stmts \in Seq(TreesOf(Statements))
  BY DEF Procedures
<1>2. p.ret[1] \in Trees /\ p.ret[1].form \in Valued
  BY <1>1 DEF TreesOf
<1>3. [n \in {} |-> 0] \in PartialValues
  BY DEF PartialValues
<1>4. << >> \in Seq(TreesOf(Statements))
  OBVIOUS
<1>5. /\ first \in Frames /\ first.of = "procedure" /\ first.ast = p.ret[1] /\ first.n = 0
      /\ first.BB = 0 /\ first.bodyBB = 0 /\ first.lastTrueBB = 0 /\ first.falseBB = 0
  BY <1>2, <1>3, <1>4 DEF Frame, Frames, Kinds, Locations
<1>6. ProcedureFrame(p) = new
  BY DEF ProcedureFrame
<1> HIDE DEF first
<1>7. /\ new \in Frames /\ new.of = "procedure" /\ new.pc = "link" /\ new.ast = p.ret[1] /\ new.n = 0
      /\ new.stmts = p.stmts
      /\ new.BB = 0 /\ new.bodyBB = 0 /\ new.lastTrueBB = 0 /\ new.falseBB = 0
  BY <1>1, <1>5 DEF Frames, Locations
<1>8. 0 <= Len(p.stmts)
  BY <1>1
<1> HIDE DEF new
<1>9. FrameInv(new)
  BY <1>2, <1>7, <1>8 DEF FrameInv, InList, ForValue
<1>10. BlocksOf(new) = {} /\ Held(new) = {}
  BY <1>7 DEF BlocksOf, Held
<1> QED
  BY <1>6, <1>7, <1>9, <1>10

\* Another procedure has a name; what could be called before still can.
LEMMA NewFunction ==
  ASSUME DataInv, NEW name \in STRING, NEW func \in Functions, func.entry = NewBB,
         functions' = [f \in DOMAIN functions \cup {name} |-> IF f = name THEN func ELSE functions[f]],
         Len(blocks') = NewBB
  PROVE  /\ DOMAIN functions' = DOMAIN functions \cup {name} /\ DOMAIN functions' \subseteq STRING
         /\ \A f \in DOMAIN functions' : functions'[f] \in Functions /\ functions'[f].entry <= Len(blocks')
         /\ \A f \in DOMAIN functions : functions'[f].entry \in {functions[f].entry, NewBB}
         /\ Instructions \subseteq Instructions'
<1>1. DOMAIN functions' = DOMAIN functions \cup {name} /\ DOMAIN functions' \subseteq STRING
  BY DEF DataInv
<1>2. \A f \in DOMAIN functions' : functions'[f] = IF f = name THEN func ELSE functions[f]
  OBVIOUS
<1>3. Len(blocks) \in Nat
  BY DEF DataInv
<1>4. \A f \in DOMAIN functions' : functions'[f] \in Functions /\ functions'[f].entry <= Len(blocks')
  <2> TAKE f \in DOMAIN functions'
  <2>1. CASE f = name
    BY <1>2, <1>3, <2>1 DEF NewBB
  <2>2. CASE f # name
    <3>1. functions'[f] = functions[f] /\ f \in DOMAIN functions
      BY <1>1, <1>2, <2>2
    <3>2. functions[f] \in Functions /\ functions[f].entry <= Len(blocks)
      BY <3>1 DEF DataInv
    <3>3. functions[f].entry \in Nat
      BY <3>2 DEF Functions
    <3> QED
      BY <1>3, <3>1, <3>2, <3>3 DEF NewBB
  <2> QED
    BY <2>1, <2>2
<1>5. \A f \in DOMAIN functions : functions'[f].entry \in {functions[f].entry, NewBB}
  BY <1>1, <1>2
<1>6. Instructions \subseteq Instructions'
  BY <1>1 DEF Instructions
<1> QED
  BY <1>1, <1>4, <1>5, <1>6

\* The entry block is begun before anything is left open.
LEMMA ProcedureKeeps == IInv /\ Procedure => IInv'
<1> SUFFICES ASSUME IInv, Procedure PROVE IInv'
  OBVIOUS
<1> DEFINE p == program[k + 1]
           args == Len(p.params)
           all == p.params \o p.dcls
           func == [entry |-> NewBB, first |-> count, types |-> [n \in 1 .. args |-> LLVMType(p.params[n].type)]]
           new == BasicBlock(p.name, EntryCode(p))
<1>1. /\ \A n \in DOMAIN p.dcls : ~ BadValue(p.dcls[n])
      /\ functions' = [f \in DOMAIN functions \cup {p.name} |-> IF f = p.name THEN func ELSE functions[f]]
      /\ symbols' = Declared(p.name, "procedure")
      /\ blocks' = Append(blocks, new)
      /\ dclSymbolTable' =
           [id \in { all[n].id : n \in DOMAIN all } |->
              LET n == CHOOSE m \in DOMAIN all : all[m].id = id
              IN  Reg(PointerTo(LLVMType(all[n].type)), count + args + n)]
      /\ count' = count + args + Len(all)
      /\ stack' = << ProcedureFrame(p) >>
      /\ at' = NewBB /\ k' = k + 1 /\ UNCHANGED << program, phase >>
      /\ phase = "generating" /\ stack = << >> /\ k < Len(program)
  BY DEF Procedure, AtProcedure
<1>2. /\ program \in Programs /\ k \in 0 .. Len(program) /\ count \in Nat
      /\ DOMAIN blocks = 1 .. Len(blocks) /\ Len(blocks) \in Nat
      /\ blocks \in Seq(Blocks)
  BY DEF IInv, DataInv, Blocks
<1>3. program \in Seq(Procedures) /\ k' \in 0 .. Len(program) /\ p \in Procedures
  <2>1. program \in Seq(Procedures)
    BY <1>2, TreeAssumption
  <2> DEFINE l == Len(program)
  <2>2. l \in Nat /\ DOMAIN program = 1 .. l
    BY <2>1
  <2>5. k \in 0 .. l /\ k < l /\ k' = k + 1
    BY <1>1, <1>2
  <2> HIDE DEF l
  <2>3. k + 1 \in 1 .. l /\ k' \in 0 .. l
    BY <2>2, <2>5
  <2>4. p \in Procedures
    BY <2>1, <2>2, <2>3
  <2> QED
    BY <2>1, <2>3, <2>4 DEF l
<1>4. p.name \in STRING /\ p.params \in Seq(Dcls) /\ p.dcls \in Seq(Dcls)
  BY <1>3 DEF Procedures
<1>5. args \in Nat /\ Len(all) \in Nat /\ all \in Seq(Dcls) /\ DOMAIN all = 1 .. Len(all)
  <2> HIDE DEF p
  <2>1. args \in Nat
    BY <1>4
  <2>2. all \in Seq(Dcls)
    BY <1>4
  <2> HIDE DEF all
  <2> QED
    BY <2>1, <2>2
<1>6. EntryCode(p) \in Seq({ instr \in Instructions : Plain(instr) })
  BY <1>1, <1>2, <1>3, EntryCodeTypes
<1>7. func \in Functions /\ func.entry = NewBB /\ NewBB \in Nat \ {0}
  <2> DEFINE types == [n \in 1 .. args |-> LLVMType(p.params[n].type)]
  <2>1. \A t : LLVMType(t) \in LLVMTypes
    BY DEF LLVMType, LLVMTypes
  <2>2. types \in Seq(LLVMTypes)
    BY <1>5, <2>1
  <2>3. NewBB \in Nat \ {0}
    BY <1>2 DEF NewBB
  <2> HIDE DEF types
  <2>4. [entry |-> NewBB, first |-> count, types |-> types] \in Functions
    BY <1>2, <2>2, <2>3 DEF Functions
  <2> QED
    BY <2>3, <2>4 DEF types
<1> HIDE DEF p, args, all, func
<1>8. /\ Len(blocks') = NewBB /\ DOMAIN blocks' = 1 .. NewBB
      /\ blocks'[NewBB] = new
      /\ \A b \in DOMAIN blocks : b \in DOMAIN blocks' /\ b # NewBB /\ blocks'[b] = blocks[b]
      /\ \A b \in DOMAIN blocks' : b \in DOMAIN blocks \/ b = NewBB
  <2> DEFINE l == Len(blocks)
  <2>1. /\ Len(blocks') = l + 1 /\ DOMAIN blocks' = 1 .. (l + 1)
        /\ blocks'[l + 1] = new
        /\ \A b \in 1 .. l : blocks'[b] = blocks[b]
    BY <1>1, <1>2
  <2>2. l \in Nat /\ DOMAIN blocks = 1 .. l /\ NewBB = l + 1
    BY <1>2 DEF NewBB
  <2> HIDE DEF l, new
  <2>3. /\ \A b \in 1 .. l : b \in 1 .. (l + 1) /\ b # l + 1
        /\ \A b \in 1 .. (l + 1) : b \in 1 .. l \/ b = l + 1
    BY <2>2
  <2> QED
    BY <2>1, <2>2, <2>3
<1>9. /\ DOMAIN functions' = DOMAIN functions \cup {p.name} /\ DOMAIN functions' \subseteq STRING
      /\ \A f \in DOMAIN functions' : functions'[f] \in Functions /\ functions'[f].entry <= Len(blocks')
      /\ \A f \in DOMAIN functions : functions'[f].entry \in {functions[f].entry, NewBB}
      /\ Instructions \subseteq Instructions'
  BY <1>1, <1>4, <1>7, <1>8, NewFunction DEF IInv
<1>10. new.func = p.name /\ new.code = EntryCode(p)
       /\ new \in [func : DOMAIN functions', code : Seq(Instructions')]
  <2> DEFINE code == EntryCode(p)
  <2>1. code \in Seq(Instructions')
    BY <1>6, <1>9
  <2>2. new = [func |-> p.name, code |-> code]
    BY DEF BasicBlock
  <2> HIDE DEF code, new
  <2>3. new.func = p.name /\ new.code = code
    BY <2>2
  <2>4. new \in [func : DOMAIN functions', code : Seq(Instructions')]
    BY <1>9, <2>1, <2>2
  <2> QED
    BY <2>3, <2>4 DEF code
<1> HIDE DEF new
<1>11. blocks' \in Seq([func : DOMAIN functions', code : Seq(Instructions')])
  <2> DEFINE R == [func : DOMAIN functions', code : Seq(Instructions')]
  <2>1. \A b \in DOMAIN blocks : blocks[b] \in R
    <3> TAKE b \in DOMAIN blocks
    <3>1. blocks[b] \in Blocks
      BY <1>2
    <3>2. Seq(Instructions) \subseteq Seq(Instructions')
      BY <1>9
    <3> QED
      BY <1>9, <3>1, <3>2 DEF Blocks
  <2>2. new \in R
    BY <1>10
  <2> HIDE DEF R
  <2>3. blocks \in Seq(R)
    BY <1>2, <2>1
  <2>4. blocks' \in Seq(R)
    BY <1>1, <2>2, <2>3
  <2> QED
    BY <2>4 DEF R
<1>12. DataInv'
  <2>1. \A x \in DOMAIN symbols' : symbols'[x] \in {"procedure", "library"}
    BY <1>1, DeclaredTypes DEF IInv
  <2>2. count' \in Nat
    BY <1>1, <1>2, <1>5
  <2>3. \A id \in DOMAIN dclSymbolTable' : dclSymbolTable'[id] \in Values
    <3> TAKE id \in DOMAIN dclSymbolTable'
    <3> DEFINE n == CHOOSE m \in DOMAIN all : all[m].id = id
    <3>1. id \in { all[m].id : m \in DOMAIN all }
      BY <1>1
    <3>2. n \in DOMAIN all
      BY <3>1
    <3>3. n \in Nat
      BY <1>5, <3>2
    <3>4. dclSymbolTable'[id] = Reg(PointerTo(LLVMType(all[n].type)), count + args + n)
      BY <1>1, <3>1
    <3> HIDE DEF n
    <3>5. PointerTo(LLVMType(all[n].type)) \in LLVMTypes /\ count + args + n \in Nat
      BY <1>2, <1>5, <3>3 DEF LLVMType, PointerTo, LLVMTypes
    <3> QED
      BY <3>4, <3>5, ValueTypes
  <2>4. at' \in 0 .. Len(blocks') /\ at' # 0
    BY <1>1, <1>7, <1>8
  <2>5. phase' \in {"generating", "generated", "error", "ill"}
    BY <1>1
  <2> QED
    BY <1>1, <1>2, <1>3, <1>9, <1>11, <2>1, <2>2, <2>3, <2>4, <2>5 DEF DataInv
<1>13. /\ stack' # << >> /\ Len(stack') = 1 /\ DOMAIN stack' = {1}
       /\ stack'[1] = ProcedureFrame(p) /\ Top' = ProcedureFrame(p)
  BY <1>1 DEF Top
<1>14. /\ FrameInv(ProcedureFrame(p)) /\ ProcedureFrame(p) \in Frames
       /\ ProcedureFrame(p).of = "procedure" /\ ProcedureFrame(p).pc = "link"
       /\ BlocksOf(ProcedureFrame(p)) = {} /\ Held(ProcedureFrame(p)) = {}
       /\ ProcedureFrame(p).BB = 0
  BY <1>3, ProcedureFrameInv DEF FrameInv
<1>15. StackInv'
  <2>1. stack' \in Seq(Frames)
    BY <1>1, <1>14
  <2> QED
    BY <1>13, <1>14, <2>1 DEF StackInv
<1>16. BlocksInv' /\ HeldInv' /\ StatementsStartBlocks'
  BY <1>13, <1>14 DEF BlocksInv, HeldInv, StatementsStartBlocks
<1>17. (\A b : b \notin OpenBlocks) /\ (\A b : b \in OpenBlocks' <=> b = NewBB)
  <2>1. \A b : b \notin OpenBlocks
    BY <1>1, OpenBlocksAre
  <2>2. \A b : b \in OpenBlocks' <=> b = NewBB
    BY <1>1, <1>13, <1>14, OpenBlocksAre
  <2> QED
    BY <2>1, <2>2
<1>18. \A b \in DOMAIN blocks :
         /\ Inner(blocks'[b].code) /\ Ended(blocks'[b].code)
         /\ GoesTo(blocks'[b].code, Siblings(b)')
  <2> TAKE b \in DOMAIN blocks
  <2>1. Inner(blocks[b].code) /\ Ended(blocks[b].code) /\ GoesTo(blocks[b].code, Siblings(b))
    BY <1>17, WellFormedBlocks DEF IInv
  <2>6. blocks[b] \in Blocks
    BY <1>2
  <2>2. blocks[b].func \in DOMAIN functions
    BY <2>6 DEF Blocks
  <2>3. \A c \in Siblings(b) : c \in Siblings(b)'
    BY <1>8, <1>9, <2>2 DEF Siblings, Entry
  <2>4. blocks'[b] = blocks[b]
    BY <1>8
  <2>5. GoesTo(blocks[b].code, Siblings(b)')
    BY <2>1, <2>3 DEF GoesTo
  <2> QED
    BY <2>1, <2>4, <2>5
<1>19. ASSUME NEW b, b = NewBB
       PROVE  /\ Inner(blocks'[b].code) /\ ~ Ended(blocks'[b].code)
              /\ GoesTo(blocks'[b].code, Siblings(b)')
  <2> DEFINE code == EntryCode(p)
             l == Len(code)
  <2>1. blocks'[b].code = code
    BY <1>8, <1>10, <1>19
  <2>2. code \in Seq({ instr \in Instructions : Plain(instr) })
    BY <1>6
  <2>3. \A i \in DOMAIN code : Plain(code[i])
    BY <2>2
  <2>4. DOMAIN code = 1 .. l /\ l \in Nat /\ (code # << >> => l # 0)
    BY <2>2
  <2> HIDE DEF code, l
  <2>5. (\A i \in 1 .. (l - 1) : i \in 1 .. l) /\ (l # 0 => l \in 1 .. l)
    BY <2>4
  <2>6. Inner(code) /\ ~ Ended(code)
    BY <2>3, <2>4, <2>5 DEF Inner, Ended, Plain, l
  <2>7. GoesTo(code, Siblings(b)')
    BY <2>3 DEF GoesTo, Plain
  <2> QED
    BY <2>1, <2>6, <2>7
<1>20. BlocksWellFormed'
  <2>1. \A b \in DOMAIN blocks' :
          /\ Inner(blocks'[b].code)
          /\ Ended(blocks'[b].code) <=> b \notin OpenBlocks'
          /\ GoesTo(blocks'[b].code, Siblings(b)')
    <3> TAKE b \in DOMAIN blocks'
    <3>1. CASE b \in DOMAIN blocks
      <4>1. b # NewBB
        BY <1>8, <3>1
      <4> QED
        BY <1>17, <1>18, <3>1, <4>1
    <3>2. CASE b = NewBB
      <4>1. /\ Inner(blocks'[b].code) /\ ~ Ended(blocks'[b].code)
            /\ GoesTo(blocks'[b].code, Siblings(b)')
        BY <1>19, <3>2
      <4> QED
        BY <1>17, <3>2, <4>1
    <3> QED
      BY <1>8, <3>1, <3>2
  <2> QED
    BY <2>1 DEF BlocksWellFormed, Inner, Ended, GoesTo, Siblings, Entry
<1> QED
  BY <1>12, <1>15, <1>16, <1>20 DEF IInv

-----------------------------------------------------------------------------
(* The properties.                                                         *)

\* Nothing has been generated.
LEMMA InitKeeps == ExecInit => IInv
<1> SUFFICES ASSUME CodegenInit PROVE IInv
  BY DEF ExecInit
<1>1. /\ program \in Programs /\ k = 0 /\ at = 0 /\ count = 0 /\ phase = "generating"
      /\ stack = << >> /\ blocks = << >> /\ dclSymbolTable = << >> /\ functions = << >> /\ symbols = << >>
  BY DEF CodegenInit
<1>2. DOMAIN stack = {} /\ DOMAIN blocks = {} /\ DOMAIN dclSymbolTable = {} /\ DOMAIN functions = {} /\ DOMAIN symbols = {}
  BY <1>1
<1>3. Len(stack) = 0 /\ Len(blocks) = 0 /\ stack \in Seq(Frames)
  BY <1>1
<1>4. blocks \in Seq([func : DOMAIN functions, code : Seq(Instructions)])
  BY <1>1
<1>5. program \in Seq(Procedures)
  BY <1>1, TreeAssumption
<1>6. StackInv
  BY <1>1, <1>2, <1>3 DEF StackInv
<1>7. DataInv
  <2>1. k \in 0 .. Len(program) /\ at \in 0 .. Len(blocks)
    BY <1>1, <1>3, <1>5
  <2> QED
    BY <1>1, <1>2, <1>4, <2>1 DEF DataInv
<1>8. BlocksInv /\ HeldInv /\ BlocksWellFormed /\ StatementsStartBlocks
  BY <1>1, <1>2 DEF BlocksInv, HeldInv, BlocksWellFormed, StatementsStartBlocks
<1> QED
  BY <1>6, <1>7, <1>8 DEF IInv

\* main() ends with code, with an exception or with an assertion of LLVM's.
LEMMA StopsKeep == IInv /\ (Generated \/ BadDcl \/ IllTyped) => IInv'
<1> SUFFICES ASSUME IInv, Generated \/ BadDcl \/ IllTyped PROVE IInv'
  OBVIOUS
<1>1. PICK how \in {"generated", "error", "ill"} : Throw(how)
  BY DEF Generated, BadDcl, IllTyped
<1> QED
  BY <1>1, ThrowKeeps

\* The executable does not change the module.
LEMMA GenVarsKeep ==
  ASSUME IInv, UNCHANGED genVars
  PROVE  IInv'
<1>1. UNCHANGED << program, k, stack, blocks, at, count, dclSymbolTable, functions, symbols, phase >>
      /\ Instructions' = Instructions
  BY DEF genVars, Instructions
<1>2. StackInv' /\ BlocksInv' /\ HeldInv' /\ DataInv'
  BY <1>1 DEF IInv, StackInv, Top, BlocksInv, Entry, HeldInv, DataInv
<1>3. BlocksWellFormed' /\ StatementsStartBlocks'
  BY <1>1 DEF IInv, BlocksWellFormed, OpenBlocks, StatementsStartBlocks, Top
<1> QED
  BY <1>2, <1>3 DEF IInv

\* One case for each action of the code generator.
LEMMA StepKeeps == IInv /\ [ExecNext]_execVars => IInv'
<1> SUFFICES ASSUME IInv, [ExecNext]_execVars PROVE IInv'
  OBVIOUS
<1>1. CASE Generate
  <2>1. CASE Procedure
    BY <2>1, ProcedureKeeps
  <2>2. CASE Generated \/ BadDcl \/ IllTyped
    BY <2>2, StopsKeep
  <2>3. CASE GenerateReturnExpr
    BY <2>3, GenerateReturnExprKeeps
  <2>4. CASE CreateRet
    BY <2>4, CreateRetKeeps
  <2>5. CASE Link
    BY <2>5, LinkKeeps
  <2>6. CASE NextStatement
    BY <2>6, NextStatementKeeps
  <2>7. CASE GenerateTest
    BY <2>7, GenerateTestKeeps
  <2>8. CASE BeginBody
    BY <2>8, BeginBodyKeeps
  <2>9. CASE BeginElse
    BY <2>9, BeginElseKeeps
  <2>10. CASE EndIf
    BY <2>10, EndIfKeeps
  <2>11. CASE EndWhile
    BY <2>11, EndWhileKeeps
  <2>12. CASE LvalueStatement \/ PrintlnStatement \/ DeleteStatement
    BY <2>12, StatementsKeep
  <2>13. CASE GenerateOperand
    BY <2>13, GenerateOperandKeeps
  <2>14. CASE Address \/ AddressOfOperand \/ Parentheses \/ Literal
    BY <2>14, HandBacksKeep
  <2>15. CASE LoadVariable \/ LoadOperand \/ NewArray \/ CallProcedure
    BY <2>15, FactorsKeep
  <2>16. CASE Multiply \/ Add \/ AddToPointer \/ SubtractFromPointer \/ SubtractPointers \/ Compare
    BY <2>16, OperatorsKeep
  <2> QED
    BY <1>1, <2>1, <2>2, <2>3, <2>4, <2>5, <2>6, <2>7, <2>8, <2>9, <2>10, <2>11, <2>12, <2>13, <2>14, <2>15, <2>16
       DEF Generate
<1>2. CASE UNCHANGED genVars
  BY <1>2, GenVarsKeep
<1>3. Generate \/ UNCHANGED genVars
  BY DEF ExecNext, GenerateStep, RunStep, ExecTerminated, execVars
<1> QED
  BY <1>1, <1>2, <1>3

\* What the invariant says of the types.
LEMMA InvTypes == IInv => TypeOK
<1> SUFFICES ASSUME IInv PROVE TypeOK
  OBVIOUS
<1>1. /\ \A f \in DOMAIN stack : FrameInv(stack[f])
      /\ program \in Programs /\ k \in 0 .. Len(program)
      /\ blocks \in Seq(Blocks)
      /\ at \in 0 .. Len(blocks) /\ count \in Nat
      /\ \A id \in DOMAIN dclSymbolTable : dclSymbolTable[id] \in Values
      /\ \A f \in DOMAIN functions : functions[f] \in Functions
      /\ \A name \in DOMAIN symbols : symbols[name] \in {"procedure", "library"}
      /\ phase \in {"generating", "generated", "error", "ill"}
  BY DEF IInv, StackInv, DataInv, Blocks
<1>2. DOMAIN blocks = 1 .. Len(blocks) /\ Len(blocks) \in Nat /\ \A b \in DOMAIN blocks : blocks[b] \in Blocks
  BY <1>1
<1>3. \A b \in DOMAIN blocks :
        /\ blocks[b] = BasicBlock(blocks[b].func, blocks[b].code)
        /\ blocks[b].func \in DOMAIN functions
        /\ blocks[b].code \in Seq(Instructions)
  BY <1>2 DEF Blocks, BasicBlock
<1>4. ASSUME NEW f \in DOMAIN stack
      PROVE  FrameOK(stack[f])
  <2> DEFINE frame == stack[f]
  <2>1. FrameInv(frame) /\ frame \in Frames
    BY <1>1, <1>4 DEF FrameInv
  <2>2. frame.stmts \in Seq(Trees)
    BY <2>1 DEF Frames, TreesOf
  <2>3. \A n \in DOMAIN frame.done : frame.done[n] \in Values
    BY <2>1 DEF Frames, PartialValues
  <2>4. BlocksOf(frame) \subseteq DOMAIN blocks
    BY <1>4 DEF IInv, BlocksInv
  <2> HIDE DEF frame
  <2>5. {frame.BB, frame.bodyBB, frame.lastTrueBB, frame.falseBB} \subseteq 0 .. Len(blocks)
    BY <1>2, <2>1, <2>4 DEF BlocksOf, Frames
  <2>6. FrameOK(frame)
    BY <2>1, <2>2, <2>3, <2>5 DEF FrameOK, FrameInv, InList, Frames, Kinds, Locations
  <2> QED
    BY <2>6 DEF frame
<1> QED
  BY <1>1, <1>3, <1>4 DEF TypeOK

\* The types, whatever is compiled and however deep it is nested: no list of
\* statements is left at a wrong end, every instruction has operands that are
\* values, and calls only what was generated before.
THEOREM TypesHold == ExecSpec => []TypeOK
<1>1. ExecInit => IInv
  BY InitKeeps
<1>2. IInv /\ [ExecNext]_execVars => IInv'
  BY StepKeeps
<1>3. IInv => TypeOK
  BY InvTypes
<1> QED
  BY <1>1, <1>2, <1>3, PTL DEF ExecSpec

\* Whatever statement comes before it, a statement whose block another branch
\* will go to finds a block that nothing is in.
THEOREM StatementsStartTheirBlocks == ExecSpec => []StatementsStartBlocks
<1>1. ExecInit => IInv
  BY InitKeeps
<1>2. IInv /\ [ExecNext]_execVars => IInv'
  BY StepKeeps
<1>3. IInv => StatementsStartBlocks
  BY DEF IInv
<1> QED
  BY <1>1, <1>2, <1>3, PTL DEF ExecSpec

\* However ifs and whiles are nested, Builder closes every block once and the
\* branches stay within their function.
THEOREM BlocksStayWellFormed == ExecSpec => []BlocksWellFormed
<1>1. ExecInit => IInv
  BY InitKeeps
<1>2. IInv /\ [ExecNext]_execVars => IInv'
  BY StepKeeps
<1>3. IInv => BlocksWellFormed
  BY DEF IInv
<1> QED
  BY <1>1, <1>2, <1>3, PTL DEF ExecSpec
=============================================================================
