------------------------- MODULE CodegenOrderProofs -------------------------
(***************************************************************************)
(* For all programs: the generator uses no register before it is defined.  *)
(***************************************************************************)
EXTENDS CodegenProofs

Registers(code) == { code[j].result : j \in DOMAIN code }

ParameterRegisters(func) == func.first + 1 .. func.first + Len(func.types)

\* What may be used anywhere in block b, and at its end.
Known(b) ==
  {0} \cup ParameterRegisters(functions[blocks[b].func])
      \cup (IF b = Entry(b) THEN {} ELSE Registers(blocks[Entry(b)].code))

Usable(b) == Known(b) \cup Registers(blocks[b].code)

\* Instructions use what is known or defined by an earlier one.
Ordered(code, known) ==
  \A i \in DOMAIN code : \A n \in DOMAIN code[i].args :
    \/ code[i].args[n].reg \in known
    \/ \E j \in 1 .. (i - 1) : code[j].result = code[i].args[n].reg

\* Where a call will use the values that it holds: a statement with blocks in
\* that of its test, where they were made.
Home(frame) == IF frame.BB # 0 THEN frame.BB ELSE at

DoneInv ==
  \A f \in DOMAIN stack : \A n \in DOMAIN stack[f].done :
    /\ stack[f].done[n].reg \in Usable(Home(stack[f]))
    /\ ~ (stack[f].of = "procedure" /\ InList(stack[f]))

\* The variables of a procedure are allocated in its entry block.
VariablesInv ==
  stack # << >> =>
    \A id \in DOMAIN dclSymbolTable : dclSymbolTable[id].reg \in Registers(blocks[Entry(at)].code)

NamesInv == DOMAIN functions \subseteq { program[m].name : m \in 1 .. k }

BlocksOrdered == \A b \in DOMAIN blocks : Ordered(blocks[b].code, Known(b))

OrderInv == DoneInv /\ VariablesInv /\ NamesInv /\ BlocksOrdered

-----------------------------------------------------------------------------
(* Sequences of instructions.                                              *)

\* The property, block by block.
LEMMA OrderedBlocks == BlocksOrdered <=> DefinedFirst
<1>1. ASSUME NEW b \in DOMAIN blocks, NEW i \in DOMAIN blocks[b].code, NEW n \in DOMAIN blocks[b].code[i].args
      PROVE  LET code == blocks[b].code
                 func == functions[blocks[b].func]
                 reg == code[i].args[n].reg
             IN  (\/ reg = 0
                  \/ \E j \in 1 .. (i - 1) : code[j].result = reg
                  \/ reg \in func.first + 1 .. func.first + Len(func.types)
                  \/ /\ b # func.entry
                     /\ \E j \in DOMAIN blocks[func.entry].code : blocks[func.entry].code[j].result = reg)
                 <=> (reg \in Known(b) \/ \E j \in 1 .. (i - 1) : code[j].result = reg)
  BY DEF Known, ParameterRegisters, Registers, Entry
<1> QED
  BY <1>1 DEF BlocksOrdered, DefinedFirst, Ordered

\* Instructions are added at the end.
LEMMA OrderedExtends ==
  ASSUME NEW S, NEW code \in Seq(S), NEW instrs \in Seq(S), NEW known, NEW more,
         Ordered(code, known), known \subseteq more, Ordered(instrs, more \cup Registers(code))
  PROVE  /\ Ordered(code \o instrs, more)
         /\ Registers(code \o instrs) = Registers(code) \cup Registers(instrs)
<1> DEFINE all == code \o instrs
           c == Len(code)
           l == Len(instrs)
<1>1. /\ c \in Nat /\ l \in Nat /\ DOMAIN code = 1 .. c /\ DOMAIN instrs = 1 .. l /\ DOMAIN all = 1 .. (c + l)
      /\ \A i \in 1 .. c : all[i] = code[i]
      /\ \A i \in 1 .. l : all[c + i] = instrs[i]
  OBVIOUS
<1> HIDE DEF all, c, l
<1>2. /\ \A i \in 1 .. (c + l) : i \in 1 .. c \/ (i - c \in 1 .. l /\ c + (i - c) = i)
      /\ \A i \in 1 .. c : i \in 1 .. (c + l)
      /\ \A i \in 1 .. l : c + i \in 1 .. (c + l)
  BY <1>1
<1>3. Registers(all) = Registers(code) \cup Registers(instrs)
  <2>1. ASSUME NEW j \in DOMAIN all PROVE all[j].result \in Registers(code) \cup Registers(instrs)
    <3>1. CASE j \in 1 .. c
      BY <1>1, <3>1 DEF Registers
    <3>2. CASE j - c \in 1 .. l /\ c + (j - c) = j
      <4> DEFINE m == j - c
      <4>1. m \in DOMAIN instrs /\ all[j] = instrs[m]
        BY <1>1, <3>2
      <4> HIDE DEF m
      <4> QED
        BY <4>1 DEF Registers
    <3> QED
      BY <1>1, <1>2, <3>1, <3>2
  <2>2. ASSUME NEW j \in DOMAIN code PROVE code[j].result \in Registers(all)
    <3>1. j \in DOMAIN all /\ all[j] = code[j]
      BY <1>1, <1>2
    <3> QED
      BY <3>1 DEF Registers
  <2>3. ASSUME NEW j \in DOMAIN instrs PROVE instrs[j].result \in Registers(all)
    <3> DEFINE m == c + j
    <3>1. m \in DOMAIN all /\ all[m] = instrs[j]
      BY <1>1, <1>2
    <3> HIDE DEF m
    <3> QED
      BY <3>1 DEF Registers
  <2> QED
    BY <2>1, <2>2, <2>3 DEF Registers
<1>4. ASSUME NEW i \in DOMAIN all, NEW n \in DOMAIN all[i].args, all[i].args[n].reg \notin more
      PROVE  \E j \in 1 .. (i - 1) : all[j].result = all[i].args[n].reg
  <2>1. CASE i \in 1 .. c
    <3>1. all[i] = code[i] /\ i \in DOMAIN code
      BY <1>1, <2>1
    <3>2. PICK j \in 1 .. (i - 1) : code[j].result = code[i].args[n].reg
      BY <1>4, <3>1 DEF Ordered
    <3>3. j \in 1 .. c
      BY <1>1, <2>1
    <3> QED
      BY <1>1, <3>1, <3>2, <3>3
  <2>2. CASE i \notin 1 .. c
    <3> DEFINE m == i - c
    <3>1. m \in 1 .. l /\ c + m = i
      BY <1>1, <1>2, <2>2
    <3>2. all[i] = instrs[m] /\ m \in DOMAIN instrs
      BY <1>1, <3>1
    <3> HIDE DEF m
    <3>3. CASE instrs[m].args[n].reg \in Registers(code)
      <4>1. PICK j \in DOMAIN code : code[j].result = instrs[m].args[n].reg
        BY <3>3 DEF Registers
      <4>2. j \in 1 .. (i - 1) /\ all[j] = code[j]
        BY <1>1, <3>1, <4>1
      <4> QED
        BY <3>2, <4>1, <4>2
    <3>4. CASE instrs[m].args[n].reg \notin Registers(code)
      <4>1. PICK j \in 1 .. (m - 1) : instrs[j].result = instrs[m].args[n].reg
        BY <1>4, <3>2, <3>4 DEF Ordered
      <4>2. j \in 1 .. l /\ c + j \in 1 .. (i - 1)
        BY <1>1, <3>1
      <4>3. all[c + j] = instrs[j]
        BY <1>1, <4>2
      <4> QED
        BY <3>2, <4>1, <4>2, <4>3
    <3> QED
      BY <3>3, <3>4
  <2> QED
    BY <2>1, <2>2
<1> QED
  BY <1>3, <1>4 DEF Ordered, all

\* One instruction that uses what is known.
LEMMA OneOrdered ==
  ASSUME NEW instr, NEW known, \A n \in DOMAIN instr.args : instr.args[n].reg \in known
  PROVE  /\ Ordered(<< instr >>, known) /\ Registers(<< instr >>) = {instr.result}
         /\ Len(<< instr >>) = 1
<1>1. DOMAIN << instr >> = {1} /\ << instr >>[1] = instr /\ Len(<< instr >>) = 1
  OBVIOUS
<1> QED
  BY <1>1 DEF Ordered, Registers

\* Two, the second of which may use the first.
LEMMA TwoOrdered ==
  ASSUME NEW first, NEW second, NEW known,
         \A n \in DOMAIN first.args : first.args[n].reg \in known,
         \A n \in DOMAIN second.args : second.args[n].reg \in known \cup {first.result}
  PROVE  /\ Ordered(<< first, second >>, known) /\ second.result \in Registers(<< first, second >>)
         /\ Len(<< first, second >>) = 2
<1> DEFINE code == << first, second >>
<1>1. DOMAIN code = {1, 2} /\ code[1] = first /\ code[2] = second /\ Len(code) = 2
  OBVIOUS
<1> HIDE DEF code
<1>2. Ordered(code, known)
  <2> SUFFICES ASSUME NEW i \in DOMAIN code, NEW n \in DOMAIN code[i].args, code[i].args[n].reg \notin known
               PROVE  \E j \in 1 .. (i - 1) : code[j].result = code[i].args[n].reg
    BY DEF Ordered
  <2>1. i = 2 /\ code[i].args[n].reg = first.result
    BY <1>1
  <2>2. 1 \in 1 .. (i - 1)
    BY <2>1
  <2> QED
    BY <1>1, <2>1, <2>2
<1>3. second.result \in Registers(code)
  BY <1>1 DEF Registers
<1> QED
  BY <1>1, <1>2, <1>3 DEF code

\* Three, the last of which may use those before.
LEMMA ThreeOrdered ==
  ASSUME NEW first, NEW second, NEW third, NEW known,
         \A n \in DOMAIN first.args : first.args[n].reg \in known,
         \A n \in DOMAIN second.args : second.args[n].reg \in known,
         \A n \in DOMAIN third.args : third.args[n].reg \in {first.result, second.result}
  PROVE  /\ Ordered(<< first, second, third >>, known)
         /\ third.result \in Registers(<< first, second, third >>)
         /\ Len(<< first, second, third >>) = 3
<1> DEFINE code == << first, second, third >>
<1>1. DOMAIN code = {1, 2, 3} /\ code[1] = first /\ code[2] = second /\ code[3] = third /\ Len(code) = 3
  OBVIOUS
<1> HIDE DEF code
<1>2. Ordered(code, known)
  <2> SUFFICES ASSUME NEW i \in DOMAIN code, NEW n \in DOMAIN code[i].args, code[i].args[n].reg \notin known
               PROVE  \E j \in 1 .. (i - 1) : code[j].result = code[i].args[n].reg
    BY DEF Ordered
  <2>1. i = 3 /\ code[i].args[n].reg \in {first.result, second.result}
    BY <1>1
  <2>2. 1 \in 1 .. (i - 1) /\ 2 \in 1 .. (i - 1)
    BY <2>1
  <2> QED
    BY <1>1, <2>1, <2>2
<1>3. third.result \in Registers(code)
  BY <1>1 DEF Registers
<1> QED
  BY <1>1, <1>2, <1>3 DEF code

-----------------------------------------------------------------------------
(* What a step keeps.                                                      *)

\* Blocks keep what is defined in them, functions their arguments.
Grows ==
  /\ \A b \in DOMAIN blocks :
       /\ b \in DOMAIN blocks'
       /\ blocks'[b].func = blocks[b].func
       /\ Registers(blocks[b].code) \subseteq Registers(blocks'[b].code)
  /\ \A f \in DOMAIN functions : functions'[f] = functions[f]

\* Blocks are sequences of instructions in functions that have an entry block.
LEMMA BlockTypes ==
  ASSUME DataInv
  PROVE  /\ DOMAIN blocks = 1 .. Len(blocks) /\ Len(blocks) \in Nat
         /\ \A b \in DOMAIN blocks :
              /\ blocks[b].func \in DOMAIN functions /\ blocks[b].code \in Seq(Instructions)
              /\ Entry(b) \in DOMAIN blocks
         /\ \A b \in DOMAIN blocks : Len(functions[blocks[b].func].types) \in Nat
<1>1. DOMAIN blocks = 1 .. Len(blocks) /\ Len(blocks) \in Nat /\ blocks \in Seq(Blocks)
  BY DEF DataInv, Blocks
<1>2. \A b \in DOMAIN blocks : blocks[b] \in Blocks
  BY <1>1
<1>3. \A b \in DOMAIN blocks : blocks[b].func \in DOMAIN functions /\ blocks[b].code \in Seq(Instructions)
  BY <1>2 DEF Blocks
<1>4. \A f \in DOMAIN functions : /\ functions[f].entry \in Nat \ {0} /\ functions[f].entry <= Len(blocks)
                                 /\ Len(functions[f].types) \in Nat
  BY DEF DataInv, Functions
<1>5. \A b \in DOMAIN blocks : Entry(b) \in DOMAIN blocks
  BY <1>1, <1>3, <1>4 DEF Entry
<1> QED
  BY <1>1, <1>3, <1>4, <1>5

\* What may be used still may.
LEMMA GrowsKeeps ==
  ASSUME DataInv, Grows
  PROVE  \A b \in DOMAIN blocks :
           Entry(b)' = Entry(b) /\ Known(b) \subseteq Known(b)' /\ Usable(b) \subseteq Usable(b)'
<1> TAKE b \in DOMAIN blocks
<1>1. blocks[b].func \in DOMAIN functions /\ Entry(b) \in DOMAIN blocks
  BY BlockTypes
<1>2. /\ blocks'[b].func = blocks[b].func /\ functions'[blocks[b].func] = functions[blocks[b].func]
      /\ Registers(blocks[b].code) \subseteq Registers(blocks'[b].code)
      /\ Registers(blocks[Entry(b)].code) \subseteq Registers(blocks'[Entry(b)].code)
  BY <1>1 DEF Grows
<1>3. Entry(b)' = Entry(b)
  BY <1>2 DEF Entry
<1>4. Known(b) \subseteq Known(b)'
  BY <1>2, <1>3 DEF Known
<1> QED
  BY <1>2, <1>3, <1>4 DEF Usable

\* The values that were held, still held by the same calls or handed to those
\* below, can be used where they will be.
LEMMA DoneKept ==
  ASSUME DataInv, DoneInv, BlocksInv, Grows,
         \A f \in DOMAIN stack' : \A n \in DOMAIN stack'[f].done :
           /\ ~ (stack'[f].of = "procedure" /\ InList(stack'[f]))
           /\ \/ /\ f \in DOMAIN stack /\ n \in DOMAIN stack[f].done
                 /\ stack'[f].done[n] = stack[f].done[n]
                 /\ Home(stack[f])' = Home(stack[f])
              \/ (stack[f].done[n].reg \in Usable(Home(stack[f])))'
  PROVE  DoneInv'
<1> SUFFICES ASSUME NEW f \in DOMAIN stack', NEW n \in DOMAIN stack'[f].done
             PROVE  (stack[f].done[n].reg \in Usable(Home(stack[f])))'
  BY DEF DoneInv, InList
<1>1. CASE /\ f \in DOMAIN stack /\ n \in DOMAIN stack[f].done
           /\ stack'[f].done[n] = stack[f].done[n]
           /\ Home(stack[f])' = Home(stack[f])
  <2>1. stack[f].done[n].reg \in Usable(Home(stack[f]))
    BY <1>1 DEF DoneInv
  <2>2. Home(stack[f]) \in DOMAIN blocks
    <3>1. stack[f].BB # 0 => stack[f].BB \in DOMAIN blocks
      BY <1>1 DEF BlocksInv, BlocksOf
    <3>2. stack # << >>
      BY <1>1
    <3>3. at \in DOMAIN blocks
      BY <3>2, AtBlock
    <3> QED
      BY <3>1, <3>3 DEF Home
  <2>3. PICK b \in DOMAIN blocks : b = Home(stack[f])
    BY <2>2
  <2>4. Usable(b) \subseteq Usable(b)'
    BY GrowsKeeps
  <2>5. stack'[f].done[n].reg \in Usable(b)'
    BY <1>1, <2>1, <2>3, <2>4
  <2>6. Home(stack[f])' = b
    BY <1>1, <2>3
  <2> QED
    BY <2>5, <2>6 DEF Usable, Known, Entry
<1> QED
  BY <1>1

-----------------------------------------------------------------------------
(* The stack.                                                              *)

\* What the moves of the stack do.
LEMMA CallShape ==
  ASSUME StackInv, stack # << >>, NEW frame, NEW callee, Call(frame, callee)
  PROVE  /\ DOMAIN stack' = DOMAIN stack \cup {Len(stack) + 1} /\ Len(stack) + 1 \notin DOMAIN stack
         /\ stack'[Len(stack)] = frame /\ stack'[Len(stack) + 1] = callee
         /\ \A f \in DOMAIN stack : f # Len(stack) => stack'[f] = stack[f]
<1> DEFINE S == Frames \cup {frame, callee}
           l == Len(stack)
           old == [stack EXCEPT ![l] = frame]
<1>1. stack \in Seq(S) /\ l \in Nat \ {0} /\ DOMAIN stack = 1 .. l
  BY DEF StackInv
<1>2. old \in Seq(S) /\ Len(old) = l /\ old[l] = frame /\ \A f \in 1 .. l : f # l => old[f] = stack[f]
  <2>1. frame \in S
    OBVIOUS
  <2> HIDE DEF S
  <2>2. old \in Seq(S) /\ Len(old) = l
    BY <1>1, <2>1
  <2>3. l \in 1 .. l
    BY <1>1
  <2> QED
    BY <1>1, <2>2, <2>3
<1>3. stack' = Append(old, callee) /\ callee \in S
  BY DEF Call
<1> HIDE DEF old, S, l
<1>4. DOMAIN stack' = 1 .. (l + 1) /\ stack'[l + 1] = callee /\ \A f \in 1 .. l : stack'[f] = old[f]
  <2> DEFINE new == Append(old, callee)
  <2>1. Len(new) = l + 1 /\ new \in Seq(S)
    BY <1>1, <1>2, <1>3
  <2>2. new[l + 1] = callee /\ \A f \in 1 .. l : new[f] = old[f]
    BY <1>1, <1>2, <1>3
  <2>3. stack' = new
    BY <1>3
  <2> HIDE DEF new
  <2>4. DOMAIN new = 1 .. (l + 1)
    BY <2>1
  <2> QED
    BY <2>2, <2>3, <2>4
<1>5. 1 .. (l + 1) = 1 .. l \cup {l + 1} /\ l + 1 \notin 1 .. l /\ l \in 1 .. l
  BY <1>1
<1> QED
  BY <1>1, <1>2, <1>4, <1>5 DEF l

\* The call on top goes on.
LEMMA BecomeShape ==
  ASSUME StackInv, stack # << >>, NEW frame, Become(frame)
  PROVE  /\ DOMAIN stack' = DOMAIN stack /\ stack' # << >>
         /\ stack'[Len(stack)] = frame
         /\ \A f \in DOMAIN stack : f # Len(stack) => stack'[f] = stack[f]
<1>1. Len(stack) \in DOMAIN stack
  BY TopFrame
<1>2. stack' = [stack EXCEPT ![Len(stack)] = frame]
  BY DEF Become
<1>3. DOMAIN stack' = DOMAIN stack
  BY <1>2
<1> QED
  BY <1>1, <1>2, <1>3

\* It ends without a value.
LEMMA VoidShape ==
  ASSUME StackInv, stack # << >>, ReturnVoid
  PROVE  \A f \in DOMAIN stack' : f \in DOMAIN stack /\ f # Len(stack) /\ stack'[f] = stack[f]
<1> DEFINE l == Len(stack)
<1>1. stack \in Seq(Frames) /\ l \in Nat \ {0} /\ DOMAIN stack = 1 .. l
  BY DEF StackInv
<1>2. DOMAIN stack' = 1 .. (l - 1) /\ \A f \in 1 .. (l - 1) : stack'[f] = stack[f]
  BY <1>1 DEF ReturnVoid
<1> HIDE DEF l
<1>3. \A f \in 1 .. (l - 1) : f \in 1 .. l /\ f # l
  BY <1>1
<1> QED
  BY <1>1, <1>2, <1>3 DEF l

\* It ends with one.
LEMMA ReturnShape ==
  ASSUME StackInv, stack # << >>, NEW value, Return(value)
  PROVE  \A f \in DOMAIN stack' :
           /\ f \in DOMAIN stack /\ f # Len(stack)
           /\ stack'[f] = IF f = Len(stack) - 1 THEN Received(stack[f], value) ELSE stack[f]
<1> DEFINE l == Len(stack)
<1>1. l \in Nat \ {0} /\ DOMAIN stack = 1 .. l
  BY DEF StackInv
<1>2. stack' = [m \in 1 .. (l - 1) |-> IF m = l - 1 THEN Received(stack[m], value) ELSE stack[m]]
  BY DEF Return
<1> HIDE DEF l
<1>3. \A f \in 1 .. (l - 1) : f \in 1 .. l /\ f # l
  BY <1>1
<1>4. \A f \in DOMAIN stack' :
        f \in 1 .. (l - 1) /\ stack'[f] = IF f = l - 1 THEN Received(stack[f], value) ELSE stack[f]
  BY <1>2
<1> QED
  BY <1>1, <1>3, <1>4 DEF l

\* Where the call that gets a value goes on, and what it has.
LEMMA ReceivedFields ==
  ASSUME NEW frame \in Frames, NEW value
  PROVE  LET new == Received(frame, value)
         IN  /\ new.of = frame.of /\ new.pc = frame.pc /\ new.BB = frame.BB
             /\ \A m \in DOMAIN new.done :
                  \/ m \in DOMAIN frame.done /\ new.done[m] = frame.done[m]
                  \/ new.done[m] = value
<1> DEFINE done == [m \in DOMAIN frame.done \cup {frame.n} |-> IF m = frame.n THEN value ELSE frame.done[m]]
<1>1. Received(frame, value) = [frame EXCEPT !.done = done]
  BY Zenon DEF Received
<1>2. \A m \in DOMAIN done : (m \in DOMAIN frame.done /\ done[m] = frame.done[m]) \/ done[m] = value
  OBVIOUS
<1> HIDE DEF done
<1> QED
  BY <1>1, <1>2 DEF Frames

\* A value is received where it can be used.
LEMMA ReturnOrder ==
  ASSUME IInv, DoneInv, Grows, at' = at, stack # << >>, Top.of \in ForValue,
         NEW value, Return(value), value.reg \in Usable(at)'
  PROVE  DoneInv'
<1> DEFINE l == Len(stack)
<1>1. /\ stack \in Seq(Frames) /\ l \in Nat \ {0} /\ DOMAIN stack = 1 .. l /\ Top = stack[l]
      /\ \A f \in DOMAIN stack : stack[f] \in Frames /\ FrameInv(stack[f])
  BY TopFrame DEF IInv, StackInv
<1>2. \A f \in DOMAIN stack' :
        /\ f \in DOMAIN stack /\ f # l
        /\ stack'[f] = IF f = l - 1 THEN Received(stack[f], value) ELSE stack[f]
  BY ReturnShape DEF IInv
<1>3. ASSUME NEW f \in DOMAIN stack', f = l - 1
      PROVE  ~ InList(stack[f]) /\ Home(stack[f]) = at
  <2>1. f \in 1 .. (l - 1) /\ f + 1 = l
    BY <1>1, <1>2, <1>3
  <2>2. stack[f].pc \in {"operands", "body", "return"}
    BY <1>1, <2>1 DEF IInv, StackInv, ForValue
  <2>3. stack[f].BB # 0 => stack[f].BB = at
    BY <1>1, <1>2, <2>2 DEF FrameInv, IInv, HeldInv
  <2> QED
    BY <2>2, <2>3 DEF InList, Home
<1> HIDE DEF l
<1>4. ASSUME NEW f \in DOMAIN stack', NEW n \in DOMAIN stack'[f].done
      PROVE  /\ ~ (stack'[f].of = "procedure" /\ InList(stack'[f]))
             /\ \/ /\ f \in DOMAIN stack /\ n \in DOMAIN stack[f].done
                   /\ stack'[f].done[n] = stack[f].done[n]
                   /\ Home(stack[f])' = Home(stack[f])
                \/ (stack[f].done[n].reg \in Usable(Home(stack[f])))'
  <2>1. CASE f # l - 1
    <3>1. stack'[f] = stack[f] /\ f \in DOMAIN stack
      BY <1>2, <2>1
    <3> QED
      BY <3>1 DEF DoneInv, Home, InList
  <2>2. CASE f = l - 1
    <3> DEFINE new == Received(stack[f], value)
    <3>1. stack'[f] = new /\ stack[f] \in Frames
      BY <1>1, <1>2, <2>2
    <3>2. /\ new.of = stack[f].of /\ new.pc = stack[f].pc /\ new.BB = stack[f].BB
          /\ \A m \in DOMAIN new.done :
               \/ m \in DOMAIN stack[f].done /\ new.done[m] = stack[f].done[m]
               \/ new.done[m] = value
      BY <3>1, ReceivedFields
    <3> HIDE DEF new
    <3>3. ~ InList(stack'[f])
      BY <1>3, <2>2, <3>1, <3>2 DEF InList
    <3>4. Home(stack[f])' = Home(stack[f]) /\ Home(stack[f]) = at
      BY <1>3, <2>2, <3>1, <3>2 DEF Home
    <3>5. CASE n \in DOMAIN stack[f].done /\ new.done[n] = stack[f].done[n]
      BY <1>2, <3>1, <3>3, <3>4, <3>5
    <3>6. CASE new.done[n] = value
      <4>1. stack'[f].done[n].reg \in Usable(at)'
        BY <3>1, <3>6
      <4>2. Home(stack[f])' = at'
        BY <3>4
      <4>3. (stack[f].done[n].reg \in Usable(Home(stack[f])))'
        BY <4>1, <4>2 DEF Usable, Known, Entry
      <4> QED
        BY <3>3, <4>3
    <3> QED
      BY <3>1, <3>2, <3>5, <3>6
  <2> QED
    BY <2>1, <2>2
<1> QED
  BY <1>4, DoneKept DEF IInv

-----------------------------------------------------------------------------
(* Steps that make no block.                                               *)

\* The variables stay in the entry block of the procedure.
LEMMA VariablesKept ==
  ASSUME IInv, VariablesInv, Grows, stack # << >>, dclSymbolTable' = dclSymbolTable,
         at' \in DOMAIN blocks', blocks'[at'].func = blocks[at].func
  PROVE  VariablesInv'
<1>1. at \in DOMAIN blocks
  BY AtBlock DEF IInv
<1>2. Entry(at) \in DOMAIN blocks /\ blocks[at].func \in DOMAIN functions
  BY <1>1, BlockTypes DEF IInv
<1>3. Entry(at)' = Entry(at)
  BY <1>2 DEF Grows, Entry
<1>4. Registers(blocks[Entry(at)].code) \subseteq Registers(blocks'[Entry(at)].code)
  BY <1>2 DEF Grows
<1> QED
  BY <1>3, <1>4 DEF VariablesInv

\* A step that leaves the blocks alone.
LEMMA StillOrder ==
  ASSUME OrderInv, stack # << >>, DoneInv', UNCHANGED << program, k, blocks, at, dclSymbolTable, functions >>
  PROVE  OrderInv'
<1>1. VariablesInv'
  BY DEF OrderInv, VariablesInv, Entry, Registers
<1>2. NamesInv'
  BY DEF OrderInv, NamesInv
<1>3. \A b : Known(b)' = Known(b)
  BY DEF Known, Entry, Registers, ParameterRegisters
<1>4. BlocksOrdered'
  <2>1. \A b \in DOMAIN blocks : Ordered(blocks[b].code, Known(b))
    BY DEF OrderInv, BlocksOrdered
  <2>2. \A b \in DOMAIN blocks' : Ordered(blocks'[b].code, Known(b)')
    BY <1>3, <2>1
  <2> QED
    BY <2>2 DEF BlocksOrdered, Ordered
<1> QED
  BY <1>1, <1>2, <1>4 DEF OrderInv

\* Nor does it change what may be used.
LEMMA StillGrows ==
  ASSUME UNCHANGED << blocks, functions >>
  PROVE  Grows
BY DEF Grows

\* A call holds nothing yet.
LEMMA CallOrder ==
  ASSUME IInv, OrderInv, stack # << >>, NEW frame, NEW callee, Call(frame, callee),
         frame.done = Top.done, frame.of = Top.of, InList(frame) => InList(Top),
         (IF frame.BB # 0 THEN frame.BB ELSE at) = Home(Top),
         DOMAIN callee.done = {},
         UNCHANGED << program, k, blocks, at, dclSymbolTable, functions >>
  PROVE  OrderInv'
<1>1. /\ DOMAIN stack' = DOMAIN stack \cup {Len(stack) + 1}
      /\ stack'[Len(stack)] = frame /\ stack'[Len(stack) + 1] = callee
      /\ \A f \in DOMAIN stack : f # Len(stack) => stack'[f] = stack[f]
      /\ Top = stack[Len(stack)] /\ Len(stack) \in DOMAIN stack
  BY CallShape, TopFrame DEF IInv
<1>2. Grows
  BY StillGrows
<1>3. ASSUME NEW f \in DOMAIN stack', NEW n \in DOMAIN stack'[f].done
      PROVE  /\ ~ (stack'[f].of = "procedure" /\ InList(stack'[f]))
             /\ \/ /\ f \in DOMAIN stack /\ n \in DOMAIN stack[f].done
                   /\ stack'[f].done[n] = stack[f].done[n]
                   /\ Home(stack[f])' = Home(stack[f])
                \/ (stack[f].done[n].reg \in Usable(Home(stack[f])))'
  <2>1. f \in DOMAIN stack
    BY <1>1, <1>3
  <2>2. stack'[f].done = stack[f].done /\ stack'[f].of = stack[f].of /\ (InList(stack'[f]) => InList(stack[f]))
    BY <1>1, <2>1
  <2>3. Home(stack[f])' = Home(stack[f])
    BY <1>1, <2>1 DEF Home
  <2> QED
    BY <1>3, <2>1, <2>2, <2>3 DEF OrderInv, DoneInv
<1>4. DoneInv'
  BY <1>2, <1>3, DoneKept DEF IInv, OrderInv
<1> QED
  BY <1>4, StillOrder

\* What is returned without an instruction.
LEMMA HandBackOrder ==
  ASSUME IInv, OrderInv, stack # << >>, Top.of \in ForValue, NEW value, HandBack(value), value.reg \in Usable(at)
  PROVE  OrderInv'
<1>1. Return(value) /\ UNCHANGED << program, k, blocks, at, dclSymbolTable, functions >>
  BY DEF HandBack
<1>2. Grows
  BY <1>1, StillGrows
<1>3. Usable(at)' = Usable(at) /\ at' = at
  BY <1>1 DEF Usable, Known, Entry
<1>4. DoneInv'
  BY <1>1, <1>2, <1>3, ReturnOrder DEF OrderInv
<1> QED
  BY <1>1, <1>4, StillOrder

\* Instructions may know more.
LEMMA OrderedMore ==
  ASSUME NEW code, NEW known, NEW more, Ordered(code, known), known \subseteq more
  PROVE  Ordered(code, more)
BY DEF Ordered

\* Instructions at the insertion point.
LEMMA InsertOrder ==
  ASSUME IInv, OrderInv, stack # << >>, NEW S, NEW instrs \in Seq(S), Ordered(instrs, Usable(at)), Insert(instrs),
         UNCHANGED << at, functions >>
  PROVE  Grows /\ BlocksOrdered' /\ Registers(instrs) \subseteq Usable(at)'
         /\ at' \in DOMAIN blocks' /\ blocks'[at'].func = blocks[at].func
<1>1. at \in DOMAIN blocks
  BY AtBlock DEF IInv
<1>2. blocks' = [blocks EXCEPT ![at] = Extended(blocks[at], instrs)]
  BY DEF Insert
<1>3. /\ DOMAIN blocks' = DOMAIN blocks
      /\ blocks'[at].func = blocks[at].func /\ blocks'[at].code = blocks[at].code \o instrs
      /\ \A b \in DOMAIN blocks : b # at => blocks'[b] = blocks[b]
  BY <1>1, <1>2 DEF Extended, BasicBlock
<1> DEFINE code == blocks[at].code
           known == Known(at)
           more == Known(at)'
           T == S \cup Instructions
<1>4. code \in Seq(T) /\ instrs \in Seq(T)
  <2>1. code \in Seq(Instructions)
    BY <1>1, BlockTypes DEF IInv
  <2>2. Seq(Instructions) \subseteq Seq(T) /\ Seq(S) \subseteq Seq(T)
    OBVIOUS
  <2> QED
    BY <2>1, <2>2
<1>5. Ordered(code, known)
  BY <1>1 DEF OrderInv, BlocksOrdered
<1>6. \A b \in DOMAIN blocks : Entry(b)' = Entry(b)
  BY <1>3 DEF Entry
<1>7. known \subseteq more
  <2>1. Entry(at) # at => blocks'[Entry(at)] = blocks[Entry(at)]
    BY <1>1, <1>3, BlockTypes DEF IInv
  <2>2. Entry(at)' = Entry(at) /\ at' = at
    BY <1>1, <1>6
  <2> QED
    BY <1>3, <2>1, <2>2 DEF Known
<1> HIDE DEF code, known, more, T
<1>8. Ordered(code \o instrs, more) /\ Registers(code \o instrs) = Registers(code) \cup Registers(instrs)
  <2>1. Usable(at) \subseteq more \cup Registers(code)
    BY <1>7 DEF Usable, known, code
  <2>2. Ordered(instrs, more \cup Registers(code))
    BY <2>1, OrderedMore
  <2> QED
    BY <1>4, <1>5, <1>7, <2>2, OrderedExtends
<1>9. Grows
  BY <1>3, <1>8 DEF Grows, code
<1>10. Registers(instrs) \subseteq Usable(at)'
  <2>1. Registers(blocks'[at].code) = Registers(code) \cup Registers(instrs)
    BY <1>3, <1>8 DEF code
  <2> QED
    BY <2>1 DEF Usable
<1>11. BlocksOrdered'
  <2>1. ASSUME NEW b \in DOMAIN blocks' PROVE Ordered(blocks'[b].code, Known(b)')
    <3>1. CASE b = at
      BY <1>3, <1>8, <3>1 DEF code, more, Known, Entry
    <3>2. CASE b # at
      <4>1. b \in DOMAIN blocks /\ blocks'[b] = blocks[b]
        BY <1>3, <3>2
      <4>2. Known(b) \subseteq Known(b)'
        BY <1>9, <4>1, GrowsKeeps DEF IInv
      <4>3. Ordered(blocks[b].code, Known(b))
        BY <4>1 DEF OrderInv, BlocksOrdered
      <4> QED
        BY <4>1, <4>2, <4>3, OrderedMore
    <3> QED
      BY <3>1, <3>2
  <2> QED
    BY <2>1 DEF BlocksOrdered, Ordered
<1> QED
  BY <1>1, <1>3, <1>9, <1>10, <1>11

\* The value of the last instruction is returned.
LEMMA CreateOrder ==
  ASSUME IInv, OrderInv, stack # << >>, Top.of \in ForValue, NEW S, NEW instrs \in Seq(S),
         Ordered(instrs, Usable(at)), NEW t, count + Len(instrs) \in Registers(instrs), Create(instrs, t)
  PROVE  OrderInv'
<1>1. /\ Insert(instrs) /\ Return(Reg(t, count + Len(instrs)))
      /\ UNCHANGED << program, k, at, dclSymbolTable, functions >>
  BY DEF Create
<1>2. /\ Grows /\ BlocksOrdered' /\ Registers(instrs) \subseteq Usable(at)'
      /\ at' \in DOMAIN blocks' /\ blocks'[at'].func = blocks[at].func
  BY <1>1, InsertOrder
<1>3. Reg(t, count + Len(instrs)).reg \in Usable(at)'
  BY <1>2 DEF Reg
<1>4. DoneInv'
  BY <1>1, <1>2, <1>3, ReturnOrder DEF OrderInv
<1>5. VariablesInv'
  BY <1>1, <1>2, VariablesKept DEF OrderInv
<1>6. NamesInv'
  BY <1>1 DEF OrderInv, NamesInv
<1> QED
  BY <1>2, <1>4, <1>5, <1>6 DEF OrderInv

\* Nothing is returned.
LEMMA VoidOrder ==
  ASSUME IInv, OrderInv, stack # << >>, NEW S, NEW instrs \in Seq(S), Ordered(instrs, Usable(at)),
         Insert(instrs), ReturnVoid, UNCHANGED << program, k, at, dclSymbolTable, functions >>
  PROVE  OrderInv'
<1>1. /\ Grows /\ BlocksOrdered' /\ at' \in DOMAIN blocks' /\ blocks'[at'].func = blocks[at].func
  BY InsertOrder
<1>2. \A f \in DOMAIN stack' : f \in DOMAIN stack /\ stack'[f] = stack[f]
  BY VoidShape DEF IInv
<1>3. DoneInv'
  <2>1. \A f \in DOMAIN stack' : \A n \in DOMAIN stack'[f].done :
          /\ ~ (stack'[f].of = "procedure" /\ InList(stack'[f]))
          /\ f \in DOMAIN stack /\ n \in DOMAIN stack[f].done
          /\ stack'[f].done[n] = stack[f].done[n]
          /\ Home(stack[f])' = Home(stack[f])
    BY <1>2 DEF OrderInv, DoneInv, Home, InList
  <2> QED
    BY <1>1, <2>1, DoneKept DEF IInv, OrderInv
<1>4. VariablesInv'
  BY <1>1, VariablesKept DEF OrderInv
<1>5. NamesInv'
  BY DEF OrderInv, NamesInv
<1> QED
  BY <1>1, <1>3, <1>4, <1>5 DEF OrderInv

-----------------------------------------------------------------------------
(* Operands and values.                                                    *)

\* A call that has its operands may use them, and the variables.
LEMMA HeldUsable ==
  ASSUME IInv, OrderInv, stack # << >>, Top.pc # "link"
  PROVE  /\ 0 \in Usable(at)
         /\ \A id \in DOMAIN dclSymbolTable : dclSymbolTable[id].reg \in Usable(at)
         /\ Top.pc \in {"operands", "return"} => \A n \in DOMAIN Top.done : Arg(n).reg \in Usable(at)
<1>1. \A id \in DOMAIN dclSymbolTable : dclSymbolTable[id].reg \in Usable(at)
  <2>1. \A id \in DOMAIN dclSymbolTable : dclSymbolTable[id].reg \in Registers(blocks[Entry(at)].code)
    BY DEF OrderInv, VariablesInv
  <2>2. Registers(blocks[Entry(at)].code) \subseteq Usable(at)
    BY DEF Usable, Known
  <2> QED
    BY <2>1, <2>2
<1>2. ASSUME Top.pc \in {"operands", "return"} PROVE \A n \in DOMAIN Top.done : Arg(n).reg \in Usable(at)
  <2>1. FrameInv(Top) /\ Len(stack) \in DOMAIN stack /\ Top = stack[Len(stack)]
    BY TopFrame DEF IInv
  <2>2. Top.BB = 0
    BY <1>2, <2>1 DEF FrameInv
  <2>3. Home(Top) = at
    BY <2>2 DEF Home
  <2> QED
    BY <2>1, <2>3 DEF OrderInv, DoneInv, Arg
<1> QED
  BY <1>1, <1>2 DEF Usable, Known

\* A call whose operands are there.
LEMMA ReadyUsable ==
  ASSUME IInv, OrderInv, NEW forms, Ready(forms)
  PROVE  /\ stack # << >>
         /\ 0 \in Usable(at)
         /\ \A id \in DOMAIN dclSymbolTable : dclSymbolTable[id].reg \in Usable(at)
         /\ \A n \in DOMAIN Top.ast.kids : Arg(n).reg \in Usable(at)
<1>1. stack # << >> /\ Top.pc = "operands" /\ DOMAIN Top.done = DOMAIN Top.ast.kids
  BY DEF Ready, At
<1> QED
  BY <1>1, HeldUsable

\* Tuples of values.
LEMMA UsedTuples ==
  ASSUME NEW known
  PROVE  /\ \A x : x.reg \in known => \A n \in DOMAIN << x >> : << x >>[n].reg \in known
         /\ \A x, y : x.reg \in known /\ y.reg \in known => \A n \in DOMAIN << x, y >> : << x, y >>[n].reg \in known
OBVIOUS

\* Values and instructions, and the registers they are in.
LEMMA RegisterOf ==
  /\ \A t, n : Reg(t, n).reg = n
  /\ \A t, c : Const(t, c).reg = 0
  /\ \A op, args, r : Instr(op, args, r).args = args /\ Instr(op, args, r).result = r
  /\ \A name, args, r : CallOf(name, args, r).args = args /\ CallOf(name, args, r).result = r
BY DEF Reg, Const, Instr, CallOf

\* One instruction.
LEMMA CreateOneOrder ==
  ASSUME IInv, OrderInv, NEW forms, CanCreate(forms), forms \subseteq Valued \cup Tests, NEW instr, NEW t,
         instr.result = count + 1, \A n \in DOMAIN instr.args : instr.args[n].reg \in Usable(at),
         Create(<< instr >>, t)
  PROVE  OrderInv'
<1>1. stack # << >> /\ Top.of \in ForValue
  BY ReadyFacts DEF IInv, CanCreate
<1> DEFINE instrs == << instr >>
<1>2. Ordered(instrs, Usable(at)) /\ Registers(instrs) = {instr.result} /\ Len(instrs) = 1
  BY OneOrdered
<1>3. instrs \in Seq({instr}) /\ Create(instrs, t)
  OBVIOUS
<1> HIDE DEF instrs
<1>4. count + Len(instrs) \in Registers(instrs)
  BY <1>2
<1> QED
  BY <1>1, <1>2, <1>3, <1>4, CreateOrder

\* Two.
LEMMA CreateTwoOrder ==
  ASSUME IInv, OrderInv, stack # << >>, Top.of \in ForValue, NEW first, NEW second, NEW t,
         second.result = count + 2,
         \A n \in DOMAIN first.args : first.args[n].reg \in Usable(at),
         \A n \in DOMAIN second.args : second.args[n].reg \in Usable(at) \cup {first.result},
         Create(<< first, second >>, t)
  PROVE  OrderInv'
<1> DEFINE instrs == << first, second >>
<1>1. Ordered(instrs, Usable(at)) /\ second.result \in Registers(instrs) /\ Len(instrs) = 2
  BY TwoOrdered
<1>2. instrs \in Seq({first, second}) /\ Create(instrs, t)
  OBVIOUS
<1> HIDE DEF instrs
<1>3. count + Len(instrs) \in Registers(instrs)
  BY <1>1
<1> QED
  BY <1>1, <1>2, <1>3, CreateOrder

\* What is handed back.
LEMMA HandBacksOrder ==
  IInv /\ OrderInv /\ (Address \/ AddressOfOperand \/ Parentheses \/ Literal) => OrderInv'
<1> SUFFICES ASSUME IInv, OrderInv, Address \/ AddressOfOperand \/ Parentheses \/ Literal PROVE OrderInv'
  OBVIOUS
<1>1. ASSUME NEW forms, Ready(forms), forms \subseteq Valued, NEW value, HandBack(value), value.reg \in Usable(at)
      PROVE  OrderInv'
  <2>1. stack # << >> /\ Top.of \in ForValue
    BY <1>1, ReadyFacts DEF IInv
  <2> QED
    BY <1>1, <2>1, HandBackOrder
<1>2. {"ID"} \subseteq Valued /\ {"PAREN", "DEREF"} \subseteq Valued /\ {"PAREN"} \subseteq Valued
      /\ {"NUM"} \subseteq Valued /\ {"NULL"} \subseteq Valued
  BY DEF Valued, Factors
<1>3. CASE Address
  <2>1. Ready({"ID"}) /\ WellTyped /\ HandBack(dclSymbolTable[Top.ast.name])
    BY <1>3 DEF Address
  <2>2. Top.ast.form = "ID"
    BY <2>1 DEF Ready
  <2>3. dclSymbolTable[Top.ast.name].reg \in Usable(at)
    BY <2>1, <2>2, ReadyUsable DEF WellTyped
  <2> QED
    BY <1>1, <1>2, <2>1, <2>3
<1>4. ASSUME NEW forms, forms \subseteq {"PAREN", "DEREF"}, Ready(forms) PROVE Arg(1).reg \in Usable(at)
  <2>1. Top.ast \in Trees /\ Top.ast.form \in {"PAREN", "DEREF"}
    BY <1>4, ReadyFacts DEF IInv
  <2> QED
    BY <1>4, <2>1, Kids, ReadyUsable
<1>5. CASE AddressOfOperand
  BY <1>1, <1>2, <1>4, <1>5 DEF AddressOfOperand
<1>6. CASE Parentheses
  <2>1. Ready({"PAREN"}) /\ HandBack(Arg(1)) /\ {"PAREN"} \subseteq {"PAREN", "DEREF"}
    BY <1>6 DEF Parentheses
  <2> QED
    BY <1>1, <1>2, <1>4, <2>1
<1>7. ASSUME NEW forms, Ready(forms), forms \subseteq Valued, NEW t, NEW c, HandBack(Const(t, c)) PROVE OrderInv'
  <2>1. Const(t, c).reg \in Usable(at)
    BY <1>7, ReadyUsable, RegisterOf
  <2> QED
    BY <1>1, <1>7, <2>1
<1>8. CASE Literal
  BY <1>2, <1>7, <1>8 DEF Literal
<1> QED
  BY <1>3, <1>5, <1>6, <1>8

\* Factors that need an instruction.
LEMMA FactorsOrder ==
  IInv /\ OrderInv /\ (LoadVariable \/ LoadOperand \/ NewArray \/ CallProcedure) => OrderInv'
<1> SUFFICES ASSUME IInv, OrderInv, LoadVariable \/ LoadOperand \/ NewArray \/ CallProcedure PROVE OrderInv'
  OBVIOUS
<1>1. {"ID"} \subseteq Valued /\ {"AMP", "DEREF"} \subseteq Valued /\ {"NEW"} \subseteq Valued /\ {"CALL"} \subseteq Valued
  BY DEF Valued, Factors
<1>2. ASSUME NEW forms, CanCreate(forms), forms \subseteq Valued, NEW address, address.reg \in Usable(at), Load(address)
      PROVE  OrderInv'
  <2> DEFINE instr == Instr("load", << address >>, count + 1)
             t == IF address.type = "i32**" THEN "i32*" ELSE "i32"
  <2>1. instr.result = count + 1 /\ instr.args = << address >>
    BY RegisterOf
  <2>2. \A n \in DOMAIN instr.args : instr.args[n].reg \in Usable(at)
    BY <1>2, <2>1, UsedTuples
  <2>3. Create(<< instr >>, t)
    BY <1>2 DEF Load
  <2> HIDE DEF instr, t
  <2> QED
    BY <1>2, <2>1, <2>2, <2>3, CreateOneOrder
<1>3. CASE LoadVariable
  <2>1. CanCreate({"ID"}) /\ Load(dclSymbolTable[Top.ast.name])
    BY <1>3 DEF LoadVariable
  <2>2. Ready({"ID"}) /\ Top.ast.form = "ID" /\ WellTyped
    BY <2>1 DEF CanCreate, Ready
  <2>3. dclSymbolTable[Top.ast.name].reg \in Usable(at)
    BY <2>2, ReadyUsable DEF WellTyped
  <2> QED
    BY <1>1, <1>2, <2>1, <2>3
<1>4. CASE LoadOperand
  <2>1. CanCreate({"AMP", "DEREF"}) /\ Load(Arg(1)) /\ Ready({"AMP", "DEREF"})
    BY <1>4 DEF LoadOperand, CanCreate
  <2>2. Top.ast \in Trees /\ Top.ast.form \in {"AMP", "DEREF"}
    BY <2>1, ReadyFacts DEF IInv
  <2>3. Arg(1).reg \in Usable(at)
    BY <2>1, <2>2, Kids, ReadyUsable
  <2> QED
    BY <1>1, <1>2, <2>1, <2>3
<1>5. CASE NewArray
  <2>1. CanCreate({"NEW"}) /\ Ready({"NEW"})
    BY <1>5 DEF NewArray, CanCreate
  <2>2. Top.ast \in Trees /\ Top.ast.form = "NEW" /\ stack # << >> /\ Top.of \in ForValue
    BY <1>1, <2>1, ReadyFacts DEF IInv
  <2>3. Arg(1).reg \in Usable(at) /\ 0 \in Usable(at)
    BY <2>1, <2>2, Kids, ReadyUsable
  <2> DEFINE mul    == Instr("mul", << Arg(1), Const("i32", 4) >>, count + 1)
             malloc == Instr("malloc", << Reg("i32", count + 1) >>, count + 2)
  <2>4. \A n \in DOMAIN mul.args : mul.args[n].reg \in Usable(at)
    BY <2>3, RegisterOf, UsedTuples
  <2>5. mul.result = count + 1 /\ malloc.result = count + 2
    BY RegisterOf
  <2>6. \A n \in DOMAIN malloc.args : malloc.args[n].reg \in Usable(at) \cup {mul.result}
    <3>1. Reg("i32", count + 1).reg \in Usable(at) \cup {mul.result}
      BY RegisterOf
    <3> QED
      BY <3>1, RegisterOf, UsedTuples
  <2>7. Create(<< mul, malloc >>, "i32*")
    BY <1>5 DEF NewArray
  <2> HIDE DEF mul, malloc
  <2> QED
    BY <2>2, <2>4, <2>5, <2>6, <2>7, CreateTwoOrder
<1>6. CASE CallProcedure
  <2> DEFINE args == [n \in 1 .. Len(Top.ast.kids) |-> Arg(n)]
             instr == CallOf(Top.ast.name, args, count + 1)
  <2>1. CanCreate({"CALL"}) /\ Ready({"CALL"}) /\ Create(<< instr >>, "i32")
    BY <1>6 DEF CallProcedure, CanCreate
  <2>2. Top.ast.kids \in Seq(Trees)
    BY <2>1, ReadyFacts DEF IInv
  <2>3. \A n \in DOMAIN args : args[n].reg \in Usable(at)
    BY <2>1, <2>2, ReadyUsable
  <2>4. instr.result = count + 1 /\ instr.args = args
    BY RegisterOf
  <2> HIDE DEF args, instr
  <2> QED
    BY <1>1, <2>1, <2>3, <2>4, CreateOneOrder
<1> QED
  BY <1>3, <1>4, <1>5, <1>6

\* Operators.
LEMMA OperatorsOrder ==
  IInv /\ OrderInv /\ (Multiply \/ Add \/ AddToPointer \/ SubtractFromPointer \/ SubtractPointers \/ Compare)
    => OrderInv'
<1> SUFFICES ASSUME IInv, OrderInv,
                    Multiply \/ Add \/ AddToPointer \/ SubtractFromPointer \/ SubtractPointers \/ Compare
             PROVE  OrderInv'
  OBVIOUS
<1>1. /\ Terms \subseteq Terms \cup Exprs \cup Tests /\ Exprs \subseteq Terms \cup Exprs \cup Tests
      /\ Tests \subseteq Terms \cup Exprs \cup Tests /\ {"PLUS"} \subseteq Terms \cup Exprs \cup Tests
      /\ {"MINUS"} \subseteq Terms \cup Exprs \cup Tests
  BY DEF Exprs
<1>2. ASSUME NEW forms, CanCreate(forms), forms \subseteq Terms \cup Exprs \cup Tests
      PROVE  /\ stack # << >> /\ Top.of \in ForValue /\ forms \subseteq Valued \cup Tests
             /\ 0 \in Usable(at) /\ Arg(1).reg \in Usable(at) /\ Arg(2).reg \in Usable(at)
             /\ Pointer.reg \in Usable(at) /\ Offset.reg \in Usable(at)
  <2>1. Ready(forms) /\ forms \subseteq Valued \cup Tests
    BY <1>2 DEF CanCreate, Valued
  <2>2. Top.ast \in Trees /\ Top.ast.form \in forms /\ stack # << >> /\ Top.of \in ForValue
    BY <2>1, ReadyFacts DEF IInv
  <2>3. 0 \in Usable(at) /\ Arg(1).reg \in Usable(at) /\ Arg(2).reg \in Usable(at)
    BY <1>2, <2>1, <2>2, Kids, ReadyUsable
  <2> QED
    BY <2>1, <2>2, <2>3 DEF Pointer, Offset
<1>3. ASSUME NEW forms, CanCreate(forms), forms \subseteq Terms \cup Exprs \cup Tests,
             NEW op, NEW x, NEW y, NEW t, x.reg \in Usable(at), y.reg \in Usable(at),
             Create(<< Instr(op, << x, y >>, count + 1) >>, t)
      PROVE  OrderInv'
  <2> DEFINE instr == Instr(op, << x, y >>, count + 1)
  <2>1. instr.result = count + 1 /\ \A n \in DOMAIN instr.args : instr.args[n].reg \in Usable(at)
    BY <1>3, RegisterOf, UsedTuples
  <2>2. Create(<< instr >>, t)
    BY <1>3
  <2> HIDE DEF instr
  <2> QED
    BY <1>2, <1>3, <2>1, <2>2, CreateOneOrder
<1>4. ASSUME NEW forms, CanCreate(forms), forms \subseteq Terms \cup Exprs \cup Tests, NEW t, Compute(t)
      PROVE  OrderInv'
  BY <1>2, <1>3, <1>4 DEF Compute
<1>5. CASE Multiply
  BY <1>1, <1>4, <1>5 DEF Multiply
<1>6. CASE Add
  BY <1>1, <1>4, <1>6 DEF Add
<1>7. CASE Compare
  BY <1>1, <1>4, <1>7 DEF Compare
<1>8. CASE AddToPointer
  BY <1>1, <1>2, <1>3, <1>8 DEF AddToPointer
<1>9. CASE SubtractFromPointer
  <2> DEFINE sub == Instr("sub", << Const("i32", 0), Offset >>, count + 1)
             gep == Instr("gep", << Pointer, Reg("i32", count + 1) >>, count + 2)
  <2>1. CanCreate({"MINUS"}) /\ Create(<< sub, gep >>, "i32*")
    BY <1>9 DEF SubtractFromPointer
  <2>2. /\ stack # << >> /\ Top.of \in ForValue
        /\ 0 \in Usable(at) /\ Pointer.reg \in Usable(at) /\ Offset.reg \in Usable(at)
    BY <1>1, <1>2, <2>1
  <2>3. sub.result = count + 1 /\ gep.result = count + 2
    BY RegisterOf
  <2>4. \A n \in DOMAIN sub.args : sub.args[n].reg \in Usable(at)
    BY <2>2, RegisterOf, UsedTuples
  <2>5. \A n \in DOMAIN gep.args : gep.args[n].reg \in Usable(at) \cup {sub.result}
    <3>1. /\ Pointer.reg \in Usable(at) \cup {sub.result}
          /\ Reg("i32", count + 1).reg \in Usable(at) \cup {sub.result}
      BY <2>2, RegisterOf
    <3> QED
      BY <3>1, RegisterOf, UsedTuples
  <2> HIDE DEF sub, gep
  <2> QED
    BY <2>1, <2>2, <2>3, <2>4, <2>5, CreateTwoOrder
<1>10. CASE SubtractPointers
  <2> DEFINE x == Reg("i32", count + 2)
             y == Reg("i32", count + 1)
             args == << x, y >>
             op == "exact sdiv"
             right == Instr("ptrtoint", << Arg(2) >>, count + 1)
             left  == Instr("ptrtoint", << Arg(1) >>, count + 2)
             quotient == Instr(op, args, count + 3)
  <2>1. CanCreate({"MINUS"}) /\ Create(<< right, left, quotient >>, "i32")
    BY <1>10 DEF SubtractPointers
  <2>2. stack # << >> /\ Top.of \in ForValue /\ Arg(1).reg \in Usable(at) /\ Arg(2).reg \in Usable(at)
    BY <1>1, <1>2, <2>1
  <2>3. x.reg = count + 2 /\ y.reg = count + 1
    BY RegisterOf
  <2> HIDE DEF x, y
  <2>4. \A n \in DOMAIN args : args[n].reg \in {count + 1, count + 2}
    BY <2>3, UsedTuples
  <2> HIDE DEF args, op
  <2>5. /\ right.result = count + 1 /\ left.result = count + 2
        /\ \A n \in DOMAIN right.args : right.args[n].reg \in Usable(at)
        /\ \A n \in DOMAIN left.args : left.args[n].reg \in Usable(at)
    BY <2>2, RegisterOf, UsedTuples
  <2>9. quotient.result = count + 3 /\ quotient.args = args
    BY RegisterOf
  <2> HIDE DEF right, left, quotient
  <2>10. \A n \in DOMAIN quotient.args : quotient.args[n].reg \in {right.result, left.result}
    BY <2>4, <2>5, <2>9
  <2> DEFINE instrs == << right, left, quotient >>
  <2>6. Ordered(instrs, Usable(at)) /\ quotient.result \in Registers(instrs) /\ Len(instrs) = 3
    BY <2>5, <2>10, ThreeOrdered
  <2>7. instrs \in Seq({right, left, quotient}) /\ Create(instrs, "i32")
    BY <2>1
  <2> HIDE DEF instrs
  <2>8. count + Len(instrs) \in Registers(instrs)
    BY <2>6, <2>9
  <2> QED
    BY <2>2, <2>6, <2>7, <2>8, CreateOrder
<1> QED
  BY <1>5, <1>6, <1>7, <1>8, <1>9, <1>10

-----------------------------------------------------------------------------
(* Statements, and calls.                                                  *)

\* An instruction that has no value.
LEMMA VoidOneOrder ==
  ASSUME IInv, OrderInv, stack # << >>, NEW op, NEW args, \A n \in DOMAIN args : args[n].reg \in Usable(at),
         Insert(<< Instr(op, args, 0) >>), ReturnVoid, UNCHANGED << program, k, at, dclSymbolTable, functions >>
  PROVE  OrderInv'
<1> DEFINE instr == Instr(op, args, 0)
           instrs == << instr >>
<1>1. \A n \in DOMAIN instr.args : instr.args[n].reg \in Usable(at)
  BY RegisterOf
<1>2. Insert(instrs)
  OBVIOUS
<1> HIDE DEF instr
<1>3. Ordered(instrs, Usable(at)) /\ instrs \in Seq({instr})
  BY <1>1, OneOrdered
<1> HIDE DEF instrs
<1> QED
  BY <1>2, <1>3, VoidOrder

\* Statements that are one instruction.
LEMMA StatementsOrder ==
  IInv /\ OrderInv /\ (LvalueStatement \/ PrintlnStatement \/ DeleteStatement) => OrderInv'
<1> SUFFICES ASSUME IInv, OrderInv, LvalueStatement \/ PrintlnStatement \/ DeleteStatement PROVE OrderInv'
  OBVIOUS
<1>1. ASSUME NEW form \in {"ASSIGN", "PRINTLN", "DELETE"}, CanCreate({form})
      PROVE  /\ stack # << >> /\ Arg(1).reg \in Usable(at)
             /\ form = "ASSIGN" => Arg(2).reg \in Usable(at)
  <2>1. Ready({form}) /\ stack # << >> /\ Top.ast \in Trees /\ Top.ast.form = form
    BY <1>1, ReadyFacts DEF IInv, CanCreate
  <2> QED
    BY <2>1, Kids, ReadyUsable
<1>2. ASSUME NEW op, NEW args, stack # << >>, \A n \in DOMAIN args : args[n].reg \in Usable(at), CreateVoid(op, args)
      PROVE  OrderInv'
  BY <1>2, VoidOneOrder DEF CreateVoid
<1>3. CASE LvalueStatement
  BY <1>1, <1>2, <1>3, UsedTuples DEF LvalueStatement
<1>4. CASE PrintlnStatement
  BY <1>1, <1>2, <1>4, UsedTuples DEF PrintlnStatement
<1>5. CASE DeleteStatement
  BY <1>1, <1>2, <1>5, UsedTuples DEF DeleteStatement
<1> QED
  BY <1>3, <1>4, <1>5

\* It is returned.
LEMMA CreateRetOrder == IInv /\ OrderInv /\ CreateRet => OrderInv'
<1> SUFFICES ASSUME IInv, OrderInv, CreateRet PROVE OrderInv'
  OBVIOUS
<1>1. stack # << >> /\ Top.pc = "return" /\ 1 \in DOMAIN Top.done
  BY DEF CreateRet, At, IInv, StackInv
<1>2. Arg(1).reg \in Usable(at)
  BY <1>1, HeldUsable
<1> QED
  BY <1>1, <1>2, UsedTuples, VoidOneOrder DEF CreateRet

\* A call that has just been made holds nothing.
LEMMA FrameDone == \A of, ast : DOMAIN Frame(of, ast).done = {}
BY DEF Frame

\* An operand is generated.
LEMMA GenerateOperandOrder == IInv /\ OrderInv /\ GenerateOperand => OrderInv'
<1> SUFFICES ASSUME IInv, OrderInv, GenerateOperand PROVE OrderInv'
  OBVIOUS
<1>1. stack # << >> /\ Top.pc = "operands" /\ Top \in Frames
  BY TopFrame DEF GenerateOperand, At, IInv
<1>2. PICK n \in Due(Top) : Call([Top EXCEPT !.n = n], Frame(OperandKind(Top, n), Top.ast.kids[n]))
  BY DEF GenerateOperand
<1> DEFINE frame == [Top EXCEPT !.n = n]
           callee == Frame(OperandKind(Top, n), Top.ast.kids[n])
<1>3. Call(frame, callee) /\ DOMAIN callee.done = {}
  BY <1>2, FrameDone
<1>4. frame.done = Top.done /\ frame.of = Top.of /\ frame.pc = Top.pc /\ frame.BB = Top.BB
  BY <1>1 DEF Frames
<1> HIDE DEF frame, callee
<1>5. UNCHANGED << program, k, blocks, at, dclSymbolTable, functions >>
  BY DEF GenerateOperand
<1> QED
  BY <1>1, <1>3, <1>4, <1>5, CallOrder DEF InList, Home

\* The next statement.
LEMMA NextStatementOrder == IInv /\ OrderInv /\ NextStatement => OrderInv'
<1> SUFFICES ASSUME IInv, OrderInv, NextStatement PROVE OrderInv'
  OBVIOUS
<1>1. stack # << >> /\ Top.pc = "statements" /\ Top \in Frames
  BY TopFrame DEF NextStatement, At, IInv
<1> DEFINE frame == [Top EXCEPT !.pc = "link", !.n = @ + 1]
           callee == Frame("statement", Top.stmts[Top.n + 1])
<1>2. Call(frame, callee) /\ DOMAIN callee.done = {}
  BY FrameDone DEF NextStatement
<1>3. frame.done = Top.done /\ frame.of = Top.of /\ frame.BB = Top.BB
  BY <1>1 DEF Frames
<1> HIDE DEF frame, callee
<1>4. InList(Top)
  BY <1>1 DEF InList
<1>5. UNCHANGED << program, k, blocks, at, dclSymbolTable, functions >>
  BY DEF NextStatement
<1> QED
  BY <1>1, <1>2, <1>3, <1>4, <1>5, CallOrder DEF Home

\* The value of the test will be used in the block that is current.
LEMMA GenerateTestOrder == IInv /\ OrderInv /\ GenerateTest => OrderInv'
<1> SUFFICES ASSUME IInv, OrderInv, GenerateTest PROVE OrderInv'
  OBVIOUS
<1>1. stack # << >> /\ Top.pc = "test" /\ Top \in Frames /\ FrameInv(Top)
  BY TopFrame DEF GenerateTest, At, IInv
<1> DEFINE frame == [Top EXCEPT !.pc = "body", !.n = 1, !.BB = at]
           callee == Frame("value", Top.ast.kids[1])
<1>2. Call(frame, callee) /\ DOMAIN callee.done = {}
  BY FrameDone DEF GenerateTest
<1>3. frame.done = Top.done /\ frame.of = Top.of /\ frame.pc = "body" /\ frame.BB = at
  BY <1>1 DEF Frames
<1> HIDE DEF frame, callee
<1>4. Home(Top) = at /\ ~ InList(frame)
  BY <1>1, <1>3 DEF FrameInv, Home, InList
<1>5. UNCHANGED << program, k, blocks, at, dclSymbolTable, functions >>
  BY DEF GenerateTest
<1> QED
  BY <1>1, <1>2, <1>3, <1>4, <1>5, CallOrder

\* The value of a procedure is generated.
LEMMA GenerateReturnExprOrder == IInv /\ OrderInv /\ GenerateReturnExpr => OrderInv'
<1> SUFFICES ASSUME IInv, OrderInv, GenerateReturnExpr PROVE OrderInv'
  OBVIOUS
<1>1. stack # << >> /\ Top.pc = "statements" /\ Top \in Frames
  BY TopFrame DEF GenerateReturnExpr, AtEnd, At, IInv
<1> DEFINE frame == [Top EXCEPT !.pc = "return", !.n = 1]
           callee == Frame("value", Top.ast)
<1>2. Call(frame, callee) /\ DOMAIN callee.done = {}
  BY FrameDone DEF GenerateReturnExpr
<1>3. frame.done = Top.done /\ frame.of = Top.of /\ frame.BB = Top.BB
  BY <1>1 DEF Frames
<1> HIDE DEF frame, callee
<1>4. InList(Top)
  BY <1>1 DEF InList
<1>5. UNCHANGED << program, k, blocks, at, dclSymbolTable, functions >>
  BY DEF GenerateReturnExpr
<1> QED
  BY <1>1, <1>2, <1>3, <1>4, <1>5, CallOrder DEF Home

-----------------------------------------------------------------------------
(* Steps that begin a block.                                               *)

\* The calls below are in lists, and use their values in blocks of their own.
LEMMA BeginDone ==
  ASSUME IInv, DoneInv, Grows, stack # << >>, Top.pc \in {"link", "statements", "body"},
         \A f \in DOMAIN stack' :
           /\ f \in DOMAIN stack
           /\ stack'[f].done = stack[f].done /\ stack'[f].of = stack[f].of /\ stack'[f].BB = stack[f].BB
  PROVE  DoneInv'
<1>1. Top.of \notin ForValue /\ FrameInv(Top) /\ Top = stack[Len(stack)]
  BY TopFrame DEF IInv, FrameInv
<1>2. \A f \in DOMAIN stack : FrameInv(stack[f]) /\ (f # Len(stack) => stack[f].pc = "link")
  BY <1>1, WaitingLists DEF IInv, StackInv
<1>3. ASSUME NEW f \in DOMAIN stack', NEW n \in DOMAIN stack'[f].done
      PROVE  /\ f \in DOMAIN stack /\ n \in DOMAIN stack[f].done
             /\ stack'[f].done[n] = stack[f].done[n]
             /\ ~ (stack'[f].of = "procedure" /\ InList(stack'[f]))
             /\ Home(stack[f])' = Home(stack[f])
  <2>1. f \in DOMAIN stack /\ n \in DOMAIN stack[f].done
    BY <1>3
  <2>2. FrameInv(stack[f]) /\ stack[f].pc \in {"link", "statements", "body"} /\ stack[f].of \in Kinds
    <3>1. stack[f].pc \in {"link", "statements", "body"}
      BY <1>1, <1>2, <2>1
    <3>2. FrameInv(stack[f]) /\ stack[f] \in Frames
      BY <1>2, <2>1 DEF FrameInv
    <3> QED
      BY <3>1, <3>2 DEF Frames
  <2>3. stack[f].of = "statement"
    <3>1. stack[f].of = "procedure" => InList(stack[f])
      BY <2>2 DEF FrameInv, InList
    <3>2. stack[f].of # "procedure"
      BY <2>1, <3>1 DEF DoneInv
    <3>3. stack[f].of \notin ForValue
      BY <2>2 DEF FrameInv
    <3> QED
      BY <2>2, <3>2, <3>3 DEF Kinds, ForValue
  <2>4. stack[f].BB # 0
    BY <2>2, <2>3 DEF FrameInv, InList
  <2> QED
    BY <1>3, <2>1, <2>3, <2>4 DEF Home
<1> QED
  BY <1>3, DoneKept DEF IInv

\* The blocks that are ended use what they may, the new one is empty.
LEMMA BeginOrder ==
  ASSUME IInv, OrderInv, Begun, stack # << >>, Top.pc \in {"link", "statements", "body"}, NEW closed, NEW ends,
         \A b \in DOMAIN blocks :
           blocks'[b].code = IF b \in closed THEN blocks[b].code \o << ends[b] >> ELSE blocks[b].code,
         \A b \in DOMAIN blocks : b \in closed =>
           ends[b] \in Instructions /\ \A n \in DOMAIN ends[b].args : ends[b].args[n].reg \in Usable(b),
         UNCHANGED << program, k, dclSymbolTable, functions >>,
         \A f \in DOMAIN stack' :
           /\ f \in DOMAIN stack
           /\ stack'[f].done = stack[f].done /\ stack'[f].of = stack[f].of /\ stack'[f].BB = stack[f].BB
  PROVE  OrderInv'
<1>1. /\ at' = NewBB /\ NewBB \notin DOMAIN blocks /\ DOMAIN blocks' = DOMAIN blocks \cup {NewBB}
      /\ blocks'[NewBB].func = blocks[at].func /\ blocks'[NewBB].code = << >>
      /\ \A b \in DOMAIN blocks : blocks'[b].func = blocks[b].func
  BY DEF Begun, EmptyBB, BasicBlock
<1>2. \A b \in DOMAIN blocks : Entry(b)' = Entry(b) /\ Entry(b) \in DOMAIN blocks /\ blocks[b].code \in Seq(Instructions)
  BY <1>1, BlockTypes DEF IInv, Entry
<1>3. ASSUME NEW b \in DOMAIN blocks, NEW known, Known(b) \subseteq known
      PROVE  /\ Ordered(blocks'[b].code, known)
             /\ Registers(blocks[b].code) \subseteq Registers(blocks'[b].code)
  <2>1. Ordered(blocks[b].code, Known(b))
    BY DEF OrderInv, BlocksOrdered
  <2>2. CASE b \notin closed
    BY <1>3, <2>1, <2>2, OrderedMore
  <2>3. CASE b \in closed
    <3> DEFINE instr == ends[b]
               instrs == << instr >>
               code == blocks[b].code
    <3>1. instr \in Instructions /\ \A n \in DOMAIN instr.args : instr.args[n].reg \in Usable(b)
      BY <2>3
    <3>2. blocks'[b].code = code \o instrs
      BY <2>3
    <3> HIDE DEF instr
    <3>3. Ordered(instrs, Usable(b)) /\ instrs \in Seq(Instructions)
      BY <3>1, OneOrdered
    <3>4. Usable(b) \subseteq known \cup Registers(code)
      BY <1>3 DEF Usable
    <3>5. code \in Seq(Instructions) /\ Ordered(code, Known(b))
      BY <1>2, <2>1
    <3> HIDE DEF instrs, code
    <3>6. Ordered(instrs, known \cup Registers(code))
      BY <3>3, <3>4, OrderedMore
    <3>7. Ordered(code \o instrs, known) /\ Registers(code \o instrs) = Registers(code) \cup Registers(instrs)
      BY <1>3, <3>3, <3>5, <3>6, OrderedExtends
    <3> QED
      BY <3>2, <3>7 DEF code
  <2> QED
    BY <2>2, <2>3
<1>4. Grows
  BY <1>1, <1>3 DEF Grows
<1>5. BlocksOrdered'
  <2>1. ASSUME NEW b \in DOMAIN blocks' PROVE Ordered(blocks'[b].code, Known(b)')
    <3>1. CASE b \in DOMAIN blocks
      <4>1. Known(b) \subseteq Known(b)'
        BY <1>4, <3>1, GrowsKeeps DEF IInv
      <4> DEFINE known == Known(b)'
      <4>2. Known(b) \subseteq known
        BY <4>1
      <4> HIDE DEF known
      <4>3. Ordered(blocks'[b].code, known)
        BY <1>3, <3>1, <4>2
      <4> QED
        BY <4>3 DEF known
    <3>2. CASE b = NewBB
      BY <1>1, <3>2 DEF Ordered
    <3> QED
      BY <1>1, <3>1, <3>2
  <2> QED
    BY <2>1 DEF BlocksOrdered, Ordered
<1>6. VariablesInv'
  BY <1>1, <1>4, VariablesKept DEF OrderInv
<1>7. DoneInv'
  BY <1>4, BeginDone DEF OrderInv
<1>8. NamesInv'
  BY DEF OrderInv, NamesInv
<1> QED
  BY <1>5, <1>6, <1>7, <1>8 DEF OrderInv

\* The next block of a list.
LEMMA LinkOrder == IInv /\ OrderInv /\ Link => OrderInv'
<1> SUFFICES ASSUME IInv, OrderInv, Link PROVE OrderInv'
  OBVIOUS
<1>1. stack # << >> /\ Top.pc = "link" /\ Top \in Frames /\ Top = stack[Len(stack)]
  BY TopFrame DEF Link, At, IInv
<1>2. at \in DOMAIN blocks /\ NewBB \in Nat
  BY <1>1, AtBlock DEF IInv, NewBB
<1> DEFINE closed == {at}
           ends == [b \in {at} |-> Br(NewBB)]
           old == [b \in DOMAIN blocks |-> IF b \in closed THEN Extended(blocks[b], << ends[b] >>) ELSE blocks[b]]
<1>3. blocks' = Append(old, EmptyBB)
  <2>1. old = [blocks EXCEPT ![at] = Extended(@, << Br(NewBB) >>)]
    BY <1>2
  <2> QED
    BY <2>1 DEF Link
<1>4. \A b \in closed : ends[b] = Br(NewBB)
  OBVIOUS
<1>5. \A b \in closed : ends[b] \in Instructions /\ ends[b].args = << >>
  BY <1>2, <1>4, Branches
<1> HIDE DEF closed, ends
<1>6. /\ Begun
      /\ \A b \in DOMAIN blocks :
           blocks'[b].code = IF b \in closed THEN blocks[b].code \o << ends[b] >> ELSE blocks[b].code
  BY <1>1, <1>3, <1>5, BeginsBlock DEF IInv, Link
<1> DEFINE frame == [Top EXCEPT !.pc = "statements"]
<1>7. frame.done = Top.done /\ frame.of = Top.of /\ frame.BB = Top.BB
  BY <1>1 DEF Frames
<1>8. Become(frame)
  BY DEF Link
<1> HIDE DEF frame
<1>9. \A f \in DOMAIN stack' :
        /\ f \in DOMAIN stack
        /\ stack'[f].done = stack[f].done /\ stack'[f].of = stack[f].of /\ stack'[f].BB = stack[f].BB
  BY <1>1, <1>7, <1>8, BecomeShape DEF IInv
<1>10. \A b \in closed : \A n \in DOMAIN ends[b].args : ends[b].args[n].reg \in Usable(b)
  BY <1>5
<1>11. UNCHANGED << program, k, dclSymbolTable, functions >>
  BY DEF Link
<1> QED
  BY <1>1, <1>5, <1>6, <1>9, <1>10, <1>11, BeginOrder

\* A list of statements is begun.
LEMMA BeginListOrder ==
  ASSUME IInv, OrderInv, stack # << >>, Top.pc \in {"statements", "body"},
         blocks' = Append(blocks, EmptyBB), at' = NewBB,
         UNCHANGED << program, k, count, dclSymbolTable, functions, symbols, phase >>,
         NEW frame, Become(frame), frame.done = Top.done, frame.of = Top.of, frame.BB = Top.BB
  PROVE  OrderInv'
<1> DEFINE closed == {}
           ends == [b \in {} |-> Br(0)]
           old == [b \in DOMAIN blocks |-> IF b \in closed THEN Extended(blocks[b], << ends[b] >>) ELSE blocks[b]]
<1>1. blocks' = Append(old, EmptyBB)
  <2>1. blocks = [b \in DOMAIN blocks |-> blocks[b]]
    BY DEF IInv, DataInv
  <2>2. old = [b \in DOMAIN blocks |-> blocks[b]]
    OBVIOUS
  <2> QED
    BY <2>1, <2>2
<1>2. \A b : b \notin closed
  OBVIOUS
<1> HIDE DEF closed, ends
<1>3. /\ Begun
      /\ \A b \in DOMAIN blocks :
           blocks'[b].code = IF b \in closed THEN blocks[b].code \o << ends[b] >> ELSE blocks[b].code
  <2>1. \A b \in closed : ends[b] \in Instructions
    BY <1>2
  <2> QED
    BY <1>1, <2>1, BeginsBlock DEF IInv
<1>4. \A f \in DOMAIN stack' :
        /\ f \in DOMAIN stack
        /\ stack'[f].done = stack[f].done /\ stack'[f].of = stack[f].of /\ stack'[f].BB = stack[f].BB
  BY TopFrame, BecomeShape DEF IInv
<1> QED
  BY <1>2, <1>3, <1>4, BeginOrder

\* trueBB, whileBB.
LEMMA BeginBodyOrder == IInv /\ OrderInv /\ BeginBody => OrderInv'
<1> SUFFICES ASSUME IInv, OrderInv, BeginBody PROVE OrderInv'
  OBVIOUS
<1>1. stack # << >> /\ Top.pc = "body" /\ Top \in Frames
  BY TopFrame DEF BeginBody, At, IInv
<1> DEFINE list == Top.ast.kids[2].kids
           frame == [Top EXCEPT !.pc = "statements", !.bodyBB = NewBB, !.stmts = list, !.n = 0]
<1>2. Become(frame)
  BY DEF BeginBody
<1> HIDE DEF list
<1>3. frame.done = Top.done /\ frame.of = Top.of /\ frame.BB = Top.BB
  BY <1>1 DEF Frames
<1> HIDE DEF frame
<1> QED
  BY <1>1, <1>2, <1>3, BeginListOrder DEF BeginBody

\* falseBB.
LEMMA BeginElseOrder == IInv /\ OrderInv /\ BeginElse => OrderInv'
<1> SUFFICES ASSUME IInv, OrderInv, BeginElse PROVE OrderInv'
  OBVIOUS
<1>1. stack # << >> /\ Top.pc = "statements" /\ Top \in Frames
  BY TopFrame DEF BeginElse, AtEnd, At, IInv
<1> DEFINE list == Top.ast.kids[3].kids
           frame == [Top EXCEPT !.lastTrueBB = at, !.falseBB = NewBB, !.stmts = list, !.n = 0]
<1>2. Become(frame)
  BY DEF BeginElse
<1> HIDE DEF list
<1>3. frame.done = Top.done /\ frame.of = Top.of /\ frame.BB = Top.BB
  BY <1>1 DEF Frames
<1> HIDE DEF frame
<1> QED
  BY <1>1, <1>2, <1>3, BeginListOrder DEF BeginElse

\* The value of the test is used in its block, by the branch that ends it.
LEMMA EndsOrder ==
  ASSUME IInv, OrderInv, AtEnd, Top.ast.form \in Nested, NEW ends, Closes(ends), at' = NewBB, ReturnVoid,
         UNCHANGED << program, k, count, dclSymbolTable, functions, symbols, phase >>
  PROVE  OrderInv'
<1>1. /\ stack # << >> /\ Top.pc = "statements" /\ FrameInv(Top)
      /\ Len(stack) \in DOMAIN stack /\ Top = stack[Len(stack)] /\ Top \in Frames
  BY TopFrame DEF AtEnd, At, IInv
<1>2. Top.of = "statement"
  BY <1>1 DEF FrameInv, Frames, Kinds, ForValue, Nested, Valued, Factors, Terms, Exprs
<1>3. 1 \in DOMAIN Top.done /\ Top.BB # 0
  BY <1>1, <1>2 DEF FrameInv, InList
<1>4. Arg(1).reg \in Usable(Top.BB)
  BY <1>1, <1>3 DEF OrderInv, DoneInv, Home, Arg
<1> DEFINE closed == Held(Top) \cup {at}
           old == [b \in DOMAIN blocks |-> IF b \in closed THEN Extended(blocks[b], << ends[b] >>) ELSE blocks[b]]
<1>5. blocks' = Append(old, EmptyBB)
  BY DEF Closes
<1>6. \A b \in closed : ends[b] \in Instructions /\ (ends[b].args = << >> \/ (b = Top.BB /\ ends[b].args = << Arg(1) >>))
  BY DEF Closes
<1> HIDE DEF closed
<1>7. \A b \in closed : \A n \in DOMAIN ends[b].args : ends[b].args[n].reg \in Usable(b)
  <2> TAKE b \in closed
  <2>1. CASE ends[b].args = << >>
    BY <2>1
  <2>2. CASE b = Top.BB /\ ends[b].args = << Arg(1) >>
    BY <1>4, <2>2, UsedTuples
  <2> QED
    BY <1>6, <2>1, <2>2
<1>8. /\ Begun
      /\ \A b \in DOMAIN blocks :
           blocks'[b].code = IF b \in closed THEN blocks[b].code \o << ends[b] >> ELSE blocks[b].code
  BY <1>1, <1>5, <1>6, BeginsBlock DEF IInv
<1>9. \A f \in DOMAIN stack' : f \in DOMAIN stack /\ stack'[f] = stack[f]
  BY <1>1, VoidShape DEF IInv
<1> QED
  BY <1>1, <1>6, <1>7, <1>8, <1>9, BeginOrder

\* The exits.
LEMMA EndOrder == IInv /\ OrderInv /\ (EndIf \/ EndWhile) => OrderInv'
<1> SUFFICES ASSUME IInv, OrderInv, EndIf \/ EndWhile PROVE OrderInv'
  OBVIOUS
<1>1. CASE EndIf
  <2>1. PICK ends : Closes(ends)
    BY <1>1, EndIfCloses
  <2>2. Top.ast.form \in Nested
    BY <1>1 DEF EndIf, Nested
  <2>3. /\ AtEnd /\ at' = NewBB /\ ReturnVoid
        /\ UNCHANGED << program, k, count, dclSymbolTable, functions, symbols, phase >>
    BY <1>1 DEF EndIf
  <2> QED
    BY <2>1, <2>2, <2>3, EndsOrder
<1>2. CASE EndWhile
  <2>1. PICK ends : Closes(ends)
    BY <1>2, EndWhileCloses
  <2>2. Top.ast.form \in Nested
    BY <1>2 DEF EndWhile, Nested
  <2>3. /\ AtEnd /\ at' = NewBB /\ ReturnVoid
        /\ UNCHANGED << program, k, count, dclSymbolTable, functions, symbols, phase >>
    BY <1>2 DEF EndWhile
  <2> QED
    BY <2>1, <2>2, <2>3, EndsOrder
<1> QED
  BY <1>1, <1>2

-----------------------------------------------------------------------------
(* Procedures.                                                             *)

\* The variables are allocated before anything is stored in them.
LEMMA EntryOrder ==
  ASSUME count \in Nat, NEW p \in Procedures, NEW known, 0 \in known,
         \A n \in 1 .. Len(p.params) : count + n \in known
  PROVE  /\ Ordered(EntryCode(p), known)
         /\ \A n \in DOMAIN (p.params \o p.dcls) : count + Len(p.params) + n \in Registers(EntryCode(p))
<1> DEFINE args == Len(p.params)
           all == p.params \o p.dcls
           l == Len(all)
           Alloca(n) == Instr("alloca", << >>, count + args + n)
           Initial(n) == IF n <= args THEN Reg(LLVMType(all[n].type), count + n) ELSE InitialValue(all[n])
           Variable(n) == Reg(PointerTo(LLVMType(all[n].type)), count + args + n)
           Store(n) == Instr("store", << Initial(n), Variable(n) >>, 0)
           allocas == [n \in 1 .. l |-> Alloca(n)]
           stores == [n \in 1 .. l |-> Store(n)]
           S == { Alloca(n) : n \in 1 .. l } \cup { Store(n) : n \in 1 .. l }
<1>1. l \in Nat /\ args \in Nat /\ DOMAIN all = 1 .. l
  <2>1. p.params \in Seq(Dcls) /\ p.dcls \in Seq(Dcls)
    BY DEF Procedures
  <2>2. args \in Nat /\ all \in Seq(Dcls)
    BY <2>1
  <2> HIDE DEF all
  <2> QED
    BY <2>2
<1>2. EntryCode(p) = allocas \o stores
  BY DEF EntryCode
<1> HIDE DEF args, all, l
<1>3. \A n \in 1 .. l : /\ Alloca(n).result = count + args + n /\ DOMAIN Alloca(n).args = {}
                       /\ Store(n).args = << Initial(n), Variable(n) >>
                       /\ Variable(n).reg = count + args + n
  BY RegisterOf
<1>4. \A n \in 1 .. l : Initial(n).reg \in known
  <2> TAKE n \in 1 .. l
  <2>1. CASE n <= args
    <3>1. n \in 1 .. args
      BY <1>1, <2>1
    <3> QED
      BY <2>1, <3>1, RegisterOf DEF args
  <2>2. CASE ~ (n <= args)
    <3>1. InitialValue(all[n]).reg = 0
      BY RegisterOf DEF InitialValue
    <3> QED
      BY <2>2, <3>1
  <2> QED
    BY <2>1, <2>2
<1> HIDE DEF Alloca, Initial, Variable, Store
<1>5. allocas \in Seq(S) /\ stores \in Seq(S)
  <2>1. \A n \in 1 .. l : Alloca(n) \in S /\ Store(n) \in S
    OBVIOUS
  <2> HIDE DEF S
  <2> QED
    BY <1>1, <2>1
<1>6. DOMAIN allocas = 1 .. l /\ \A n \in 1 .. l : allocas[n] = Alloca(n)
  OBVIOUS
<1>7. DOMAIN stores = 1 .. l /\ \A n \in 1 .. l : stores[n] = Store(n)
  OBVIOUS
<1> HIDE DEF allocas, stores, S
<1>8. Ordered(allocas, known)
  BY <1>3, <1>6 DEF Ordered
<1>9. \A n \in 1 .. l : count + args + n \in Registers(allocas)
  BY <1>3, <1>6 DEF Registers
<1>10. Ordered(stores, known \cup Registers(allocas))
  <2>1. ASSUME NEW i \in 1 .. l, NEW n \in DOMAIN Store(i).args
        PROVE  Store(i).args[n].reg \in known \cup Registers(allocas)
    <3> DEFINE x == Initial(i)
               y == Variable(i)
    <3>1. x.reg \in known \cup Registers(allocas) /\ y.reg \in known \cup Registers(allocas)
      BY <1>3, <1>4, <1>9
    <3>2. Store(i).args = << x, y >>
      BY <1>3
    <3> HIDE DEF x, y
    <3> QED
      BY <3>1, <3>2, UsedTuples
  <2> QED
    BY <1>7, <2>1 DEF Ordered
<1>11. /\ Ordered(allocas \o stores, known)
       /\ Registers(allocas \o stores) = Registers(allocas) \cup Registers(stores)
  BY <1>5, <1>8, <1>10, OrderedExtends
<1>12. \A n \in DOMAIN all : count + args + n \in Registers(EntryCode(p))
  BY <1>1, <1>2, <1>9, <1>11
<1> QED
  BY <1>2, <1>11, <1>12 DEF all, args

\* What a procedure changes; its name is a new one.
LEMMA ProcedureShape ==
  ASSUME IInv, NamesInv, Procedure
  PROVE  LET p == program[k + 1]
         IN
         /\ p \in Procedures /\ p.name \notin DOMAIN functions
         /\ DOMAIN functions' = DOMAIN functions \cup {p.name}
         /\ \A f \in DOMAIN functions : functions'[f] = functions[f]
         /\ functions'[p.name].entry = NewBB /\ functions'[p.name].first = count
         /\ Len(functions'[p.name].types) = Len(p.params)
         /\ NewBB \notin DOMAIN blocks /\ DOMAIN blocks' = DOMAIN blocks \cup {NewBB}
         /\ \A b \in DOMAIN blocks : blocks'[b] = blocks[b]
         /\ blocks'[NewBB].func = p.name /\ blocks'[NewBB].code = EntryCode(p)
         /\ at' = NewBB /\ k' = k + 1 /\ k \in Nat /\ program' = program
         /\ \A id \in DOMAIN dclSymbolTable' :
              \E n \in DOMAIN (p.params \o p.dcls) : dclSymbolTable'[id].reg = count + Len(p.params) + n
         /\ stack' = << ProcedureFrame(p) >>
<1> DEFINE p == program[k + 1]
           args == Len(p.params)
           all == p.params \o p.dcls
           types == [n \in 1 .. args |-> LLVMType(p.params[n].type)]
           func == [entry |-> NewBB, first |-> count, types |-> types]
           new == BasicBlock(p.name, EntryCode(p))
<1>1. /\ functions' = [f \in DOMAIN functions \cup {p.name} |-> IF f = p.name THEN func ELSE functions[f]]
      /\ blocks' = Append(blocks, new)
      /\ dclSymbolTable' =
           [id \in { all[n].id : n \in DOMAIN all } |->
              LET n == CHOOSE m \in DOMAIN all : all[m].id = id
              IN  Reg(PointerTo(LLVMType(all[n].type)), count + args + n)]
      /\ stack' = << ProcedureFrame(p) >>
      /\ at' = NewBB /\ k' = k + 1 /\ program' = program
      /\ k < Len(program)
  BY DEF Procedure, AtProcedure
<1>2. k \in Nat /\ program \in Programs /\ program \in Seq(Procedures) /\ k + 1 \in DOMAIN program
      /\ \A m \in 1 .. k : m \in DOMAIN program /\ m # k + 1
  <2>1. program \in Programs /\ k \in 0 .. Len(program) /\ program \in Seq(Procedures)
    BY TreeAssumption DEF IInv, DataInv
  <2> DEFINE len == Len(program)
  <2>2. len \in Nat /\ DOMAIN program = 1 .. len
    BY <2>1
  <2>4. k \in 0 .. len /\ k < len
    BY <1>1, <2>1
  <2> HIDE DEF len
  <2>3. k \in Nat /\ k + 1 \in 1 .. len /\ \A m \in 1 .. k : m \in 1 .. len /\ m # k + 1
    BY <2>2, <2>4
  <2> QED
    BY <2>1, <2>2, <2>3
<1>3. p \in Procedures /\ args \in Nat
  <2>1. p \in Procedures
    BY <1>2
  <2> QED
    BY <2>1 DEF Procedures
<1>4. p.name \notin DOMAIN functions
  <2> SUFFICES ASSUME p.name \in DOMAIN functions PROVE FALSE
    OBVIOUS
  <2>1. PICK m \in 1 .. k : program[m].name = p.name
    BY DEF NamesInv
  <2> QED
    BY <1>2, <2>1, NamesAssumption
<1>5. types \in Seq({ LLVMType(p.params[n].type) : n \in 1 .. args }) /\ Len(types) = args
  BY <1>3
<1>6. \A id \in DOMAIN dclSymbolTable' :
        \E n \in DOMAIN all : dclSymbolTable'[id].reg = count + args + n
  <2> TAKE id \in DOMAIN dclSymbolTable'
  <2> DEFINE n == CHOOSE m \in DOMAIN all : all[m].id = id
  <2>1. id \in { all[m].id : m \in DOMAIN all }
    BY <1>1
  <2>2. n \in DOMAIN all
    BY <2>1
  <2>3. dclSymbolTable'[id] = Reg(PointerTo(LLVMType(all[n].type)), count + args + n)
    BY <1>1, <2>1
  <2> HIDE DEF n
  <2> DEFINE t == PointerTo(LLVMType(all[n].type))
             r == count + args + n
  <2>4. dclSymbolTable'[id] = Reg(t, r)
    BY <2>3
  <2> HIDE DEF t, r
  <2>5. dclSymbolTable'[id].reg = r
    BY <2>4, RegisterOf
  <2>6. dclSymbolTable'[id].reg = count + args + n
    BY <2>5 DEF r
  <2> HIDE DEF all, args
  <2> QED
    BY <2>2, <2>6
<1> HIDE DEF types
<1>7. func.entry = NewBB /\ func.first = count /\ Len(func.types) = args
  BY <1>5
<1>8. new.func = p.name /\ new.code = EntryCode(p)
  BY DEF BasicBlock
<1> HIDE DEF func, new
<1>9. /\ NewBB \notin DOMAIN blocks /\ DOMAIN blocks' = DOMAIN blocks \cup {NewBB}
      /\ \A b \in DOMAIN blocks : blocks'[b] = blocks[b]
      /\ blocks'[NewBB] = new
  <2> DEFINE len == Len(blocks)
             T == Blocks \cup {new}
  <2>4. len \in Nat /\ DOMAIN blocks = 1 .. len /\ blocks \in Seq(Blocks) /\ NewBB = len + 1
    BY DEF IInv, DataInv, Blocks, NewBB
  <2>5. blocks \in Seq(T) /\ new \in T
    BY <2>4
  <2> HIDE DEF T
  <2>1. len \in Nat /\ DOMAIN blocks = 1 .. len /\ blocks \in Seq(T) /\ new \in T /\ NewBB = len + 1
    BY <2>4, <2>5
  <2> DEFINE next == Append(blocks, new)
  <2>6. Len(next) = len + 1 /\ next \in Seq(T)
    BY <2>1
  <2>7. next[len + 1] = new /\ \A b \in 1 .. len : next[b] = blocks[b]
    BY <2>1
  <2>8. DOMAIN next = 1 .. (len + 1)
    BY <2>1, <2>6
  <2>9. blocks' = next
    BY <1>1
  <2> HIDE DEF len, next
  <2>2. /\ Len(blocks') = len + 1 /\ DOMAIN blocks' = 1 .. (len + 1)
        /\ blocks'[len + 1] = new /\ \A b \in 1 .. len : blocks'[b] = blocks[b]
    BY <2>6, <2>7, <2>8, <2>9
  <2>3. len + 1 \notin 1 .. len /\ 1 .. (len + 1) = 1 .. len \cup {len + 1}
    BY <2>1
  <2> QED
    BY <2>1, <2>2, <2>3
<1> HIDE DEF all, args, p
<1> QED
  BY <1>1, <1>2, <1>3, <1>4, <1>6, <1>7, <1>8, <1>9 DEF all, args, p

\* The procedures before it are left as they were.
LEMMA ProcedureOrder == IInv /\ OrderInv /\ Procedure => OrderInv'
<1> SUFFICES ASSUME IInv, OrderInv, Procedure PROVE OrderInv'
  OBVIOUS
<1>1. PICK new : new = NewBB
  OBVIOUS
<1> DEFINE p == program[k + 1]
           code == EntryCode(p)
<1>2. /\ p \in Procedures /\ p.name \notin DOMAIN functions
      /\ DOMAIN functions' = DOMAIN functions \cup {p.name}
      /\ \A f \in DOMAIN functions : functions'[f] = functions[f]
      /\ functions'[p.name].entry = new /\ functions'[p.name].first = count
      /\ Len(functions'[p.name].types) = Len(p.params)
      /\ new \notin DOMAIN blocks /\ DOMAIN blocks' = DOMAIN blocks \cup {new}
      /\ \A b \in DOMAIN blocks : blocks'[b] = blocks[b]
      /\ blocks'[new].func = p.name /\ blocks'[new].code = code
      /\ at' = new /\ k' = k + 1 /\ k \in Nat /\ program' = program
      /\ \A id \in DOMAIN dclSymbolTable' :
           \E n \in DOMAIN (p.params \o p.dcls) : dclSymbolTable'[id].reg = count + Len(p.params) + n
      /\ stack' = << ProcedureFrame(p) >>
  BY <1>1, ProcedureShape DEF OrderInv
<1>3. Grows
  BY <1>2 DEF Grows
<1> HIDE DEF p, code
<1>4. Entry(new)' = new
  BY <1>2 DEF Entry
<1>5. Known(new)' = {0} \cup (count + 1 .. count + Len(p.params))
  BY <1>2, <1>4 DEF Known, ParameterRegisters
<1>6. /\ Ordered(code, {0} \cup (count + 1 .. count + Len(p.params)))
      /\ \A n \in DOMAIN (p.params \o p.dcls) : count + Len(p.params) + n \in Registers(code)
  <2> DEFINE known == {0} \cup (count + 1 .. count + Len(p.params))
  <2>1. count \in Nat /\ Len(p.params) \in Nat
    BY <1>2 DEF IInv, DataInv, Procedures
  <2>2. 0 \in known /\ \A n \in 1 .. Len(p.params) : count + n \in known
    BY <2>1
  <2> HIDE DEF known
  <2>3. Ordered(EntryCode(p), known)
        /\ \A n \in DOMAIN (p.params \o p.dcls) : count + Len(p.params) + n \in Registers(EntryCode(p))
    BY <1>2, <2>1, <2>2, EntryOrder
  <2> QED
    BY <2>3 DEF known, code
<1>7. BlocksOrdered'
  <2>1. ASSUME NEW b \in DOMAIN blocks' PROVE Ordered(blocks'[b].code, Known(b)')
    <3>1. CASE b \in DOMAIN blocks
      <4>1. Known(b) \subseteq Known(b)'
        BY <1>3, <3>1, GrowsKeeps DEF IInv
      <4>2. Ordered(blocks[b].code, Known(b)) /\ blocks'[b] = blocks[b]
        BY <1>2, <3>1 DEF OrderInv, BlocksOrdered
      <4> QED
        BY <4>1, <4>2, OrderedMore
    <3>2. CASE b = new
      <4>1. Ordered(blocks'[new].code, Known(new)')
        BY <1>2, <1>5, <1>6
      <4> QED
        BY <3>2, <4>1 DEF Known, Entry
    <3> QED
      BY <1>2, <3>1, <3>2
  <2> QED
    BY <2>1 DEF BlocksOrdered, Ordered
<1>8. VariablesInv'
  <2>1. Entry(at)' = new
    BY <1>2, <1>4 DEF Entry
  <2>2. \A id \in DOMAIN dclSymbolTable' : dclSymbolTable'[id].reg \in Registers(code)
    BY <1>2, <1>6
  <2>3. Registers(blocks[Entry(at)].code)' = Registers(code)
    BY <1>2, <2>1 DEF Registers
  <2> QED
    BY <2>2, <2>3 DEF VariablesInv
<1>9. NamesInv'
  <2>1. \A f \in DOMAIN functions : f \in { program[m].name : m \in 1 .. k }
    BY DEF OrderInv, NamesInv
  <2>2. \A m \in 1 .. k : m \in 1 .. (k + 1)
    BY <1>2
  <2>3. k + 1 \in 1 .. (k + 1) /\ p.name = program[k + 1].name
    BY <1>2 DEF p
  <2>4. \A f \in DOMAIN functions' : \E m \in 1 .. (k + 1) : f = program[m].name
    BY <1>2, <2>1, <2>2, <2>3
  <2> QED
    BY <1>2, <2>4 DEF NamesInv
<1>10. DoneInv'
  <2>1. DOMAIN stack' = {1} /\ stack'[1] = ProcedureFrame(p)
    BY <1>2
  <2>2. DOMAIN ProcedureFrame(p).done = {}
    <3>1. ProcedureFrame(p).done = Frame("procedure", p.ret[1]).done
      BY DEF ProcedureFrame, Frame
    <3> QED
      BY <3>1, FrameDone
  <2> QED
    BY <2>1, <2>2 DEF DoneInv
<1> QED
  BY <1>7, <1>8, <1>9, <1>10 DEF OrderInv

\* main() ends, or the executable runs.
LEMMA SameOrder ==
  ASSUME OrderInv, UNCHANGED << program, k, stack, blocks, at, dclSymbolTable, functions >>
  PROVE  OrderInv'
<1>1. \A b : Known(b)' = Known(b) /\ Usable(b)' = Usable(b)
  BY DEF Usable, Known, Entry, Registers, ParameterRegisters
<1>2. DoneInv'
  <2>1. \A f : Home(stack[f])' = Home(stack[f])
    BY DEF Home
  <2>2. \A f : Usable(Home(stack[f]))' = Usable(Home(stack[f]))
    BY <1>1, <2>1
  <2>3. \A f \in DOMAIN stack : \A n \in DOMAIN stack[f].done :
          /\ stack[f].done[n].reg \in Usable(Home(stack[f]))'
          /\ ~ (stack[f].of = "procedure" /\ InList(stack[f]))
    BY <2>2 DEF OrderInv, DoneInv
  <2> QED
    BY <2>3 DEF DoneInv, InList
<1>3. VariablesInv'
  BY DEF OrderInv, VariablesInv, Entry, Registers
<1>4. NamesInv'
  BY DEF OrderInv, NamesInv
<1>5. BlocksOrdered'
  <2>1. \A b \in DOMAIN blocks : Ordered(blocks[b].code, Known(b))
    BY DEF OrderInv, BlocksOrdered
  <2>2. \A b \in DOMAIN blocks' : Ordered(blocks'[b].code, Known(b)')
    BY <1>1, <2>1
  <2> QED
    BY <2>2 DEF BlocksOrdered, Ordered
<1> QED
  BY <1>2, <1>3, <1>4, <1>5 DEF OrderInv

\* Nothing is generated yet.
LEMMA InitOrder == ExecInit => OrderInv
<1> SUFFICES ASSUME CodegenInit PROVE OrderInv
  BY DEF ExecInit
<1>1. stack = << >> /\ blocks = << >> /\ functions = << >>
  BY DEF CodegenInit
<1>2. DOMAIN stack = {} /\ DOMAIN blocks = {} /\ DOMAIN functions = {}
  BY <1>1
<1> QED
  BY <1>1, <1>2 DEF OrderInv, DoneInv, VariablesInv, NamesInv, BlocksOrdered

\* The invariant of the types holds before the step.
LEMMA StepOrder == IInv /\ OrderInv /\ [ExecNext]_execVars => OrderInv'
<1> SUFFICES ASSUME IInv, OrderInv, [ExecNext]_execVars PROVE OrderInv'
  OBVIOUS
<1>1. CASE Generate
  <2>1. CASE Procedure
    BY <2>1, ProcedureOrder
  <2>2. CASE Generated \/ BadDcl \/ IllTyped
    <3>1. UNCHANGED << program, k, stack, blocks, at, dclSymbolTable, functions >>
      BY <2>2 DEF Generated, BadDcl, IllTyped, Throw
    <3> QED
      BY <3>1, SameOrder
  <2>3. CASE GenerateReturnExpr
    BY <2>3, GenerateReturnExprOrder
  <2>4. CASE CreateRet
    BY <2>4, CreateRetOrder
  <2>5. CASE Link
    BY <2>5, LinkOrder
  <2>6. CASE NextStatement
    BY <2>6, NextStatementOrder
  <2>7. CASE GenerateTest
    BY <2>7, GenerateTestOrder
  <2>8. CASE BeginBody
    BY <2>8, BeginBodyOrder
  <2>9. CASE BeginElse
    BY <2>9, BeginElseOrder
  <2>10. CASE EndIf \/ EndWhile
    BY <2>10, EndOrder
  <2>11. CASE LvalueStatement \/ PrintlnStatement \/ DeleteStatement
    BY <2>11, StatementsOrder
  <2>12. CASE GenerateOperand
    BY <2>12, GenerateOperandOrder
  <2>13. CASE Address \/ AddressOfOperand \/ Parentheses \/ Literal
    BY <2>13, HandBacksOrder
  <2>14. CASE LoadVariable \/ LoadOperand \/ NewArray \/ CallProcedure
    BY <2>14, FactorsOrder
  <2>15. CASE Multiply \/ Add \/ AddToPointer \/ SubtractFromPointer \/ SubtractPointers \/ Compare
    BY <2>15, OperatorsOrder
  <2> QED
    BY <1>1, <2>1, <2>2, <2>3, <2>4, <2>5, <2>6, <2>7, <2>8, <2>9, <2>10, <2>11, <2>12, <2>13, <2>14, <2>15
       DEF Generate
<1>2. CASE UNCHANGED genVars
  <2>1. UNCHANGED << program, k, stack, blocks, at, dclSymbolTable, functions >>
    BY <1>2 DEF genVars
  <2> QED
    BY <2>1, SameOrder
<1>3. Generate \/ UNCHANGED genVars
  BY DEF ExecNext, GenerateStep, RunStep, ExecTerminated, execVars
<1> QED
  BY <1>1, <1>2, <1>3

\* Whatever the order in which the operands of an expression are generated and
\* however many blocks begin between a value and its use, every register that
\* an instruction reads was defined before it in its block, or in the entry
\* block, or is a parameter.
THEOREM RegistersDefinedFirst == ExecSpec => []DefinedFirst
<1>1. ExecInit => IInv /\ OrderInv
  BY InitKeeps, InitOrder
<1>2. (IInv /\ OrderInv) /\ [ExecNext]_execVars => (IInv /\ OrderInv)'
  BY StepKeeps, StepOrder
<1>3. IInv /\ OrderInv => DefinedFirst
  BY OrderedBlocks DEF OrderInv
<1> QED
  BY <1>1, <1>2, <1>3, PTL DEF ExecSpec
=============================================================================
