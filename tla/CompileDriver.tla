--------------------------- MODULE CompileDriver ----------------------------
(***************************************************************************)
(* State::compile() of src/state.cpp in several runs of wlp4c at once.     *)
(* Every run works in the same directory, <tmp>/wlp4_tmp, which it removes *)
(* and makes anew: without a lock, and in as many steps as there are calls *)
(* to the file system, several of them in remove_all().  A run may die     *)
(* between any two.                                                        *)
(*                                                                         *)
(* A directory is named by the run that made it, and so is a file: a run   *)
(* makes one directory and one file of each name at most.  A file that was *)
(* deleted and made again is another file, and a run that still has the    *)
(* old one open writes to that.                                            *)
(***************************************************************************)
EXTENDS FiniteSets

CONSTANTS
  Runs,           \* runs of wlp4c, each on a program of its own
  NoRun,          \* none of them
  CompilerFails   \* whether the C compiler may fail for reasons of its own

VARIABLES
  wain,      \* type of the first parameter of the last procedure, by run
  pc,        \* the call that a run is about to make, or how it ended
  left,      \* names that remove_all() has still to come to, by run
  dir,       \* the directory that is at wlp4_tmp, NoRun for none
  files,     \* what is in it, by file name
  cwd,       \* current directory of each run
  fd,        \* the file that each run has open for writing
  mainRead,  \* what the C compiler read in main.c, by run
  out,       \* _outFile of each run, as far as this run wrote it
  met,       \* history: the runs at work while another one was
  ccFailed   \* history: the runs whose C compiler failed for its own reasons

fileVars == << dir, files, fd >>

vars == << wain, pc, left, fileVars, cwd, mainRead, out, met, ccFailed >>

ASSUME RunsAssumption == Runs # {} /\ NoRun \notin Runs /\ CompilerFails \in BOOLEAN

\* NONE is a procedure without parameters, which the recogniser lets through.
Wains == {"INT", "INT_STAR", "NONE"}

Names == {"prog.o", "main.c"}

\* Data is what was written to a file: more than one thing if several runs
\* wrote to it, nothing before the first one's buffer was flushed.
File(inode, data) == [inode |-> inode, data |-> data]

NoFile == File(NoRun, {})

NoOutput == [main |-> {}, obj |-> {}]

\* What a run's executable is to be made of.
Own(p) == [main |-> {wain[p]}, obj |-> {p}]

\* The calls of compile(), in their order.
Calls == {"exists", "clear", "rmdir", "mkdir", "chdir", "open", "dump", "main", "template", "cc", "link"}

Busy(p) == pc[p] \in Calls

InDir(p) == dir # NoRun /\ cwd[p] = dir

Goto(p, where) == pc' = [pc EXCEPT ![p] = where]

-----------------------------------------------------------------------------
(* The file system calls of compile().                                     *)

\* Creates or truncates.
OpenFile(p, name) ==
  LET inode == IF files[name] = NoFile THEN p ELSE files[name].inode
  IN  /\ files' = [files EXCEPT ![name] = File(inode, {})]
      /\ fd' = [fd EXCEPT ![p] = inode]
      /\ UNCHANGED dir

\* Flushes what was written, to the file that was opened: if that is still the
\* one of this name it now has data of p.
WriteFile(p, name, data) ==
  /\ files' = IF files[name] # NoFile /\ files[name].inode = fd[p]
              THEN [files EXCEPT ![name] = File(@.inode, @.data \cup {data})]
              ELSE files
  /\ UNCHANGED << dir, fd >>

Init ==
  /\ wain \in [Runs -> Wains]
  /\ pc = [p \in Runs |-> "idle"]
  /\ left = [p \in Runs |-> {}]
  /\ dir = NoRun
  /\ files = [name \in Names |-> NoFile]
  /\ cwd = [p \in Runs |-> NoRun]
  /\ fd = [p \in Runs |-> NoRun]
  /\ mainRead = [p \in Runs |-> {}]
  /\ out = [p \in Runs |-> NoOutput]
  /\ met = {}
  /\ ccFailed = {}

\* A run comes to compile().
Begin(p) ==
  /\ pc[p] = "idle"
  /\ Goto(p, "exists")
  /\ met' = met \cup (IF \E q \in Runs : Busy(q) THEN {p} \cup { q \in Runs : Busy(q) } ELSE {})
  /\ UNCHANGED << wain, left, fileVars, cwd, mainRead, out, ccFailed >>

\* Mutant: what an earlier run has left behind stays.
Exists_KeepsLeftovers(p) ==
  /\ pc[p] = "exists"
  /\ Goto(p, "mkdir")
  /\ UNCHANGED << wain, left, fileVars, cwd, mainRead, out, met, ccFailed >>

Exists(p) ==
  /\ pc[p] = "exists"
  /\ IF dir # NoRun
     THEN Goto(p, "clear") /\ left' = [left EXCEPT ![p] = Names]
     ELSE Goto(p, "mkdir") /\ UNCHANGED left
  /\ UNCHANGED << wain, fileVars, cwd, mainRead, out, met, ccFailed >>

\* remove_all(), first what is in the directory, in the order in which it is
\* listed.  A file that is made meanwhile may be listed or not: what is not is
\* a name that was come to before.
Clear(p) ==
  /\ pc[p] = "clear"
  /\ \E name \in left[p] :
       /\ files' = [files EXCEPT ![name] = NoFile]
       /\ left' = [left EXCEPT ![p] = @ \ {name}]
       /\ IF left[p] = {name} THEN Goto(p, "rmdir") ELSE UNCHANGED pc
  /\ UNCHANGED << wain, dir, fd, cwd, mainRead, out, met, ccFailed >>

\* and then the directory, which throws if something is in it again.
RemoveDir(p) ==
  /\ pc[p] = "rmdir"
  /\ IF \E name \in Names : files[name] # NoFile
     THEN Goto(p, "error") /\ UNCHANGED dir
     ELSE Goto(p, "mkdir") /\ dir' = NoRun
  /\ UNCHANGED << wain, left, files, fd, cwd, mainRead, out, met, ccFailed >>

\* Mutant: a run that cannot go on clears up, what is another's.
MakeDir_ClearsUp(p) ==
  /\ pc[p] = "mkdir"
  /\ IF dir # NoRun
     THEN Goto(p, "error") /\ dir' = NoRun /\ files' = [name \in Names |-> NoFile]
     ELSE Goto(p, "chdir") /\ dir' = p /\ UNCHANGED files
  /\ UNCHANGED << wain, left, fd, cwd, mainRead, out, met, ccFailed >>

\* `internal compiler error', if somebody else has been faster.
MakeDir(p) ==
  /\ pc[p] = "mkdir"
  /\ IF dir # NoRun
     THEN Goto(p, "error") /\ UNCHANGED dir
     ELSE Goto(p, "chdir") /\ dir' = p
  /\ UNCHANGED << wain, left, files, fd, cwd, mainRead, out, met, ccFailed >>

\* Mutant: nobody sees whether the directory is there.
ChangeDir_Unchecked(p) ==
  /\ pc[p] = "chdir"
  /\ Goto(p, "open")
  /\ cwd' = [cwd EXCEPT ![p] = dir]
  /\ UNCHANGED << wain, left, fileVars, mainRead, out, met, ccFailed >>

\* By path, which may lead to the directory of another run by now.
ChangeDir(p) ==
  /\ pc[p] = "chdir"
  /\ IF dir = NoRun
     THEN Goto(p, "error") /\ UNCHANGED cwd
     ELSE Goto(p, "open") /\ cwd' = [cwd EXCEPT ![p] = dir]
  /\ UNCHANGED << wain, left, fileVars, mainRead, out, met, ccFailed >>

\* dumpObjectFile(): in a directory that was removed nothing can be made.
OpenObject(p) ==
  /\ pc[p] = "open"
  /\ IF InDir(p)
     THEN Goto(p, "dump") /\ OpenFile(p, "prog.o")
     ELSE Goto(p, "error") /\ UNCHANGED fileVars
  /\ UNCHANGED << wain, left, cwd, mainRead, out, met, ccFailed >>

DumpObject(p) ==
  /\ pc[p] = "dump"
  /\ Goto(p, "main")
  /\ WriteFile(p, "prog.o", p)
  /\ UNCHANGED << wain, left, cwd, mainRead, out, met, ccFailed >>

\* A main.c that cannot be opened is passed over: the run ends well.
OpenMain(p) ==
  /\ pc[p] = "main"
  /\ IF InDir(p)
     THEN Goto(p, "template") /\ OpenFile(p, "main.c")
     ELSE Goto(p, "exit") /\ UNCHANGED fileVars
  /\ UNCHANGED << wain, left, cwd, mainRead, out, met, ccFailed >>

\* intWain or arrayWain; at(0) throws if there is no parameter.
WriteMain(p) ==
  /\ pc[p] = "template"
  /\ IF wain[p] = "NONE"
     THEN Goto(p, "error") /\ UNCHANGED fileVars
     ELSE Goto(p, "cc") /\ WriteFile(p, "main.c", wain[p])
  /\ UNCHANGED << wain, left, cwd, mainRead, out, met, ccFailed >>

Readable(p, name) == InDir(p) /\ files[name].data # {}

\* Mutant: what has failed clears up, also what is another's.
CompilerGivesUp_ClearsUp(p) ==
  /\ Goto(p, "exit")
  /\ files' = IF InDir(p) THEN [name \in Names |-> NoFile] ELSE files
  /\ UNCHANGED << wain, left, dir, fd, cwd, mainRead, out, met >>

\* std::system() gives the C compiler's result to nobody.
CompilerGivesUp(p) ==
  /\ Goto(p, "exit")
  /\ UNCHANGED << wain, left, fileVars, cwd, mainRead, out, met >>

\* The C compiler reads main.c
CompileMain(p) ==
  /\ pc[p] = "cc"
  /\ IF Readable(p, "main.c")
     THEN /\ Goto(p, "link")
          /\ mainRead' = [mainRead EXCEPT ![p] = files["main.c"].data]
          /\ UNCHANGED << wain, left, fileVars, cwd, out, met, ccFailed >>
     ELSE CompilerGivesUp(p) /\ UNCHANGED ccFailed

\* and links it to prog.o.
Link(p) ==
  /\ pc[p] = "link"
  /\ IF Readable(p, "prog.o")
     THEN /\ Goto(p, "exit")
          /\ out' = [out EXCEPT ![p] = [main |-> mainRead[p], obj |-> files["prog.o"].data]]
          /\ UNCHANGED << wain, left, fileVars, cwd, mainRead, met, ccFailed >>
     ELSE CompilerGivesUp(p) /\ UNCHANGED ccFailed

\* As where it is missing, or the program has no wain() for main.c to call.
CompilerFailsItself(p) ==
  /\ CompilerFails
  /\ pc[p] \in {"cc", "link"}
  /\ CompilerGivesUp(p)
  /\ ccFailed' = ccFailed \cup {p}

\* A run is killed; what it has not flushed is lost, what it made stays.
Crash(p) ==
  /\ Busy(p)
  /\ Goto(p, "crashed")
  /\ UNCHANGED << wain, left, fileVars, cwd, mainRead, out, met, ccFailed >>

Call(p) ==
  \/ Exists(p) \/ Clear(p) \/ RemoveDir(p) \/ MakeDir(p) \/ ChangeDir(p)
  \/ OpenObject(p) \/ DumpObject(p) \/ OpenMain(p) \/ WriteMain(p)
  \/ CompileMain(p) \/ Link(p) \/ CompilerFailsItself(p)

Terminated == (\A p \in Runs : ~ Busy(p) /\ pc[p] # "idle") /\ UNCHANGED vars

Next == (\E p \in Runs : Begin(p) \/ Call(p) \/ Crash(p)) \/ Terminated

Spec == Init /\ [][Next]_vars

-----------------------------------------------------------------------------
(* Properties.                                                             *)

TypeOfFile(name) == IF name = "prog.o" THEN Runs ELSE Wains

\* Types of the variables; a run has a current directory once it has one.
TypeOK ==
  /\ wain \in [Runs -> Wains]
  /\ pc \in [Runs -> Calls \cup {"idle", "exit", "error", "crashed"}]
  /\ dir \in Runs \cup {NoRun}
  /\ DOMAIN files = Names
  /\ \A name \in Names :
       /\ files[name].inode \in Runs \cup {NoRun}
       /\ files[name].data \subseteq TypeOfFile(name)
  /\ cwd \in [Runs -> Runs \cup {NoRun}]
  /\ fd \in [Runs -> Runs \cup {NoRun}]
  /\ mainRead \in [Runs -> SUBSET Wains]
  /\ out \in [Runs -> [main : SUBSET Wains, obj : SUBSET Runs]]
  /\ met \subseteq Runs
  /\ ccFailed \subseteq Runs
  /\ left \in [Runs -> SUBSET Names]
  /\ \A p \in Runs :
       pc[p] \in {"open", "dump", "main", "template", "cc", "link"} => cwd[p] \in Runs

\* A run that had compile() to itself, and was not killed, makes the executable
\* of its own program, whatever runs before it have left behind, those that
\* were killed halfway included; unless the C compiler fails, or the program is
\* refused for having no parameter.
AloneMakesItsOwn ==
  \A p \in Runs \ met :
    /\ pc[p] = "exit" => out[p] = IF p \in ccFailed THEN NoOutput ELSE Own(p)
    /\ pc[p] = "error" => wain[p] = "NONE"

\* Nobody is at work, nobody was killed, and every program has a procedure with
\* a parameter at its end.
QuietEnd == \A p \in Runs : pc[p] \in {"idle", "exit", "error"} /\ wain[p] # "NONE"

\* The runs cannot all be refused because of one another: of those that began
\* not every one ends in the error exit of main().  The one that does not need
\* not have made an executable, nor has any: of two, one can delete the other's
\* prog.o and then fail to remove the directory, where there is a main.c again.
NotAllError == QuietEnd /\ (\E p \in Runs : pc[p] = "error") => \E p \in Runs : pc[p] = "exit"

\* But when all come away empty-handed one of them says so: if main() returned 0
\* in every run that began, one of them has made an executable, unless a C
\* compiler failed for its own reasons.
FailureOfAllShows ==
  QuietEnd /\ ccFailed = {} /\ (\E p \in Runs : pc[p] = "exit") /\ (\A p \in Runs : out[p] = NoOutput)
    => \E p \in Runs : pc[p] = "error"

\* The executable of a run is made of its own program.
OutputIsOwn == \A p \in Runs : pc[p] = "exit" => out[p] \in {NoOutput, Own(p)}

\* A run that reports no failure has made an executable.
ExitMeansExecutable == \A p \in Runs : pc[p] = "exit" => out[p] # NoOutput
=============================================================================
