------------------------ MODULE CompileDriverProofs -------------------------
(***************************************************************************)
(* For any number of runs: types; a run that has compile() to itself makes *)
(* its own executable; the runs cannot all be refused because of each      *)
(* other; and they do not all come away empty-handed without one saying so.*)
(***************************************************************************)
EXTENDS CompileDriver, TLAPS

States == Calls \cup {"idle", "exit", "error", "crashed"}

AFile(name) == [inode : Runs \cup {NoRun}, data : SUBSET TypeOfFile(name)]

FilesOK == files = [name \in Names |-> files[name]] /\ \A name \in Names : files[name] \in AFile(name)

\* TypeOK, in a form that says what files is made of.
Typed ==
  /\ wain \in [Runs -> Wains]
  /\ pc \in [Runs -> States]
  /\ dir \in Runs \cup {NoRun}
  /\ FilesOK
  /\ cwd \in [Runs -> Runs \cup {NoRun}]
  /\ fd \in [Runs -> Runs \cup {NoRun}]
  /\ mainRead \in [Runs -> SUBSET Wains]
  /\ out \in [Runs -> [main : SUBSET Wains, obj : SUBSET Runs]]
  /\ met \subseteq Runs
  /\ ccFailed \subseteq Runs
  /\ left \in [Runs -> SUBSET Names]
  /\ \A p \in Runs :
       pc[p] \in {"open", "dump", "main", "template", "cc", "link"} => cwd[p] \in Runs

\* Opening and writing a file keep the types of files and fd.
LEMMA OpenTyped ==
  ASSUME Typed, NEW p \in Runs, NEW name \in Names, OpenFile(p, name)
  PROVE  FilesOK' /\ fd' \in [Runs -> Runs \cup {NoRun}]
<1> DEFINE inode == IF files[name] = NoFile THEN p ELSE files[name].inode
<1>1. inode \in Runs \cup {NoRun}
  BY DEF Typed, FilesOK, AFile
<1>2. files' = [files EXCEPT ![name] = File(inode, {})] /\ fd' = [fd EXCEPT ![p] = inode]
  BY DEF OpenFile
<1> HIDE DEF inode
<1>3. File(inode, {}) \in AFile(name)
  BY <1>1 DEF File, AFile
<1>4. FilesOK'
  BY <1>2, <1>3 DEF Typed, FilesOK
<1> QED
  BY <1>1, <1>2, <1>4 DEF Typed

\* The data of a file is of the kind that its name says.
LEMMA WriteTyped ==
  ASSUME Typed, NEW p \in Runs, NEW name \in Names, NEW data \in TypeOfFile(name),
         WriteFile(p, name, data)
  PROVE  FilesOK'
<1>1. CASE files' = files
  BY <1>1 DEF Typed, FilesOK
<1>2. CASE files' = [files EXCEPT ![name] = File(@.inode, @.data \cup {data})]
  <2>1. File(files[name].inode, files[name].data \cup {data}) \in AFile(name)
    BY DEF Typed, FilesOK, AFile, File
  <2>2. files'[name] \in AFile(name)
    BY <1>2, <2>1 DEF Typed, FilesOK
  <2> QED
    BY <1>2, <2>2 DEF Typed, FilesOK
<1> QED
  BY <1>1, <1>2 DEF WriteFile

\* What the runs start from has these types,
LEMMA InitTyped == Init => Typed
<1> SUFFICES ASSUME Init
             PROVE  Typed
  OBVIOUS
<1>1. FilesOK
  BY DEF Init, FilesOK, NoFile, File, AFile
<1>2. out \in [Runs -> [main : SUBSET Wains, obj : SUBSET Runs]]
  BY DEF Init, NoOutput
<1> QED
  BY <1>1, <1>2 DEF Init, Typed, States

\* and each call gives every variable a value of its type.
LEMMA NextTyped == Typed /\ [Next]_vars => Typed'
<1> SUFFICES ASSUME Typed, [Next]_vars
             PROVE  Typed'
  OBVIOUS
<1> USE DEF Typed, Goto, States, Calls, fileVars
<1>1. CASE UNCHANGED vars
  BY <1>1 DEF vars, FilesOK
<1>2. ASSUME NEW p \in Runs, Begin(p) \/ Crash(p) \/ ChangeDir(p)
      PROVE  Typed'
  BY <1>2 DEF Begin, Crash, ChangeDir, Busy, FilesOK
<1>10. ASSUME NEW p \in Runs, Exists(p)
       PROVE  Typed'
  <2>1. left' \in [Runs -> SUBSET Names]
    BY <1>10 DEF Exists
  <2>2. pc' \in [Runs -> States] /\ pc'[p] \in {"clear", "mkdir"} /\ \A q \in Runs : q # p => pc'[q] = pc[q]
    BY <1>10 DEF Exists
  <2> QED
    BY <1>10, <2>1, <2>2 DEF Exists, FilesOK
<1>3. ASSUME NEW p \in Runs, RemoveDir(p) \/ MakeDir(p)
      PROVE  Typed'
  BY <1>3 DEF RemoveDir, MakeDir, FilesOK
<1>4. ASSUME NEW p \in Runs, Clear(p)
      PROVE  Typed'
  <2>1. FilesOK'
    <3>1. PICK name \in Names : files' = [files EXCEPT ![name] = NoFile]
      BY <1>4 DEF Clear
    <3>2. NoFile \in AFile(name)
      BY DEF NoFile, File, AFile
    <3> QED
      BY <3>1, <3>2 DEF FilesOK
  <2>2. pc' \in [Runs -> States] /\ left' \in [Runs -> SUBSET Names]
    BY <1>4 DEF Clear
  <2>3. pc[p] = "clear" /\ pc'[p] \in {"clear", "rmdir"} /\ \A q \in Runs : q # p => pc'[q] = pc[q]
    BY <1>4 DEF Clear
  <2> QED
    BY <1>4, <2>1, <2>2, <2>3 DEF Clear
<1>5. ASSUME NEW p \in Runs, OpenObject(p) \/ OpenMain(p)
      PROVE  Typed'
  <2>1. FilesOK' /\ fd' \in [Runs -> Runs \cup {NoRun}]
    BY <1>5, OpenTyped DEF OpenObject, OpenMain, Names, FilesOK
  <2> QED
    BY <1>5, <2>1 DEF OpenObject, OpenMain, OpenFile
<1>6. ASSUME NEW p \in Runs, DumpObject(p) \/ WriteMain(p)
      PROVE  Typed'
  <2>1. p \in TypeOfFile("prog.o") /\ wain[p] \in TypeOfFile("main.c")
    BY DEF TypeOfFile
  <2>2. FilesOK'
    BY <1>6, <2>1, WriteTyped DEF DumpObject, WriteMain, Names, FilesOK
  <2>3. /\ UNCHANGED << wain, left, dir, fd, cwd, mainRead, out, met, ccFailed >>
        /\ pc' \in [Runs -> States]
        /\ \A q \in Runs : q # p => pc'[q] = pc[q]
    BY <1>6 DEF DumpObject, WriteMain, WriteFile
  <2>4. pc[p] \in {"dump", "template"} /\ cwd[p] \in Runs
    BY <1>6 DEF DumpObject, WriteMain
  <2> QED
    BY <2>2, <2>3, <2>4
<1>7. ASSUME NEW p \in Runs, CompileMain(p)
      PROVE  Typed'
  <2>1. files["main.c"].data \in SUBSET Wains
    BY DEF FilesOK, AFile, Names, TypeOfFile
  <2> QED
    BY <1>7, <2>1 DEF CompileMain, CompilerGivesUp, FilesOK
<1>8. ASSUME NEW p \in Runs, Link(p)
      PROVE  Typed'
  <2>1. files["prog.o"].data \in SUBSET Runs
    BY DEF FilesOK, AFile, Names, TypeOfFile
  <2>2. CASE Readable(p, "prog.o")
    <3> DEFINE executable == [main |-> mainRead[p], obj |-> files["prog.o"].data]
    <3>1. executable \in [main : SUBSET Wains, obj : SUBSET Runs]
      BY <2>1
    <3>2. out' = [out EXCEPT ![p] = executable]
      BY <1>8, <2>2 DEF Link
    <3> HIDE DEF executable
    <3> QED
      BY <1>8, <2>2, <3>1, <3>2 DEF Link, FilesOK
  <2>3. CASE ~ Readable(p, "prog.o")
    BY <1>8, <2>3 DEF Link, CompilerGivesUp, FilesOK
  <2> QED
    BY <2>2, <2>3
<1>9. ASSUME NEW p \in Runs, CompilerFailsItself(p)
      PROVE  Typed'
  BY <1>9 DEF CompilerFailsItself, CompilerGivesUp, FilesOK
<1> QED
  BY <1>1, <1>2, <1>3, <1>4, <1>5, <1>6, <1>7, <1>8, <1>9, <1>10 DEF Next, Call, Terminated

\* The variables of the runs keep their types, and a run that works in the
\* temporary directory has made it its current one.
THEOREM DriverTypes == Spec => []TypeOK
<1>1. Typed => TypeOK
  BY DEF Typed, TypeOK, FilesOK, AFile, States, Names
<1> QED
  BY InitTyped, NextTyped, <1>1, PTL DEF Spec

-----------------------------------------------------------------------------
(* The runs cannot all be refused because of each other.                   *)

Harmless == \A p \in Runs : pc[p] # "crashed" /\ wain[p] # "NONE"

\* The calls after open(), and after mkdir().
Opened == {"dump", "main", "template", "cc", "link", "exit"}

Made == Opened \cup {"chdir", "open"}

\* Every file is one that a run has opened which did not fail since.
FilesHeld ==
  \A name \in Names : files[name] # NoFile =>
    files[name].inode \in Runs /\ pc[files[name].inode] \in Opened

\* The run that made the directory did not fail, and works in it.
DirHeld == dir # NoRun => pc[dir] \in Made /\ (pc[dir] # "chdir" => cwd[dir] = dir)

\* A directory that is gone will be made again.
DirComes == dir = NoRun /\ (\E q \in Runs : pc[q] \in Made) => \E r \in Runs : pc[r] = "mkdir"

Hope == (\E q \in Runs : pc[q] = "error") => \E r \in Runs : pc[r] \notin {"idle", "error"}

PeaceInv == Harmless => FilesHeld /\ DirHeld /\ DirComes /\ Hope

\* A step of one run changes the place of no other.
LEMMA OneMoves ==
  ASSUME Typed, NEW p \in Runs, Begin(p) \/ Call(p) \/ Crash(p)
  PROVE  /\ pc' \in [Runs -> States]
         /\ \A q \in Runs : q # p => pc'[q] = pc[q]
         /\ wain' = wain
<1> USE DEF Typed, Goto, States, Calls
<1>1. CASE Begin(p) \/ Crash(p)
  BY <1>1 DEF Begin, Crash
<1>2. CASE Call(p)
  BY <1>2 DEF Call, Exists, Clear, RemoveDir, MakeDir, ChangeDir, OpenObject, DumpObject,
              OpenMain, WriteMain, CompileMain, Link, CompilerFailsItself, CompilerGivesUp
<1> QED
  BY <1>1, <1>2

\* A run that was killed stays so, and programs do not change.
LEMMA HarmlessBefore == Typed /\ [Next]_vars /\ Harmless' => Harmless
<1> SUFFICES ASSUME Typed, [Next]_vars, Harmless'
             PROVE  Harmless
  OBVIOUS
<1>1. CASE UNCHANGED vars
  BY <1>1 DEF vars, Harmless
<1>2. ASSUME NEW p \in Runs, Begin(p) \/ Call(p) \/ Crash(p)
      PROVE  Harmless
  <2>1. pc[p] # "crashed"
    BY <1>2 DEF Begin, Crash, Busy, Calls, Call, Exists, Clear, RemoveDir, MakeDir, ChangeDir, OpenObject,
                DumpObject, OpenMain, WriteMain, CompileMain, Link, CompilerFailsItself
  <2> QED
    BY <1>2, <2>1, OneMoves DEF Harmless
<1> QED
  BY <1>1, <1>2 DEF Next, Terminated

\* Moving on within the calls that the invariant does not tell apart, without
\* touching the directory, keeps it.
LEMMA QuietPeace ==
  ASSUME Typed, FilesHeld, DirHeld, DirComes, Hope, NEW p \in Runs,
         pc' \in [Runs -> States], \A q \in Runs : q # p => pc'[q] = pc[q],
         dir' = dir, files' = files, cwd' = cwd,
         pc'[p] \notin {"idle", "error"}, pc[p] # "mkdir",
         pc[p] \in Made => pc'[p] \in Made /\ pc[p] # "chdir",
         pc[p] \in Opened => pc'[p] \in Opened,
         pc[p] \notin Made => pc'[p] \notin Made
  PROVE  FilesHeld' /\ DirHeld' /\ DirComes' /\ Hope'
<1>1. FilesHeld'
  BY DEF FilesHeld, Typed
<1>2. DirHeld'
  BY DEF DirHeld, Typed, Made, Opened
<1>3. DirComes'
  BY DEF DirComes, Typed
<1>4. Hope'
  BY DEF Hope
<1> QED
  BY <1>1, <1>2, <1>3, <1>4

\* A run that fails without having opened a file, or made the directory that is
\* there, keeps the invariant if another one has not failed.
LEMMA FailingPeace ==
  ASSUME Typed, FilesHeld, DirHeld, DirComes, NEW p \in Runs,
         pc' = [pc EXCEPT ![p] = "error"],
         dir' = dir, files' = files, cwd' = cwd,
         pc[p] \notin Opened, dir # p, pc[p] = "mkdir" => dir # NoRun,
         NEW r \in Runs, r # p, pc[r] \notin {"idle", "error"}
  PROVE  FilesHeld' /\ DirHeld' /\ DirComes' /\ Hope'
<1>1. FilesHeld'
  BY DEF FilesHeld, Typed
<1>2. DirHeld'
  BY DEF DirHeld, Typed
<1>3. DirComes'
  BY DEF DirComes, Typed, Made, Opened
<1>4. Hope'
  BY DEF Hope, Typed
<1> QED
  BY <1>1, <1>2, <1>3, <1>4

\* So does a run that opens a file, which is then its own or what it was.
LEMMA OpeningPeace ==
  ASSUME Typed, FilesHeld, DirHeld, NEW p \in Runs, NEW name \in Names, NEW where \in Opened,
         pc[p] \in Made \ {"chdir"}, pc' = [pc EXCEPT ![p] = where], cwd' = cwd,
         InDir(p), OpenFile(p, name)
  PROVE  FilesHeld' /\ DirHeld' /\ DirComes' /\ Hope'
<1>1. \A q \in Runs : pc[q] \in Opened => pc'[q] \in Opened
  BY DEF Typed
<1>2. pc'[p] \in Opened
  BY DEF Typed
<1>3. ASSUME NEW other \in Names, files'[other] # NoFile
      PROVE  files'[other].inode \in Runs /\ pc'[files'[other].inode] \in Opened
  <2>1. CASE other # name
    <3>1. files'[other] = files[other]
      BY <2>1 DEF OpenFile, Typed, FilesOK
    <3> QED
      BY <1>1, <1>3, <3>1 DEF FilesHeld
  <2>2. CASE other = name
    <3>1. files'[name].inode = IF files[name] = NoFile THEN p ELSE files[name].inode
      BY DEF OpenFile, Typed, FilesOK, File
    <3> QED
      BY <1>1, <1>2, <2>2, <3>1 DEF FilesHeld
  <2> QED
    BY <2>1, <2>2
<1>4. FilesHeld'
  BY <1>3 DEF FilesHeld
<1>5. dir' = dir /\ dir # NoRun
  BY DEF OpenFile, InDir
<1>6. DirHeld'
  BY <1>5 DEF DirHeld, Typed, Made, InDir
<1>7. DirComes'
  BY <1>5 DEF DirComes
<1>8. Hope'
  BY <1>2 DEF Hope, Opened
<1> QED
  BY <1>4, <1>6, <1>7, <1>8

\* Writing to a file leaves it whose it is.
LEMMA WritingPeace ==
  ASSUME Typed, FilesHeld, NEW p \in Runs, NEW name \in Names, NEW data, WriteFile(p, name, data),
         \A q \in Runs : pc[q] \in Opened => pc'[q] \in Opened
  PROVE  FilesHeld'
<1>1. ASSUME NEW other \in Names, files'[other] # NoFile
      PROVE  files[other] # NoFile /\ files'[other].inode = files[other].inode
  <2>1. CASE files' = files
    BY <1>1, <2>1
  <2>2. CASE files[name] # NoFile /\ files' = [files EXCEPT ![name] = File(@.inode, @.data \cup {data})]
    BY <1>1, <2>2 DEF Typed, FilesOK, File
  <2> QED
    BY <2>1, <2>2 DEF WriteFile
<1> QED
  BY <1>1 DEF FilesHeld

\* Every call of a run keeps the invariant.
LEMMA CallPeace ==
  ASSUME Typed, Harmless, FilesHeld, DirHeld, DirComes, Hope, NEW p \in Runs, Call(p)
  PROVE  FilesHeld' /\ DirHeld' /\ DirComes' /\ Hope'
<1> DEFINE Kept == FilesHeld' /\ DirHeld' /\ DirComes' /\ Hope'
<1>0. /\ pc' \in [Runs -> States]
      /\ \A q \in Runs : q # p => pc'[q] = pc[q]
  BY OneMoves
<1>1. CASE Exists(p) \/ CompileMain(p) \/ Link(p) \/ CompilerFailsItself(p)
  <2>1. /\ dir' = dir /\ files' = files /\ cwd' = cwd
        /\ \/ pc[p] = "exists" /\ pc'[p] \in {"clear", "mkdir"}
           \/ pc[p] \in {"cc", "link"} /\ pc'[p] \in {"link", "exit"}
    BY <1>1 DEF Exists, CompileMain, Link, CompilerFailsItself, CompilerGivesUp, Goto, fileVars, Typed
  <2> QED
    BY <1>0, <2>1, QuietPeace DEF Made, Opened
<1>2. CASE Clear(p)
  <2>1. /\ pc[p] = "clear" /\ pc'[p] \in {"clear", "rmdir"}
        /\ dir' = dir /\ cwd' = cwd /\ \A name \in Names : files'[name] \in {files[name], NoFile}
    BY <1>2 DEF Clear, Goto, Typed, FilesOK
  <2>2. FilesHeld'
    BY <1>0, <2>1 DEF FilesHeld, Opened
  <2>3. DirHeld' /\ DirComes'
    BY <1>0, <2>1 DEF DirHeld, DirComes, Typed, Made, Opened
  <2>4. Hope'
    BY <2>1 DEF Hope
  <2> QED
    BY <2>2, <2>3, <2>4
<1>3. CASE RemoveDir(p)
  <2>1. pc[p] = "rmdir" /\ files' = files /\ cwd' = cwd
    BY <1>3 DEF RemoveDir
  <2>2. CASE \E name \in Names : files[name] # NoFile
    <3>1. PICK name \in Names : files[name] # NoFile
      BY <2>2
    <3>2. pc' = [pc EXCEPT ![p] = "error"] /\ dir' = dir
      BY <1>3, <2>2 DEF RemoveDir, Goto
    <3>3. files[name].inode \in Runs /\ pc[files[name].inode] \in Opened
      BY <3>1 DEF FilesHeld
    <3>4. dir # p
      BY <2>1, RunsAssumption DEF DirHeld, Made, Opened
    <3> QED
      BY <2>1, <3>2, <3>3, <3>4, FailingPeace DEF Opened
  <2>3. CASE \A name \in Names : files[name] = NoFile
    <3>1. pc' = [pc EXCEPT ![p] = "mkdir"] /\ dir' = NoRun
      BY <1>3, <2>3 DEF RemoveDir, Goto
    <3>2. pc'[p] = "mkdir"
      BY <3>1 DEF Typed
    <3> QED
      BY <2>1, <2>3, <3>1, <3>2 DEF FilesHeld, DirHeld, DirComes, Hope
  <2> QED
    BY <2>2, <2>3
<1>4. CASE MakeDir(p)
  <2>1. pc[p] = "mkdir" /\ files' = files /\ cwd' = cwd
    BY <1>4 DEF MakeDir
  <2>2. CASE dir # NoRun
    <3>1. pc' = [pc EXCEPT ![p] = "error"] /\ dir' = dir
      BY <1>4, <2>2 DEF MakeDir, Goto
    <3>2. dir \in Runs /\ pc[dir] \in Made
      BY <2>2 DEF DirHeld, Typed
    <3> QED
      BY <2>1, <2>2, <3>1, <3>2, FailingPeace DEF Made, Opened
  <2>3. CASE dir = NoRun
    <3>1. pc' = [pc EXCEPT ![p] = "chdir"] /\ dir' = p
      BY <1>4, <2>3 DEF MakeDir, Goto
    <3>2. pc'[p] = "chdir" /\ p # NoRun
      BY <3>1, RunsAssumption DEF Typed
    <3>3. FilesHeld'
      BY <1>0, <2>1 DEF FilesHeld, Opened
    <3> QED
      BY <3>1, <3>2, <3>3 DEF DirHeld, DirComes, Hope, Made
  <2> QED
    BY <2>2, <2>3
<1>5. CASE ChangeDir(p)
  <2>1. pc[p] = "chdir" /\ files' = files /\ dir' = dir
    BY <1>5 DEF ChangeDir, fileVars
  <2>2. CASE dir = NoRun
    <3>1. pc' = [pc EXCEPT ![p] = "error"] /\ cwd' = cwd
      BY <1>5, <2>2 DEF ChangeDir, Goto
    <3>2. PICK r \in Runs : pc[r] = "mkdir"
      BY <2>1, <2>2 DEF DirComes, Made
    <3> QED
      BY <2>1, <2>2, <3>1, <3>2, RunsAssumption, FailingPeace DEF Opened
  <2>3. CASE dir # NoRun
    <3>1. pc' = [pc EXCEPT ![p] = "open"] /\ cwd' = [cwd EXCEPT ![p] = dir]
      BY <1>5, <2>3 DEF ChangeDir, Goto
    <3>2. pc'[p] = "open" /\ cwd'[p] = dir
      BY <3>1 DEF Typed
    <3>3. FilesHeld'
      BY <1>0, <2>1 DEF FilesHeld, Opened
    <3>4. DirHeld'
      BY <2>1, <2>3, <3>1, <3>2 DEF DirHeld, Typed, Made
    <3> QED
      BY <2>1, <2>3, <3>2, <3>3, <3>4 DEF DirComes, Hope
  <2> QED
    BY <2>2, <2>3
<1>6. CASE OpenObject(p)
  <2>1. pc[p] = "open" /\ cwd' = cwd
    BY <1>6 DEF OpenObject
  <2>2. CASE InDir(p)
    <3>1. pc' = [pc EXCEPT ![p] = "dump"] /\ OpenFile(p, "prog.o")
      BY <1>6, <2>2 DEF OpenObject, Goto
    <3> QED
      BY <2>1, <2>2, <3>1, OpeningPeace DEF Names, Opened, Made
  <2>3. CASE ~ InDir(p)
    <3>1. pc' = [pc EXCEPT ![p] = "error"] /\ dir' = dir /\ files' = files
      BY <1>6, <2>3 DEF OpenObject, Goto, fileVars
    <3>2. CASE dir = NoRun
      <4>1. PICK r \in Runs : pc[r] = "mkdir"
        BY <2>1, <3>2 DEF DirComes, Made
      <4> QED
        BY <2>1, <3>1, <3>2, <4>1, RunsAssumption, FailingPeace DEF Opened
    <3>3. CASE dir # NoRun
      <4>1. dir \in Runs /\ pc[dir] \in Made /\ dir # p
        BY <2>1, <2>3, <3>3 DEF DirHeld, Typed, InDir
      <4> QED
        BY <2>1, <3>1, <3>3, <4>1, FailingPeace DEF Opened, Made
    <3> QED
      BY <3>2, <3>3
  <2> QED
    BY <2>2, <2>3
<1>7. CASE DumpObject(p) \/ WriteMain(p)
  <2>1. wain[p] # "NONE"
    BY DEF Harmless
  <2>2. /\ pc[p] \in Opened /\ pc'[p] \in Opened
        /\ dir' = dir /\ cwd' = cwd
    BY <1>7, <2>1 DEF DumpObject, WriteMain, WriteFile, Goto, Typed, Opened
  <2>3. WriteFile(p, "prog.o", p) \/ WriteFile(p, "main.c", wain[p])
    BY <1>7, <2>1 DEF DumpObject, WriteMain
  <2>4. FilesHeld'
    BY <1>0, <2>2, <2>3, WritingPeace DEF Names
  <2>5. DirHeld'
    BY <1>0, <2>2 DEF DirHeld, Made, Opened, Typed
  <2>6. DirComes'
    BY <1>0, <2>2 DEF DirComes, Made, Opened
  <2>7. Hope'
    BY <2>2 DEF Hope, Opened
  <2> QED
    BY <2>4, <2>5, <2>6, <2>7
<1>8. CASE OpenMain(p)
  <2>1. pc[p] = "main" /\ cwd' = cwd
    BY <1>8 DEF OpenMain
  <2>2. CASE InDir(p)
    <3>1. pc' = [pc EXCEPT ![p] = "template"] /\ OpenFile(p, "main.c")
      BY <1>8, <2>2 DEF OpenMain, Goto
    <3> QED
      BY <2>1, <2>2, <3>1, OpeningPeace DEF Names, Opened, Made
  <2>3. CASE ~ InDir(p)
    <3>1. pc'[p] = "exit" /\ dir' = dir /\ files' = files
      BY <1>8, <2>3 DEF OpenMain, Goto, fileVars, Typed
    <3> QED
      BY <1>0, <2>1, <3>1, QuietPeace DEF Made, Opened
  <2> QED
    BY <2>2, <2>3
<1> QED
  BY <1>1, <1>2, <1>3, <1>4, <1>5, <1>6, <1>7, <1>8 DEF Call

\* So does every step, of a run that begins or is killed too.
LEMMA NextPeace == Typed /\ PeaceInv /\ [Next]_vars => PeaceInv'
<1> SUFFICES ASSUME Typed, PeaceInv, [Next]_vars, Harmless'
             PROVE  FilesHeld' /\ DirHeld' /\ DirComes' /\ Hope'
  BY DEF PeaceInv
<1>1. Harmless /\ FilesHeld /\ DirHeld /\ DirComes /\ Hope
  BY HarmlessBefore DEF PeaceInv
<1>2. CASE UNCHANGED vars
  BY <1>1, <1>2 DEF vars, fileVars, FilesHeld, DirHeld, DirComes, Hope
<1>3. ASSUME NEW p \in Runs, Begin(p)
      PROVE  FilesHeld' /\ DirHeld' /\ DirComes' /\ Hope'
  <2>1. /\ dir' = dir /\ files' = files /\ cwd' = cwd
        /\ pc[p] = "idle" /\ pc'[p] = "exists"
    BY <1>3 DEF Begin, Goto, fileVars, Typed
  <2> QED
    BY <1>1, <1>3, <2>1, OneMoves, QuietPeace DEF Made, Opened
<1>4. ASSUME NEW p \in Runs, Call(p)
      PROVE  FilesHeld' /\ DirHeld' /\ DirComes' /\ Hope'
  BY <1>1, <1>4, CallPeace
<1>5. ASSUME NEW p \in Runs, Crash(p)
      PROVE  FALSE
  <2>1. pc'[p] = "crashed"
    BY <1>5 DEF Crash, Goto, Typed
  <2> QED
    BY <2>1 DEF Harmless
<1> QED
  BY <1>2, <1>3, <1>4, <1>5 DEF Next, Terminated

\* Where nobody is killed and every program has a parameter to offer, not every
\* one of any number of runs that began ends in the error exit.
THEOREM SomeoneIsNotRefused == Spec => []NotAllError
<1>1. Init => PeaceInv
  BY RunsAssumption DEF Init, PeaceInv, FilesHeld, DirHeld, DirComes, Hope, Made, Opened
<1>2. PeaceInv => NotAllError
  BY DEF PeaceInv, NotAllError, QuietEnd, Harmless, Hope
<1> QED
  BY InitTyped, NextTyped, NextPeace, <1>1, <1>2, PTL DEF Spec

-----------------------------------------------------------------------------
(* A run that has compile() to itself makes its own executable.            *)

Empty == \A name \in Names : files[name] = NoFile

\* What such a run finds before each of its calls.
AloneAt(p) ==
  /\ pc[p] = "clear" => \A name \in Names \ left[p] : files[name] = NoFile
  /\ pc[p] = "rmdir" => Empty
  /\ pc[p] = "mkdir" => dir = NoRun
  /\ pc[p] \in {"chdir", "open"} => dir = p /\ Empty
  /\ pc[p] \in {"open", "dump", "main", "template", "cc", "link"} => dir = p /\ cwd[p] = p
  /\ pc[p] = "dump" => files["prog.o"] = File(p, {}) /\ fd[p] = p
  /\ pc[p] \in {"dump", "main"} => files["main.c"] = NoFile
  /\ pc[p] \in {"main", "template", "cc", "link"} => files["prog.o"] = File(p, {p})
  /\ pc[p] = "template" => files["main.c"] = File(p, {}) /\ fd[p] = p
  /\ pc[p] = "cc" => files["main.c"] = File(p, {wain[p]})
  /\ pc[p] = "link" => mainRead[p] = {wain[p]}

\* And how it ends.
AloneEnd(p) ==
  /\ pc[p] = "exit" => out[p] = IF p \in ccFailed THEN NoOutput ELSE Own(p)
  /\ pc[p] = "error" => wain[p] = "NONE"

NothingWithoutDir == dir = NoRun => Empty

NothingYet == \A p \in Runs : pc[p] # "exit" => out[p] = NoOutput /\ p \notin ccFailed

Solo(p) == Busy(p) => AloneAt(p) /\ \A q \in Runs : q # p => ~ Busy(q)

AloneInv ==
  /\ NothingWithoutDir
  /\ NothingYet
  /\ \A p \in Runs \ met : Solo(p) /\ AloneEnd(p)

\* Files are in a directory.
LEMMA NextFiles == Typed /\ NothingWithoutDir /\ [Next]_vars => NothingWithoutDir'
<1> SUFFICES ASSUME Typed, NothingWithoutDir, [Next]_vars
             PROVE  NothingWithoutDir'
  OBVIOUS
<1>1. CASE UNCHANGED vars
  BY <1>1 DEF vars, fileVars, NothingWithoutDir, Empty
<1>2. ASSUME NEW p \in Runs,
             Begin(p) \/ Exists(p) \/ ChangeDir(p) \/ CompileMain(p) \/ Link(p) \/ CompilerFailsItself(p) \/ Crash(p)
      PROVE  NothingWithoutDir'
  BY <1>2 DEF Begin, Exists, ChangeDir, CompileMain, Link, CompilerFailsItself, CompilerGivesUp, Crash,
              fileVars, NothingWithoutDir, Empty
<1>3. ASSUME NEW p \in Runs, Clear(p)
      PROVE  NothingWithoutDir'
  BY <1>3 DEF Clear, NothingWithoutDir, Empty, Typed, FilesOK
<1>4. ASSUME NEW p \in Runs, RemoveDir(p) \/ MakeDir(p)
      PROVE  NothingWithoutDir'
  BY <1>4, RunsAssumption DEF RemoveDir, MakeDir, NothingWithoutDir, Empty
<1>5. ASSUME NEW p \in Runs, OpenObject(p) \/ OpenMain(p)
      PROVE  NothingWithoutDir'
  BY <1>5 DEF OpenObject, OpenMain, OpenFile, InDir, fileVars, NothingWithoutDir, Empty
<1>6. ASSUME NEW p \in Runs, DumpObject(p) \/ WriteMain(p)
      PROVE  NothingWithoutDir'
  <2>1. dir' = dir
    BY <1>6 DEF DumpObject, WriteMain, WriteFile, fileVars
  <2>2. ASSUME Empty
        PROVE  files' = files
    BY <1>6, <2>2 DEF DumpObject, WriteMain, WriteFile, fileVars, Empty, Names
  <2> QED
    BY <2>1, <2>2 DEF NothingWithoutDir, Empty
<1> QED
  BY <1>1, <1>2, <1>3, <1>4, <1>5, <1>6 DEF Next, Call, Terminated

\* Only the linker makes an output, and the run ends with it.
LEMMA NextOutput == Typed /\ NothingYet /\ [Next]_vars => NothingYet'
<1> SUFFICES ASSUME Typed, NothingYet, [Next]_vars
             PROVE  NothingYet'
  OBVIOUS
<1>1. CASE UNCHANGED vars
  BY <1>1 DEF vars, NothingYet
<1>2. ASSUME NEW p \in Runs, Begin(p) \/ Call(p) \/ Crash(p)
      PROVE  NothingYet'
  <2>1. pc[p] # "exit" /\ \A q \in Runs : q # p => pc'[q] = pc[q]
    BY <1>2, OneMoves DEF Begin, Crash, Busy, Calls, Call, Exists, Clear, RemoveDir, MakeDir, ChangeDir,
           OpenObject, DumpObject, OpenMain, WriteMain, CompileMain, Link, CompilerFailsItself
  <2>2. out' = out \/ (pc'[p] = "exit" /\ \A q \in Runs : q # p => out'[q] = out[q])
    BY <1>2 DEF Begin, Crash, Call, Exists, Clear, RemoveDir, MakeDir, ChangeDir, OpenObject, DumpObject,
           OpenMain, WriteMain, CompileMain, Link, CompilerFailsItself, CompilerGivesUp, Goto, Typed
  <2>3. ccFailed' = ccFailed \/ (pc'[p] = "exit" /\ ccFailed' = ccFailed \cup {p})
    BY <1>2 DEF Begin, Crash, Call, Exists, Clear, RemoveDir, MakeDir, ChangeDir, OpenObject, DumpObject,
           OpenMain, WriteMain, CompileMain, Link, CompilerFailsItself, CompilerGivesUp, Goto, Typed
  <2> QED
    BY <2>1, <2>2, <2>3 DEF NothingYet
<1> QED
  BY <1>1, <1>2 DEF Next, Terminated

\* What the two kinds of call on a file do if nobody else touches it.
LEMMA OpenAlone ==
  ASSUME Typed, NEW p \in Runs, NEW name \in Names, files[name] = NoFile, OpenFile(p, name)
  PROVE  /\ files'[name] = File(p, {}) /\ fd'[p] = p /\ dir' = dir
         /\ \A other \in Names : other # name => files'[other] = files[other]
  BY DEF OpenFile, Typed, FilesOK

\* The data goes to the file that the run has opened and nowhere else.
LEMMA WriteAlone ==
  ASSUME Typed, NEW p \in Runs, NEW name \in Names, NEW data,
         files[name] = File(p, {}), fd[p] = p, WriteFile(p, name, data)
  PROVE  /\ files'[name] = File(p, {data}) /\ dir' = dir
         /\ \A other \in Names : other # name => files'[other] = files[other]
<1>1. files[name] # NoFile /\ files[name].inode = fd[p]
  BY RunsAssumption DEF File, NoFile
<1>2. /\ files' = [files EXCEPT ![name] = File(files[name].inode, files[name].data \cup {data})]
      /\ dir' = dir
  BY <1>1 DEF WriteFile
<1>3. files[name].inode = p /\ files[name].data = {}
  BY DEF File
<1>4. files'[name] = File(p, {data})
  BY <1>2, <1>3 DEF Typed, FilesOK
<1> QED
  BY <1>2, <1>4 DEF Typed, FilesOK

\* Each call of a run that is alone leads to what the next one relies on.
LEMMA CallAlone ==
  ASSUME Typed, NothingWithoutDir, NothingYet, NEW p \in Runs, AloneAt(p), Call(p)
  PROVE  AloneAt(p)' /\ AloneEnd(p)'
<1>0. wain' = wain
  BY OneMoves
<1>1. CASE Exists(p)
  <2>1. pc'[p] = IF dir # NoRun THEN "clear" ELSE "mkdir"
    BY <1>1 DEF Exists, Goto, Typed
  <2>2. pc'[p] = "clear" => left'[p] = Names
    BY <1>1, <2>1 DEF Exists, Typed
  <2> QED
    BY <1>1, <2>1, <2>2 DEF Exists, fileVars, AloneAt, AloneEnd
<1>2. CASE Clear(p)
  <2>1. PICK name \in left[p] :
          /\ files' = [files EXCEPT ![name] = NoFile]
          /\ left' = [left EXCEPT ![p] = @ \ {name}]
          /\ IF left[p] = {name} THEN Goto(p, "rmdir") ELSE UNCHANGED pc
    BY <1>2 DEF Clear
  <2>2. pc[p] = "clear" /\ \A other \in Names \ left[p] : files[other] = NoFile
    BY <1>2 DEF Clear, AloneAt
  <2>3. left'[p] = left[p] \ {name} /\ \A other \in Names \ left'[p] : files'[other] = NoFile
    BY <2>1, <2>2 DEF Typed, FilesOK
  <2>4. pc'[p] = "clear" \/ (pc'[p] = "rmdir" /\ left'[p] = {})
    BY <2>1, <2>2, <2>3 DEF Goto, Typed
  <2> QED
    BY <2>3, <2>4 DEF AloneAt, AloneEnd, Empty
<1>3. CASE RemoveDir(p)
  <2>1. pc[p] = "rmdir" /\ Empty
    BY <1>3 DEF RemoveDir, AloneAt
  <2>2. pc'[p] = "mkdir" /\ dir' = NoRun
    BY <1>3, <2>1 DEF RemoveDir, Goto, Typed, Empty
  <2> QED
    BY <2>2 DEF AloneAt, AloneEnd
<1>4. CASE MakeDir(p)
  <2>1. pc[p] = "mkdir" /\ dir = NoRun
    BY <1>4 DEF MakeDir, AloneAt
  <2>2. pc'[p] = "chdir" /\ dir' = p /\ files' = files
    BY <1>4, <2>1 DEF MakeDir, Goto, Typed
  <2> QED
    BY <2>1, <2>2 DEF AloneAt, AloneEnd, NothingWithoutDir, Empty
<1>5. CASE ChangeDir(p)
  <2>1. pc[p] = "chdir" /\ dir = p /\ Empty
    BY <1>5 DEF ChangeDir, AloneAt
  <2>2. pc'[p] = "open" /\ cwd'[p] = p /\ dir' = dir /\ files' = files
    BY <1>5, <2>1, RunsAssumption DEF ChangeDir, Goto, Typed, fileVars
  <2> QED
    BY <2>1, <2>2 DEF AloneAt, AloneEnd, Empty
<1>6. CASE OpenObject(p)
  <2>1. pc[p] = "open" /\ dir = p /\ cwd[p] = p /\ files["prog.o"] = NoFile /\ files["main.c"] = NoFile
    BY <1>6 DEF OpenObject, AloneAt, Empty, Names
  <2>2. pc'[p] = "dump" /\ cwd' = cwd /\ OpenFile(p, "prog.o")
    BY <1>6, <2>1, RunsAssumption DEF OpenObject, Goto, Typed, InDir
  <2>3. files'["prog.o"] = File(p, {}) /\ fd'[p] = p /\ dir' = dir /\ files'["main.c"] = NoFile
    BY <2>1, <2>2, OpenAlone DEF Names
  <2> QED
    BY <2>1, <2>2, <2>3 DEF AloneAt, AloneEnd
<1>7. CASE DumpObject(p)
  <2>1. /\ pc[p] = "dump" /\ dir = p /\ cwd[p] = p
        /\ files["prog.o"] = File(p, {}) /\ fd[p] = p /\ files["main.c"] = NoFile
    BY <1>7 DEF DumpObject, AloneAt
  <2>2. pc'[p] = "main" /\ cwd' = cwd /\ WriteFile(p, "prog.o", p)
    BY <1>7 DEF DumpObject, Goto, Typed
  <2>3. files'["prog.o"] = File(p, {p}) /\ dir' = dir /\ files'["main.c"] = NoFile
    BY <2>1, <2>2, WriteAlone DEF Names
  <2> QED
    BY <2>1, <2>2, <2>3 DEF AloneAt, AloneEnd
<1>8. CASE OpenMain(p)
  <2>1. /\ pc[p] = "main" /\ dir = p /\ cwd[p] = p
        /\ files["prog.o"] = File(p, {p}) /\ files["main.c"] = NoFile
    BY <1>8 DEF OpenMain, AloneAt
  <2>2. pc'[p] = "template" /\ cwd' = cwd /\ OpenFile(p, "main.c")
    BY <1>8, <2>1, RunsAssumption DEF OpenMain, Goto, Typed, InDir
  <2>3. files'["main.c"] = File(p, {}) /\ fd'[p] = p /\ dir' = dir /\ files'["prog.o"] = File(p, {p})
    BY <2>1, <2>2, OpenAlone DEF Names
  <2> QED
    BY <2>1, <2>2, <2>3 DEF AloneAt, AloneEnd
<1>9. CASE WriteMain(p)
  <2>1. /\ pc[p] = "template" /\ dir = p /\ cwd[p] = p /\ fd[p] = p
        /\ files["prog.o"] = File(p, {p}) /\ files["main.c"] = File(p, {})
    BY <1>9 DEF WriteMain, AloneAt
  <2>2. CASE wain[p] = "NONE"
    <3>1. pc'[p] = "error"
      BY <1>9, <2>2 DEF WriteMain, Goto, Typed
    <3> QED
      BY <1>0, <2>2, <3>1 DEF AloneAt, AloneEnd
  <2>3. CASE wain[p] # "NONE"
    <3>1. pc'[p] = "cc" /\ cwd' = cwd /\ WriteFile(p, "main.c", wain[p])
      BY <1>9, <2>3 DEF WriteMain, Goto, Typed
    <3>2. files'["main.c"] = File(p, {wain[p]}) /\ dir' = dir /\ files'["prog.o"] = File(p, {p})
      BY <2>1, <3>1, WriteAlone DEF Names
    <3> QED
      BY <1>0, <2>1, <3>1, <3>2 DEF AloneAt, AloneEnd
  <2> QED
    BY <2>2, <2>3
<1>10. CASE CompileMain(p)
  <2>1. /\ pc[p] = "cc" /\ dir = p /\ cwd[p] = p
        /\ files["prog.o"] = File(p, {p}) /\ files["main.c"] = File(p, {wain[p]})
    BY <1>10 DEF CompileMain, AloneAt
  <2>2. Readable(p, "main.c") /\ files["main.c"].data = {wain[p]}
    BY <2>1, RunsAssumption DEF Readable, InDir, File
  <2>3. pc'[p] = "link" /\ mainRead'[p] = {wain[p]} /\ UNCHANGED << files, dir, cwd >>
    BY <1>10, <2>2 DEF CompileMain, Goto, Typed, fileVars
  <2> QED
    BY <1>0, <2>1, <2>3 DEF AloneAt, AloneEnd
<1>11. CASE Link(p)
  <2>1. /\ pc[p] = "link" /\ dir = p /\ cwd[p] = p /\ mainRead[p] = {wain[p]}
        /\ files["prog.o"] = File(p, {p})
    BY <1>11 DEF Link, AloneAt
  <2>2. Readable(p, "prog.o") /\ files["prog.o"].data = {p}
    BY <2>1, RunsAssumption DEF Readable, InDir, File
  <2>3. pc'[p] = "exit" /\ out'[p] = Own(p)
    <3>1. out' = [out EXCEPT ![p] = [main |-> mainRead[p], obj |-> files["prog.o"].data]] /\ Goto(p, "exit")
      BY <1>11, <2>2 DEF Link
    <3> QED
      BY <2>1, <2>2, <3>1 DEF Goto, Typed, Own
  <2>4. p \notin ccFailed'
    BY <1>11, <2>1, <2>2 DEF Link, NothingYet
  <2> QED
    BY <1>0, <2>3, <2>4 DEF AloneAt, AloneEnd, Own
<1>12. CASE CompilerFailsItself(p)
  <2>1. pc[p] # "exit" /\ pc'[p] = "exit" /\ out' = out /\ p \in ccFailed'
    BY <1>12 DEF CompilerFailsItself, CompilerGivesUp, Goto, Typed
  <2> QED
    BY <2>1 DEF AloneAt, AloneEnd, NothingYet
<1> QED
  BY <1>1, <1>2, <1>3, <1>4, <1>5, <1>6, <1>7, <1>8, <1>9, <1>10, <1>11, <1>12 DEF Call

\* What a run finds before its calls depends on these alone.
LEMMA SameAlone ==
  ASSUME NEW p \in Runs, AloneAt(p), pc'[p] = pc[p],
         UNCHANGED << wain, left, dir, files, fd, cwd, mainRead >>
  PROVE  AloneAt(p)'
  BY DEF AloneAt, Empty

\* Nobody that is busy is left alone by a run that begins.
LEMMA BeginMeets ==
  ASSUME Typed, NEW p \in Runs, Begin(p), NEW q \in Runs, Busy(q)
  PROVE  p \in met' /\ q \in met'
  BY DEF Begin

\* A run that has met nobody keeps on finding what it needs, or has ended well.
LEMMA NextAlone == Typed /\ AloneInv /\ [Next]_vars => AloneInv'
<1> SUFFICES ASSUME Typed, AloneInv, [Next]_vars
             PROVE  AloneInv'
  OBVIOUS
<1>1. NothingWithoutDir' /\ NothingYet'
  BY NextFiles, NextOutput DEF AloneInv
<1>2. CASE UNCHANGED vars
  BY <1>1, <1>2 DEF vars, fileVars, AloneInv, Solo, AloneAt, AloneEnd, Own, Busy, Empty
<1>3. ASSUME NEW m \in Runs, Begin(m) \/ Call(m) \/ Crash(m), NEW p \in Runs \ met'
      PROVE  (Solo(p) /\ AloneEnd(p))'
  <2>0. /\ pc' \in [Runs -> States]
        /\ \A q \in Runs : q # m => pc'[q] = pc[q]
        /\ wain' = wain
    BY <1>3, OneMoves
  <2>1. p \in Runs \ met /\ Solo(p) /\ AloneEnd(p)
    <3>1. met \subseteq met'
      BY <1>3 DEF Begin, Crash, Call, Exists, Clear, RemoveDir, MakeDir, ChangeDir, OpenObject, DumpObject,
             OpenMain, WriteMain, CompileMain, Link, CompilerFailsItself, CompilerGivesUp
    <3> QED
      BY <3>1 DEF AloneInv
  <2>2. CASE Begin(m)
    <3>1. pc[m] = "idle" /\ pc'[m] = "exists" /\ UNCHANGED << wain, left, dir, files, fd, cwd, mainRead, out, ccFailed >>
      BY <2>2 DEF Begin, Goto, fileVars, Typed
    <3>2. CASE p = m
      <4>1. \A q \in Runs : ~ Busy(q)
        BY <2>2, <3>2, BeginMeets
      <4>2. \A q \in Runs : q # p => ~ Busy(q)'
        BY <2>0, <3>2, <4>1 DEF Busy
      <4> QED
        BY <3>1, <3>2, <4>2 DEF Solo, AloneAt, AloneEnd
    <3>3. CASE p # m
      <4>1. ~ Busy(p) /\ pc'[p] = pc[p]
        BY <2>0, <2>2, <3>3, BeginMeets
      <4> QED
        BY <2>1, <3>1, <4>1 DEF Solo, Busy, AloneEnd, Own
    <3> QED
      BY <3>2, <3>3
  <2>3. CASE Call(m)
    <3>1. Busy(m)
      BY <2>3 DEF Busy, Calls, Call, Exists, Clear, RemoveDir, MakeDir, ChangeDir, OpenObject, DumpObject,
             OpenMain, WriteMain, CompileMain, Link, CompilerFailsItself
    <3>2. CASE p = m
      <4>1. AloneAt(p) /\ \A q \in Runs : q # p => ~ Busy(q)
        BY <2>1, <3>1, <3>2 DEF Solo
      <4>2. AloneAt(p)' /\ AloneEnd(p)'
        BY <2>3, <3>2, <4>1, CallAlone DEF AloneInv
      <4>3. \A q \in Runs : q # p => ~ Busy(q)'
        BY <2>0, <3>2, <4>1 DEF Busy
      <4> QED
        BY <4>2, <4>3 DEF Solo
    <3>3. CASE p # m
      <4>1. ~ Busy(p) /\ pc'[p] = pc[p]
        BY <2>0, <2>1, <3>1, <3>3 DEF Solo
      <4>2. out'[p] = out[p] /\ (p \in ccFailed' <=> p \in ccFailed)
        BY <2>3, <3>3 DEF Typed, Call, Exists, Clear, RemoveDir, MakeDir, ChangeDir, OpenObject, DumpObject,
               OpenMain, WriteMain, CompileMain, Link, CompilerFailsItself, CompilerGivesUp
      <4> QED
        BY <2>0, <2>1, <4>1, <4>2 DEF Solo, Busy, AloneEnd, Own
    <3> QED
      BY <3>2, <3>3
  <2>4. CASE Crash(m)
    <3>1. Busy(m) /\ pc'[m] = "crashed" /\ UNCHANGED << dir, files, fd, cwd, mainRead, out, ccFailed >>
      BY <2>4 DEF Crash, Goto, fileVars, Typed
    <3>2. CASE p = m
      BY <3>1, <3>2 DEF Solo, AloneEnd, Busy, Calls
    <3>3. CASE p # m
      <4>1. ~ Busy(p) /\ pc'[p] = pc[p]
        BY <2>0, <2>1, <3>1, <3>3 DEF Solo
      <4> QED
        BY <2>0, <2>1, <3>1, <4>1 DEF Solo, Busy, AloneEnd, Own
    <3> QED
      BY <3>2, <3>3
  <2> QED
    BY <1>3, <2>2, <2>3, <2>4
<1> QED
  BY <1>1, <1>2, <1>3 DEF Next, Terminated, AloneInv

\* Whatever other runs have left in the temporary directory, a run that has it
\* to itself makes the executable of its own program, or none if the C compiler
\* fails for its own reasons, and is refused only for having no parameter.
THEOREM AloneSucceeds == Spec => []AloneMakesItsOwn
<1>1. Init => AloneInv
  BY RunsAssumption DEF Init, AloneInv, NothingWithoutDir, NothingYet, Empty, Solo, AloneEnd, Busy, Calls
<1>2. AloneInv => AloneMakesItsOwn
  BY DEF AloneInv, AloneEnd, AloneMakesItsOwn
<1> QED
  BY InitTyped, NextTyped, NextAlone, <1>1, <1>2, PTL DEF Spec
-----------------------------------------------------------------------------
(* Not all come away empty-handed without one saying so.                   *)

\* Nobody was killed or refused, and nobody has made an executable.
Silent ==
  /\ \A p \in Runs : pc[p] \notin {"crashed", "error"} /\ wain[p] # "NONE" /\ out[p] = NoOutput
  /\ ccFailed = {}

\* The calls of a run that has gone to the directory; those after it has opened
\* a file; and that at which it writes to it.
Work == {"open", "dump", "main", "template", "cc", "link"}

Opens(name) == Work \ IF name = "prog.o" THEN {"open"} ELSE {"open", "dump", "main"}

Writes(name) == IF name = "prog.o" THEN "dump" ELSE "template"

Working(q) == InDir(q) /\ pc[q] \in Work

Cleaning == \E c \in Runs : pc[c] \in {"clear", "rmdir"}

\* A directory that is there is about to be removed, or somebody is about to go
\* to it or works in it.
DirWorked == dir # NoRun => Cleaning \/ pc[dir] = "chdir" \/ \E q \in Runs : Working(q)

\* A file that was opened is there, unless the directory is being removed.
FilesThere ==
  Cleaning \/ \A name \in Names, q \in Runs : InDir(q) /\ pc[q] \in Opens(name) => files[name] # NoFile

\* Somebody is about to write to a file in which there is nothing.
FilesComing ==
  \A name \in Names : files[name] # NoFile /\ files[name].data = {} =>
    \E t \in Runs : pc[t] = Writes(name) /\ fd[t] = files[name].inode /\ Working(t)

\* Directories were made.
CwdMade == \A q \in Runs : cwd[q] # NoRun => pc[cwd[q]] \in Made

SilentInv == Silent => DirWorked /\ FilesThere /\ FilesComing /\ CwdMade

\* Silence is not come back to.
LEMMA SilentBefore == Typed /\ NothingYet /\ [Next]_vars /\ Silent' => Silent /\ Harmless
<1> SUFFICES ASSUME Typed, NothingYet, [Next]_vars, Silent'
             PROVE  Silent /\ Harmless
  OBVIOUS
<1>1. Harmless
  BY HarmlessBefore DEF Silent, Harmless
<1>2. CASE UNCHANGED vars
  BY <1>1, <1>2 DEF vars, Silent
<1>3. ASSUME NEW p \in Runs, Begin(p) \/ Call(p) \/ Crash(p)
      PROVE  Silent
  <2>1. pc[p] \notin {"error", "exit"} /\ \A q \in Runs : q # p => pc'[q] = pc[q]
    BY <1>3, OneMoves DEF Begin, Crash, Busy, Calls, Call, Exists, Clear, RemoveDir, MakeDir, ChangeDir,
           OpenObject, DumpObject, OpenMain, WriteMain, CompileMain, Link, CompilerFailsItself
  <2>2. \A q \in Runs : q # p => out'[q] = out[q]
    BY <1>3 DEF Begin, Crash, Call, Exists, Clear, RemoveDir, MakeDir, ChangeDir, OpenObject, DumpObject,
           OpenMain, WriteMain, CompileMain, Link, CompilerFailsItself, CompilerGivesUp, Typed
  <2>3. ccFailed \subseteq ccFailed'
    BY <1>3 DEF Begin, Crash, Call, Exists, Clear, RemoveDir, MakeDir, ChangeDir, OpenObject, DumpObject,
           OpenMain, WriteMain, CompileMain, Link, CompilerFailsItself, CompilerGivesUp
  <2> QED
    BY <1>1, <2>1, <2>2, <2>3 DEF Silent, Harmless, NothingYet
<1> QED
  BY <1>1, <1>2, <1>3 DEF Next, Terminated

\* A directory once made stays so, and only one that is there is gone to.
LEMMA CwdStaysMade ==
  ASSUME Typed, DirHeld, CwdMade, Silent', NEW p \in Runs, Begin(p) \/ Call(p)
  PROVE  CwdMade'
<1>1. \A q \in Runs : pc[q] \in Made => pc'[q] \in Made
  <2>1. \A q \in Runs : q # p => pc'[q] = pc[q]
    BY OneMoves
  <2>2. pc'[p] # "error"
    BY DEF Silent
  <2>3. pc[p] \in Made => pc'[p] \in Made
    <3> USE <2>2 DEF Goto, Typed, Made, Opened
    <3>1. CASE Begin(p) \/ Exists(p) \/ Clear(p) \/ RemoveDir(p) \/ MakeDir(p)
      BY <3>1 DEF Begin, Exists, Clear, RemoveDir, MakeDir
    <3>2. CASE ChangeDir(p) \/ OpenObject(p) \/ DumpObject(p) \/ OpenMain(p) \/ WriteMain(p)
      BY <3>2 DEF ChangeDir, OpenObject, DumpObject, OpenMain, WriteMain
    <3>3. CASE CompileMain(p) \/ Link(p) \/ CompilerFailsItself(p)
      BY <3>3 DEF CompileMain, Link, CompilerFailsItself, CompilerGivesUp
    <3> QED
      BY <3>1, <3>2, <3>3 DEF Call
  <2> QED
    BY <2>1, <2>3
<1>2. cwd' = cwd \/ (cwd' = [cwd EXCEPT ![p] = dir] /\ dir # NoRun)
  BY DEF Begin, Call, Exists, Clear, RemoveDir, MakeDir, ChangeDir, OpenObject, DumpObject,
         OpenMain, WriteMain, CompileMain, Link, CompilerFailsItself, CompilerGivesUp
<1>3. \A q \in Runs : cwd'[q] = cwd[q] \/ (cwd'[q] = dir /\ dir # NoRun)
  BY <1>2 DEF Typed
<1> QED
  BY <1>1, <1>3 DEF CwdMade, DirHeld, Typed

\* A run that moves on without touching the file system, and does not clean or
\* write, changes nothing for the others, if it works on or was not needed.
LEMMA SilentMove ==
  ASSUME Typed, DirWorked, FilesThere, FilesComing, NEW p \in Runs,
         \A q \in Runs : q # p => pc'[q] = pc[q],
         dir' = dir, files' = files, fd' = fd, cwd' = cwd,
         pc[p] \notin {"clear", "rmdir", "dump", "template", "chdir"},
         Working(p) => pc'[p] \in Work \/ Cleaning \/ \E t \in Runs : t # p /\ Working(t),
         \A name \in Names : InDir(p) /\ pc'[p] \in Opens(name) => pc[p] \in Opens(name)
  PROVE  DirWorked' /\ FilesThere' /\ FilesComing'
<1>1. Cleaning => Cleaning'
  BY DEF Cleaning
<1>2. \A q \in Runs : InDir(q)' <=> InDir(q)
  BY DEF InDir
<1>3. \A q \in Runs : q # p /\ Working(q) => Working(q)'
  BY <1>2 DEF Working
<1>4. DirWorked'
  <2> SUFFICES ASSUME dir # NoRun, ~ Cleaning
               PROVE  (pc[dir] = "chdir" \/ \E q \in Runs : Working(q))'
    BY <1>1 DEF DirWorked
  <2>1. CASE pc[dir] = "chdir"
    BY <2>1 DEF Typed
  <2>2. CASE Working(p)
    BY <1>2, <1>3, <2>2 DEF Working
  <2>3. CASE \E q \in Runs : q # p /\ Working(q)
    BY <1>3, <2>3
  <2> QED
    BY <2>1, <2>2, <2>3 DEF DirWorked
<1>5. FilesThere'
  BY <1>1, <1>2 DEF FilesThere
<1>6. FilesComing'
  BY <1>3 DEF FilesComing, Writes
<1> QED
  BY <1>4, <1>5, <1>6

\* For a file that cannot be read somebody else is to be waited for.
LEMMA OthersWork ==
  ASSUME FilesThere, FilesComing, NEW p \in Runs, NEW name \in Names,
         pc[p] \in Opens(name) \ {Writes(name)}, InDir(p), ~ Readable(p, name)
  PROVE  Cleaning \/ \E t \in Runs : t # p /\ Working(t)
<1>1. files[name].data = {}
  BY DEF Readable
<1>2. CASE files[name] = NoFile
  BY <1>2 DEF FilesThere
<1>3. CASE files[name] # NoFile
  BY <1>1, <1>3 DEF FilesComing
<1> QED
  BY <1>2, <1>3

\* A run that opens a file is the one that will write to it.
LEMMA SilentOpen ==
  ASSUME Typed, FilesHeld, FilesThere, FilesComing, NEW p \in Runs, NEW name \in Names,
         \A q \in Runs : q # p => pc'[q] = pc[q], cwd' = cwd,
         pc[p] = (IF name = "prog.o" THEN "open" ELSE "main"), pc'[p] = Writes(name),
         InDir(p), OpenFile(p, name)
  PROVE  DirWorked' /\ FilesThere' /\ FilesComing'
<1> DEFINE inode == IF files[name] = NoFile THEN p ELSE files[name].inode
<1>1. /\ files'[name] = File(inode, {}) /\ fd'[p] = inode /\ dir' = dir
      /\ \A other \in Names : other # name => files'[other] = files[other]
      /\ \A q \in Runs : q # p => fd'[q] = fd[q]
  BY DEF OpenFile, Typed, FilesOK
<1>2. inode \in Runs
  BY DEF FilesHeld
<1> HIDE DEF inode
<1>3. files'[name] # NoFile /\ files'[name].inode = inode
  BY <1>1, <1>2, RunsAssumption DEF File, NoFile
<1>4. \A q \in Runs : InDir(q)' <=> InDir(q)
  BY <1>1 DEF InDir
<1>5. Working(p)'
  BY <1>4 DEF Working, Work, Writes
<1>6. \A q \in Runs : q # p /\ Working(q) => Working(q)'
  BY <1>4 DEF Working
<1>7. Cleaning => Cleaning'
  BY DEF Cleaning
<1>8. FilesThere'
  <2> SUFFICES ASSUME ~ Cleaning, NEW other \in Names, NEW q \in Runs, InDir(q), pc'[q] \in Opens(other)
               PROVE  files'[other] # NoFile
    BY <1>4, <1>7 DEF FilesThere
  <2>1. CASE other = name
    BY <1>3, <2>1
  <2>2. CASE other # name
    <3>1. pc[q] \in Opens(other)
      BY <2>2 DEF Opens, Work, Writes, Names
    <3> QED
      BY <1>1, <2>2, <3>1 DEF FilesThere
  <2> QED
    BY <2>1, <2>2
<1>9. FilesComing'
  <2> SUFFICES ASSUME NEW other \in Names, files'[other] # NoFile, files'[other].data = {}
               PROVE  \E t \in Runs : pc'[t] = Writes(other) /\ fd'[t] = files'[other].inode /\ Working(t)'
    BY DEF FilesComing, Writes
  <2>1. CASE other = name
    BY <1>1, <1>3, <1>5, <2>1
  <2>2. CASE other # name
    <3>1. PICK t \in Runs : pc[t] = Writes(other) /\ fd[t] = files[other].inode /\ Working(t)
      BY <1>1, <2>2 DEF FilesComing
    <3>2. t # p
      BY <3>1 DEF Writes
    <3> QED
      BY <1>1, <1>6, <2>2, <3>1, <3>2
  <2> QED
    BY <2>1, <2>2
<1> QED
  BY <1>5, <1>8, <1>9 DEF DirWorked

\* What a run writes is there; where it writes nowhere nothing waited for it.
LEMMA SilentWrite ==
  ASSUME Typed, FilesThere, FilesComing, NEW p \in Runs, NEW name \in Names, NEW data,
         \A q \in Runs : q # p => pc'[q] = pc[q], cwd' = cwd, DirWorked,
         pc[p] = Writes(name), pc'[p] = (IF name = "prog.o" THEN "main" ELSE "cc"),
         WriteFile(p, name, data)
  PROVE  DirWorked' /\ FilesThere' /\ FilesComing'
<1>1. dir' = dir /\ fd' = fd
  BY DEF WriteFile
<1>2. \A other \in Names : other # name => files'[other] = files[other]
  BY DEF WriteFile, Typed, FilesOK
<1>3. \/ files'[name] = files[name] /\ (files[name] = NoFile \/ files[name].inode # fd[p])
      \/ files'[name] # NoFile /\ files'[name].data # {} /\ files[name] # NoFile
  BY DEF WriteFile, Typed, FilesOK, File, NoFile
<1>4. \A q \in Runs : InDir(q)' <=> InDir(q)
  BY <1>1 DEF InDir
<1>5. \A q \in Runs : Working(q) => Working(q)'
  BY <1>4 DEF Working, Work
<1>6. Cleaning <=> Cleaning'
  BY DEF Cleaning, Writes
<1>7. DirWorked'
  BY <1>1, <1>5, <1>6 DEF DirWorked, Writes, Typed
<1>8. \A other \in Names, q \in Runs : pc'[q] \in Opens(other) => pc[q] \in Opens(other)
  BY DEF Opens, Work, Writes, Names
<1>9. FilesThere'
  <2> SUFFICES ASSUME ~ Cleaning, NEW other \in Names, NEW q \in Runs, InDir(q), pc'[q] \in Opens(other)
               PROVE  files'[other] # NoFile
    BY <1>4, <1>6 DEF FilesThere
  <2>1. files[other] # NoFile
    BY <1>8 DEF FilesThere
  <2> QED
    BY <1>2, <1>3, <2>1
<1>10. FilesComing'
  <2> SUFFICES ASSUME NEW other \in Names, files'[other] # NoFile, files'[other].data = {}
               PROVE  \E t \in Runs : pc'[t] = Writes(other) /\ fd'[t] = files'[other].inode /\ Working(t)'
    BY DEF FilesComing, Writes
  <2>1. files'[other] = files[other]
    BY <1>2, <1>3
  <2>2. PICK t \in Runs : pc[t] = Writes(other) /\ fd[t] = files[other].inode /\ Working(t)
    BY <2>1 DEF FilesComing
  <2>3. t # p
    <3>1. CASE other = name
      BY <1>3, <2>1, <2>2, <3>1
    <3>2. CASE other # name
      BY <2>2, <3>2 DEF Writes, Names
    <3> QED
      BY <3>1, <3>2
  <2> QED
    BY <1>1, <1>5, <2>1, <2>2, <2>3
<1> QED
  BY <1>7, <1>9, <1>10

\* Every call of a run that does not break the silence keeps the invariant.
LEMMA CallSilent ==
  ASSUME Typed, NothingWithoutDir, FilesHeld, Silent, Silent',
         DirWorked, FilesThere, FilesComing, CwdMade, NEW p \in Runs, Call(p)
  PROVE  DirWorked' /\ FilesThere' /\ FilesComing'
<1>0. /\ \A q \in Runs : q # p => pc'[q] = pc[q]
      /\ pc'[p] # "error" /\ wain[p] # "NONE"
  BY OneMoves DEF Silent
<1>1. CASE Exists(p)
  <2>1. /\ pc[p] = "exists" /\ pc'[p] \in {"clear", "mkdir"}
        /\ dir' = dir /\ files' = files /\ fd' = fd /\ cwd' = cwd
    BY <1>1 DEF Exists, Goto, Typed, fileVars
  <2> QED
    BY <1>0, <2>1, SilentMove DEF Working, Work, Opens
<1>2. CASE Clear(p)
  <2>1. /\ pc[p] = "clear" /\ pc'[p] \in {"clear", "rmdir"}
        /\ dir' = dir /\ fd' = fd /\ cwd' = cwd /\ \A name \in Names : files'[name] \in {files[name], NoFile}
    BY <1>2 DEF Clear, Goto, Typed, FilesOK
  <2>2. Cleaning'
    BY <2>1 DEF Cleaning
  <2>3. \A q \in Runs : q # p /\ Working(q) => Working(q)'
    BY <1>0, <2>1 DEF Working, InDir
  <2>4. ASSUME NEW name \in Names, files'[name] # NoFile, files'[name].data = {}
        PROVE  \E t \in Runs : pc'[t] = Writes(name) /\ fd'[t] = files'[name].inode /\ Working(t)'
    <3>1. files'[name] = files[name]
      BY <2>1, <2>4
    <3>2. PICK t \in Runs : pc[t] = Writes(name) /\ fd[t] = files[name].inode /\ Working(t)
      BY <2>4, <3>1 DEF FilesComing
    <3>3. t # p
      BY <2>1, <3>2 DEF Writes
    <3> QED
      BY <1>0, <2>1, <2>3, <3>1, <3>2, <3>3
  <2>5. FilesComing'
    BY <2>4 DEF FilesComing, Writes
  <2> QED
    BY <2>2, <2>5 DEF DirWorked, FilesThere
<1>3. CASE RemoveDir(p)
  <2>1. dir' = NoRun /\ files' = files /\ \A name \in Names : files[name] = NoFile
    BY <1>0, <1>3 DEF RemoveDir, Goto, Typed
  <2> QED
    BY <2>1 DEF DirWorked, FilesThere, FilesComing, InDir
<1>4. CASE MakeDir(p)
  <2>1. dir = NoRun /\ dir' = p /\ pc[p] = "mkdir" /\ pc'[p] = "chdir" /\ files' = files /\ cwd' = cwd
    BY <1>0, <1>4 DEF MakeDir, Goto, Typed
  <2>2. \A name \in Names : files[name] = NoFile
    BY <2>1 DEF NothingWithoutDir, Empty
  <2>3. \A q \in Runs : cwd[q] # p
    BY <2>1, RunsAssumption DEF CwdMade, Made, Opened
  <2> QED
    BY <2>1, <2>2, <2>3 DEF DirWorked, FilesThere, FilesComing, InDir
<1>5. CASE ChangeDir(p)
  <2>1. /\ dir # NoRun /\ cwd' = [cwd EXCEPT ![p] = dir] /\ pc[p] = "chdir" /\ pc'[p] = "open"
        /\ dir' = dir /\ files' = files /\ fd' = fd
    BY <1>0, <1>5 DEF ChangeDir, Goto, Typed, fileVars
  <2>2. Working(p)'
    BY <2>1 DEF Working, InDir, Work, Typed
  <2>3. \A q \in Runs : q # p => (InDir(q)' <=> InDir(q))
    BY <2>1 DEF InDir, Typed
  <2>4. \A q \in Runs : q # p /\ Working(q) => Working(q)'
    BY <1>0, <2>3 DEF Working
  <2>5. Cleaning => Cleaning'
    BY <1>0, <2>1 DEF Cleaning
  <2>6. FilesThere'
    <3>1. \A name \in Names : pc'[p] \notin Opens(name)
      BY <2>1 DEF Opens
    <3> QED
      BY <1>0, <2>1, <2>3, <2>5, <3>1 DEF FilesThere
  <2>7. FilesComing'
    <3>1. \A name \in Names : pc[p] # Writes(name)
      BY <2>1 DEF Writes
    <3> QED
      BY <1>0, <2>1, <2>4, <3>1 DEF FilesComing, Writes
  <2> QED
    BY <2>2, <2>6, <2>7 DEF DirWorked
<1>6. CASE OpenObject(p)
  <2>1. InDir(p) /\ OpenFile(p, "prog.o") /\ pc[p] = "open" /\ pc'[p] = "dump" /\ cwd' = cwd
    BY <1>0, <1>6 DEF OpenObject, Goto, Typed
  <2> QED
    BY <1>0, <2>1, SilentOpen DEF Writes, Names
<1>7. CASE DumpObject(p)
  <2>1. WriteFile(p, "prog.o", p) /\ pc[p] = "dump" /\ pc'[p] = "main" /\ cwd' = cwd
    BY <1>7 DEF DumpObject, Goto, Typed
  <2> QED
    BY <1>0, <2>1, SilentWrite DEF Writes, Names
<1>8. CASE OpenMain(p)
  <2>1. CASE InDir(p)
    <3>1. OpenFile(p, "main.c") /\ pc[p] = "main" /\ pc'[p] = "template" /\ cwd' = cwd
      BY <1>8, <2>1 DEF OpenMain, Goto, Typed
    <3> QED
      BY <1>0, <2>1, <3>1, SilentOpen DEF Writes, Names
  <2>2. CASE ~ InDir(p)
    <3>1. /\ pc[p] = "main" /\ dir' = dir /\ files' = files /\ fd' = fd /\ cwd' = cwd
      BY <1>8, <2>2 DEF OpenMain, fileVars
    <3> QED
      BY <1>0, <2>2, <3>1, SilentMove DEF Working
  <2> QED
    BY <2>1, <2>2
<1>9. CASE WriteMain(p)
  <2>1. WriteFile(p, "main.c", wain[p]) /\ pc[p] = "template" /\ pc'[p] = "cc" /\ cwd' = cwd
    BY <1>0, <1>9 DEF WriteMain, Goto, Typed
  <2> QED
    BY <1>0, <2>1, SilentWrite DEF Writes, Names
<1>10. CASE CompileMain(p)
  <2>1. pc[p] = "cc" /\ dir' = dir /\ files' = files /\ fd' = fd /\ cwd' = cwd
    BY <1>10 DEF CompileMain, CompilerGivesUp, fileVars
  <2>2. CASE Readable(p, "main.c")
    <3>1. pc'[p] = "link"
      BY <1>10, <2>2 DEF CompileMain, Goto, Typed
    <3> QED
      BY <1>0, <2>1, <3>1, SilentMove DEF Work, Opens
  <2>3. CASE ~ Readable(p, "main.c")
    <3>1. pc'[p] = "exit"
      BY <1>10, <2>3 DEF CompileMain, CompilerGivesUp, Goto, Typed
    <3>2. Working(p) => Cleaning \/ \E t \in Runs : t # p /\ Working(t)
      BY <2>1, <2>3, OthersWork DEF Working, Work, Opens, Writes, Names
    <3> QED
      BY <1>0, <2>1, <3>1, <3>2, SilentMove DEF Work, Opens
  <2> QED
    BY <2>2, <2>3
<1>11. CASE Link(p)
  <2>1. ~ Readable(p, "prog.o")
    <3> SUFFICES ASSUME Readable(p, "prog.o") PROVE FALSE
      OBVIOUS
    <3>1. out' = [out EXCEPT ![p] = [main |-> mainRead[p], obj |-> files["prog.o"].data]]
      BY <1>11 DEF Link
    <3>2. out'[p].obj # {}
      BY <3>1 DEF Readable, Typed
    <3> QED
      BY <3>2 DEF Silent, NoOutput
  <2>2. /\ pc[p] = "link" /\ pc'[p] = "exit"
        /\ dir' = dir /\ files' = files /\ fd' = fd /\ cwd' = cwd
    BY <1>11, <2>1 DEF Link, CompilerGivesUp, fileVars, Goto, Typed
  <2>3. Working(p) => Cleaning \/ \E t \in Runs : t # p /\ Working(t)
    BY <2>1, <2>2, OthersWork DEF Working, Work, Opens, Writes, Names
  <2> QED
    BY <1>0, <2>2, <2>3, SilentMove DEF Work, Opens
<1>12. CASE CompilerFailsItself(p)
  BY <1>12 DEF CompilerFailsItself, Silent
<1> QED
  BY <1>1, <1>2, <1>3, <1>4, <1>5, <1>6, <1>7, <1>8, <1>9, <1>10, <1>11, <1>12 DEF Call

\* So does every step.
LEMMA NextSilent ==
  Typed /\ NothingWithoutDir /\ NothingYet /\ PeaceInv /\ SilentInv /\ [Next]_vars => SilentInv'
<1> SUFFICES ASSUME Typed, NothingWithoutDir, NothingYet, PeaceInv, SilentInv, [Next]_vars, Silent'
             PROVE  DirWorked' /\ FilesThere' /\ FilesComing' /\ CwdMade'
  BY DEF SilentInv
<1>1. /\ Silent /\ DirWorked /\ FilesThere /\ FilesComing /\ CwdMade
      /\ FilesHeld /\ DirHeld
  BY SilentBefore DEF SilentInv, PeaceInv
<1>2. CASE UNCHANGED vars
  <2>1. \A q \in Runs : (InDir(q)' <=> InDir(q)) /\ (Working(q)' <=> Working(q))
    BY <1>2 DEF vars, fileVars, InDir, Working
  <2> QED
    BY <1>1, <1>2, <2>1 DEF vars, fileVars, DirWorked, FilesThere, FilesComing, CwdMade, Cleaning, Writes
<1>3. ASSUME NEW p \in Runs, Begin(p)
      PROVE  DirWorked' /\ FilesThere' /\ FilesComing' /\ CwdMade'
  <2>1. /\ pc[p] = "idle" /\ pc'[p] = "exists" /\ \A q \in Runs : q # p => pc'[q] = pc[q]
        /\ dir' = dir /\ files' = files /\ fd' = fd /\ cwd' = cwd
    BY <1>3, OneMoves DEF Begin, Goto, Typed, fileVars
  <2>2. DirWorked' /\ FilesThere' /\ FilesComing'
    BY <1>1, <2>1, SilentMove DEF Working, Work, Opens
  <2> QED
    BY <1>1, <1>3, <2>2, CwdStaysMade
<1>4. ASSUME NEW p \in Runs, Call(p)
      PROVE  DirWorked' /\ FilesThere' /\ FilesComing' /\ CwdMade'
  BY <1>1, <1>4, CallSilent, CwdStaysMade
<1>5. ASSUME NEW p \in Runs, Crash(p)
      PROVE  FALSE
  BY <1>5 DEF Crash, Goto, Typed, Silent
<1> QED
  BY <1>2, <1>3, <1>4, <1>5 DEF Next, Terminated

\* Where nobody is killed and no C compiler fails for reasons of its own, any
\* number of runs that all come away without an executable have not all reported
\* success: the last one at work in a directory that is not removed finds both
\* files, since whoever truncates one is not the last.
THEOREM SilenceMeansSuccess == Spec => []FailureOfAllShows
<1> DEFINE Inv == Typed /\ NothingWithoutDir /\ NothingYet /\ PeaceInv /\ SilentInv
<1>1. Init => Inv
  <2> SUFFICES ASSUME Init PROVE Inv
    OBVIOUS
  <2>1. NothingWithoutDir /\ NothingYet
    BY DEF Init, NothingWithoutDir, NothingYet, Empty
  <2>2. PeaceInv
    BY RunsAssumption DEF Init, PeaceInv, FilesHeld, DirHeld, DirComes, Hope, Made, Opened
  <2>3. SilentInv
    BY DEF Init, SilentInv, DirWorked, FilesThere, FilesComing, CwdMade, InDir
  <2> QED
    BY <2>1, <2>2, <2>3, InitTyped
<1>2. Inv /\ [Next]_vars => Inv'
  BY NextTyped, NextFiles, NextOutput, NextPeace, NextSilent
<1>3. Inv => FailureOfAllShows
  <2> SUFFICES ASSUME Inv, QuietEnd, ccFailed = {}, NEW p \in Runs, pc[p] = "exit",
                      \A q \in Runs : out[q] = NoOutput, \A q \in Runs : pc[q] # "error"
               PROVE  FALSE
    BY DEF FailureOfAllShows
  <2>1. Harmless /\ Silent
    BY DEF QuietEnd, Harmless, Silent
  <2>2. dir # NoRun
    BY <2>1 DEF PeaceInv, DirComes, QuietEnd, Made, Opened
  <2>3. DirWorked /\ dir \in Runs
    BY <2>1, <2>2 DEF SilentInv, Typed
  <2> QED
    BY <2>2, <2>3 DEF DirWorked, Cleaning, Working, Work, QuietEnd
<1> QED
  BY <1>1, <1>2, <1>3, PTL DEF Spec

=============================================================================
