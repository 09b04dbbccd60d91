----------------------------- MODULE Execution -----------------------------
(***************************************************************************)
(* What becomes of a program once it was parsed: the loop of main() that   *)
(* generates code, then a run of the executable.  compile(), which lies    *)
(* between the two, is the subject of CompileDriver.                       *)
(***************************************************************************)
EXTENDS Codegen

CONSTANTS Half, Pairs, Arrays

VARIABLES input, calls, memory, objects, output, status, result

M == INSTANCE Machine

machineVars == << input, calls, memory, objects, output, status, result >>

execVars == << genVars, machineVars >>

ExecInit == CodegenInit /\ M!MachineInit

GenerateStep == Generate /\ UNCHANGED machineVars

RunStep == phase = "generated" /\ M!Run /\ UNCHANGED genVars

\* main() of the compiler or of the program has ended, or nothing is known of it.
Stopped == phase \in {"error", "ill"} \/ status \in {"exit", "undefined", "clash"}

ExecTerminated == Stopped /\ UNCHANGED execVars

ExecNext == GenerateStep \/ RunStep \/ ExecTerminated

\* One thread, which runs until it stops.
ExecSpec == ExecInit /\ [][ExecNext]_execVars /\ WF_execVars(GenerateStep \/ RunStep)

\* Every program of the sources ends: no loop of the compiler or of what it
\* generates goes on for ever where the source does not.
Ends == <>Stopped
=============================================================================
