-------------------------- MODULE MCCompileDriver ---------------------------
(***************************************************************************)
(* Three runs of wlp4c that share the temporary directory, in every order. *)
(***************************************************************************)
EXTENDS CompileDriver, TLC

\* The runs are alike: only their programs differ, and those are chosen anew.
RunSymmetry == Permutations(Runs)
=============================================================================
