-------------------------------- MODULE MCPython --------------------------------
(***************************************************************************)
(* An instance of CsonpathPython for TLC: threads that share objects.      *)
(***************************************************************************)
EXTENDS CsonpathPython, TLC

\* Nothing tells two of these apart, nor the identities that allocations get.
Symmetry == UNION {Permutations(S) : S \in {Threads, Objects, Progs, Lists}}
================================================================================
