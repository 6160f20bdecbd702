------------------------------ MODULE CsonpathWalk -----------------------------
(***************************************************************************)
(* Where the walker is, in a program that has a layout.                    *)
(***************************************************************************)
EXTENDS CsonpathDo, CsonpathLayout

\* The walker is always at an instruction: no jump, skip or scan leaves it in
\* the middle of a filter, of a range or past the end of the program.
WalkerOnInstruction ==
  In("inst") => Top.pc \in DOMAIN prog /\ Here.inst \in Executable \cup Endish

\* "here it should point to inst_end" (csonpath_do.h): once a sub-path has
\* given a value, its sentinel is at the END that closes it, the first one
\* before which as many sub-paths are open as where it starts.
SentinelAtEnd ==
  LET end(o) == LayoutOf(prog).exit[o + 1] IN
  /\ In("subpath") /\ ret.val # NULL => Top.sent = end(Top.pc)
  /\ In("operand") /\ ret.val # NULL => Top.sent = end(Top.ow)
================================================================================
