---------------------------- MODULE CsonpathCampaign ----------------------------
(***************************************************************************)
(* What a fuzzing campaign promises: the mutations of a plan are made one  *)
(* after the other, each in a document that is otherwise the original; in  *)
(* a dry run they are announced and not made.  When the plan is exhausted  *)
(* the document is the original again, and that is said once and for all.  *)
(***************************************************************************)
EXTENDS Naturals, Sequences

CONSTANTS NoActionLeft   \* what a step answers when nothing is left to do

VARIABLES
  plan,     \* the mutations, in order: records [at, action]
  dry,      \* whether they are only announced
  done,     \* how many were made
  changed,  \* where the document differs from the original
  told      \* the answer of the last step

vars == <<plan, dry, done, changed, told>>

Init == done = 0 /\ changed = {} /\ told # NoActionLeft

Mutate ==
  /\ changed = {} /\ done < Len(plan)
  /\ done' = done + 1
  /\ changed' = IF dry THEN {} ELSE {plan[done + 1].at}
  /\ told' = plan[done + 1].action
  /\ UNCHANGED <<plan, dry>>

Restore ==
  /\ changed # {}
  /\ changed' = {}
  /\ UNCHANGED <<plan, dry, done, told>>

Finish ==
  /\ changed = {} /\ done = Len(plan)
  /\ told' = NoActionLeft
  /\ UNCHANGED <<plan, dry, done, changed>>

Next == Mutate \/ Restore \/ Finish

Spec == Init /\ [][Next]_vars
================================================================================
