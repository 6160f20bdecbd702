------------------------- MODULE CsonpathCompilerCheck -------------------------
(***************************************************************************)
(* What the compiler promises: the program is that of the path, it can be  *)
(* walked, it fits the space, and what was allocated is released once.     *)
(***************************************************************************)
EXTENDS CsonpathCompiler, CsonpathCompile

Labels == {"root", "again", "switch", "error", "array", "member", "sub", "number",
           "number_end", "filter", "getter", "compare", "operand", "sub_operand",
           "clause"}
Char1  == {NUL, "u", "]"} \cup STRING
Calls  == [at : Labels, walker : Nat, next : Nat, toCheck : Char1, inst : STRING,
           inUnion : BOOLEAN, parens : Nat, keys : Seq(STRING), quote : Char1,
           regex : Int, op : STRING, end : Char1]

\* The variables keep their types; no more parentheses are closed than were
\* opened, and a slot is one of the table's.
TypeOK ==
  /\ stack \in Seq(Calls) /\ data \in Seq(Cells)
  /\ \A i \in DOMAIN stack : stack[i].regex < MaxRegex
  /\ regexCnt \in 0..MaxRegex /\ incomplete \in BOOLEAN /\ table \in Nat
  /\ status \in {"compiling", "compiled", "rejected", "destroyed"}
  /\ stack # <<>> <=> status = "compiling"

\* A text that writes a path down is accepted, and its program is that of the
\* path, however it is written: in brackets or with dots, with which quotes and
\* blanks, in or out of a union (csonpath_compile_do, one pass with gotos).
ProgramOfPath ==
  input.meant # <<>> =>
    /\ status # "rejected"
    /\ status = "compiled" => data = EmitPath(input.meant)

\* Whatever text is accepted, its program can be walked: instructions stand
\* where the length table looks for them, unions and sub-paths are closed within
\* what opened them, and every path ends.  Each loop of the engine counts on it,
\* and so does the theorem that walkers stay on instructions.
Layout == INSTANCE CsonpathLayout
Walkable == status = "compiled" => Layout!Laid(data, Layout!LayoutOf(data))

\* What is written never exceeds what csonpath_new_ex has reserved.
SpaceSuffices == Size(data) <= Reserved

\* csonpath_destroy frees every slot that was filled, no other, once, and the
\* table with them, after a success and after an error anywhere: the count was
\* taken when "=~" was met, before the pattern was.
SlotsReleasedOnce ==
  /\ (\E i \in DOMAIN regexs : regexs[i] # 0) => table = 1
  /\ status = "destroyed" => table = 0 /\ \A i \in DOMAIN regexs : regexs[i] = 0

\* No position goes past the NUL that ends the text.
StaysInText == \A i \in DOMAIN stack : stack[i].walker <= End0 /\ stack[i].next <= End0

\* csonpath_compile_do returns on every text: its gotos go back to labels above
\* them, and on each of them the text has to be consumed.
Ends == <>(status = "destroyed")

================================================================================
