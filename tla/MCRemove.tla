--------------------------------- MODULE MCRemove -------------------------------
(***************************************************************************)
(* The calls of the run on remove, and those of the run on find, are among *)
(* the calls that are proved not to crash.                                 *)
(***************************************************************************)
EXTENDS MC, CsonpathSafe

\* The containers of these documents come before what is in them, and what is
\* not a container has nothing below it.
Containers(d) == {n \in Nodes : IsContainer(d, n)}
Height(d)     == Cardinality(Containers(d))
Heights(d)    == [n \in Nodes |-> Cardinality({m \in Containers(d) : IsContainer(d, n) => m < n})]
SurvivesHere(c) ==
  /\ Survives(c, LayoutOf(c.prog), Height(c.doc), Heights(c.doc))
  /\ Room(c, Height(c.doc)) <= MaxDepth

\* All but a test of a type right after a filter, in Python.  What is asked of
\* the path does not depend on the document, nor the other way around.
ASSUME RemovesSurvive ==
  \A c \in Calls : c.doc = Table => SurvivesHere(c) \/ (c.be = "python" /\ c.path \in Pairs(Filters, Tests))
ASSUME FindsSurvive ==
  \A c \in NewCalls({"find_all"}, {"json_c"}, Chains(Every, Every) \cup Fallbacks \cup ExtraRoots,
                    {Table}) : SurvivesHere(c)
ASSUME DocumentsSurvive ==
  \A d \in Docs \cup NullDocs \cup {Nulls} : SurvivesHere(NewCall("find_all", "json_c", TheB, d))

================================================================================
