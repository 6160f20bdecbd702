----------------------------------- MODULE MC -----------------------------------
(***************************************************************************)
(* Small instances for TLC: documents, paths and calls.                    *)
(***************************************************************************)
EXTENDS CsonpathCheck, TLC

MCNodes == 1..20
LongName ==   \* 130 characters: more than a signed char counts
  "kkkkkkkkkkkkkkkkkkkkkkkkkkkkkkkkkkkkkkkkkkkkkkkkkkkkkkkkkkkkkkkkkkkkkkkkkkkkkkkkkkkkkkkkkkkkkkkkkkkkkkkkkkkkkkkkkkkkkkkkkkkkkkkkkk"
MCNames == {"a", "b", "l", "x", "y", LongName}
MCRank  == [a |-> 1, b |-> 2, l |-> 4, x |-> 5, y |-> 6] @@ (LongName :> 3)

Obj(s)  == [Blank("obj") EXCEPT !.kids = [i \in DOMAIN s |-> [key |-> s[i][1], at |-> s[i][2]]]]
Arr(s)  == [Blank("arr") EXCEPT !.kids = [i \in DOMAIN s |-> [key |-> NoKey, at |-> s[i]]]]
Num(n)  == [Blank("num") EXCEPT !.num = n]
Str(s)  == [Blank("str") EXCEPT !.str = s]
Bool(b) == [Blank("bool") EXCEPT !.num = b]

\* The root is node 1; scalars may be shared.  Node 20 is the value an update
\* writes; the nodes in between are there to be allocated.
TheValue == 20
DocOf(s) == [n \in Nodes |-> CASE n \in DOMAIN s -> s[n]
                              [] n = TheValue   -> Num(9)
                              [] OTHER          -> Blank("free")]

\* {"a": {"x": 1, "y": 2}, "b": "x", "l": [{"x": 1, "y": 2}, {"x": 2}, {"x": 1}]}
Table == DocOf(<<Obj(<<<<"a", 2>>, <<"b", 5>>, <<"l", 6>>>>),
                 Obj(<<<<"x", 3>>, <<"y", 4>>>>), Num(1), Num(2), Str("x"),
                 Arr(<<7, 8, 9>>), Obj(<<<<"x", 3>>, <<"y", 4>>>>),
                 Obj(<<<<"x", 4>>>>), Obj(<<<<"x", 3>>>>)>>)
\* {"a": {"a": {"x": 1}, "l": [{"a": 1}, null]}, "b": 0}
Nest  == DocOf(<<Obj(<<<<"a", 2>>, <<"b", 7>>>>), Obj(<<<<"a", 3>>, <<"l", 5>>>>),
                 Obj(<<<<"x", 4>>>>), Num(1), Arr(<<6, NULL>>),
                 Obj(<<<<"a", 4>>>>), Num(0)>>)
\* [[1, 2], {"x": 1}, {"x": "x", "a": true}, null]
Mixed == DocOf(<<Arr(<<2, 5, 6, NULL>>), Arr(<<3, 4>>), Num(1), Num(2),
                 Obj(<<<<"x", 3>>>>), Obj(<<<<"x", 7>>, <<"a", 8>>>>), Str("x"),
                 Bool(1)>>)
\* {"a": {"x": "x"}, "b": -1, "l": [1]}
Signed == DocOf(<<Obj(<<<<"a", 2>>, <<"b", 3>>, <<"l", 4>>>>), Obj(<<<<"x", 5>>>>),
                  Num(-1), Arr(<<6>>), Str("x"), Num(1)>>)
Docs == {Table, Nest, Mixed}
\* {"a": null, "l": [{"x": null, "y": 1}, {"y": 1}, {"x": 1}, null]}
Nulls == DocOf(<<Obj(<<<<"a", NULL>>, <<"l", 2>>>>), Arr(<<3, 4, 5, NULL>>),
                 Obj(<<<<"x", NULL>>, <<"y", 6>>>>), Obj(<<<<"y", 6>>>>),
                 Obj(<<<<"x", 6>>>>), Num(1)>>)

\* The document as yyjson reads it: its nulls are a value, node 19.
TheNull == 19
NullsAsValues(d) ==
  [n \in Nodes |->
     IF n = TheNull THEN Blank("null")
     ELSE [d[n] EXCEPT !.kids = [i \in DOMAIN d[n].kids |->
             IF d[n].kids[i].at = NULL THEN [d[n].kids[i] EXCEPT !.at = TheNull]
                                       ELSE d[n].kids[i]]]]

--------------------------------------------------------------------------------
(***************************************************************************)
(* Selectors and paths.                                                    *)
(***************************************************************************)
One        == NumOperand(1)
X(op, o)   == Where(<<Clause(<<"x">>, op, o)>>)
XIsOne     == X("FILTER_KEY_EQ", One)
TheB       == Path(<<Key("b")>>)                     \* $.b

Steps   == {Key("a"), Key("l"), Key("x"), Index(0), Index(1), All}
Descents == {DotDot("a"), DotDot(Wildcard)}
LateSlices == {Slice(2, 3)}
Slices  == {Slice(0, 2), Slice(1, 0)} \cup LateSlices
Unions  == {UnionOf(<<Key("a"), Key("l")>>), UnionOf(<<Index(1), Index(0)>>)}
Tests   == {Type("integer"), Type("null")}
Ordered == {X(op, o) : op \in {"FILTER_KEY_SUPERIOR", "FILTER_KEY_INFERIOR_EQ"},
                       o \in {One, StrOperand("x")}}
Filters == {XIsOne, X("FILTER_KEY_NOT_EQ", StrOperand("x")), X("FILTER_KEY_EQ", NullOperand),
            Where(<<Exists(<<"x">>)>>), X("FILTER_KEY_REG_EQ", RegOperand(0)),
            Where(<<Clause(<<"x">>, "FILTER_KEY_INFERIOR", NumOperand(2)),
                    Clause(<<"y">>, "FILTER_KEY_EQ", NumOperand(2))>>),
            Where(<<Clause(<<"a">>, "FILTER_KEY_EQ", TrueOperand)>>),
            X("FILTER_KEY_EQ", SubOperand(TheB)),
            X("FILTER_KEY_SUPERIOR_EQ", SubOperand(Path(<<Key("a"), Key("x")>>)))} \cup Ordered
Dynamic == {SubSel(TheB), UnionOf(<<SubSel(TheB), Key("a")>>)}

Chains(S, T) == {Path(<<s>>) : s \in S} \cup {Path(<<s, t>>) : s \in S, t \in T}
Pairs(S, T)  == {Path(<<s, t>>) : s \in S, t \in T}
Deeper(S, T) == Chains(S, T) \cup {Path(<<s, t, u>>) : s \in S, t \in T, u \in T}
Every == Steps \cup Descents \cup Slices \cup Unions \cup Tests \cup Filters \cup Dynamic

\* "<left>|<right>" where the left side has a single branch
Fallbacks == {OrElse(Path(<<Key(k), s>>), p) : k \in {"a", "y"}, s \in {Key("x"), Index(0)},
                                               p \in {TheB, Path(<<Key("l"), All>>)}}
\* "$1.x", the first extra root, and an extra root that is not there
ExtraRoots == {<<From(1, <<Key("x")>>)>>, OrElse(<<From(1, <<Key("y")>>)>>, TheB),
               <<From(2, <<Key("x")>>)>>}

--------------------------------------------------------------------------------
(***************************************************************************)
(* Calls.                                                                  *)
(***************************************************************************)
NewCall(op, b, path, doc) ==
  [prog |-> IF path = <<>> THEN Broken ELSE EmitPath(path), path |-> path, op |-> op,
   be |-> b, doc |-> doc, root |-> 1, upd |-> TheValue, extras |-> <<2>>,
   regexs |-> <<{"x", "y"}>>, emptyArray |-> FALSE, effects |-> {"nop"}]
Effecting(calls, effects) == {[c EXCEPT !.effects = effects] : c \in calls}

NewCalls(ops, bs, paths, docs) ==
  {NewCall(op, b, p, d) : op \in ops, b \in bs, p \in paths, d \in docs}

NullDocs == {NullsAsValues(d) : d \in {Nest, Mixed, Nulls}}

\* find_first stops at the first element a filter keeps: only as a last step
FirstPaths(S) == Chains(S \ Filters, S) \cup Fallbacks \cup ExtraRoots
\* What yyjson selects by a range that begins behind the second entry are other
\* entries (CsonpathDo!EntryAt).
OnYyjson == Every \ LateSlices
FindCalls ==
  NewCalls({"find_all"}, Writable, Chains(Every, Every) \cup Fallbacks \cup ExtraRoots,
           Docs \cup {Nulls})
  \cup NewCalls({"find_first"}, {"json_c"}, FirstPaths(Every), Docs)
  \cup NewCalls({"find_all"}, {"yyjson"}, Chains(OnYyjson, OnYyjson) \cup Fallbacks, NullDocs)
  \cup NewCalls({"find_first"}, {"yyjson"}, FirstPaths(OnYyjson), NullDocs)

\* What remove does right.  In Python: a filter only ahead of the selector that
\* removes, a range only as the last one.  In json-c: no range, no "..*".
KeyUnion == UnionOf(<<Key("a"), Key("l")>>)
Walks    == Steps \cup Tests \cup {DotDot("a"), KeyUnion}
Cut      == Slices \cup {DotDot(Wildcard)}
Unfiltered   == Every \ Filters
RemovePython == Chains(Unfiltered \ Cut, Unfiltered) \cup Pairs(Filters, Walks)
RemoveJsonC  == Chains(Every \ Cut, Every \ Cut)
RemoveCalls  == LET deep == Deeper(Walks \ Tests, Walks) IN
                NewCalls({"remove"}, {"python"}, RemovePython \cup deep, Docs) \cup
                NewCalls({"remove"}, {"json_c"}, RemoveJsonC \cup deep, Docs)

\* What update_or_create does right: no filter, and no ".." with a path below
\* it.  A match of "@null" is none once it has been written.
Writes == Steps \cup {Index(2), Key("y"), KeyUnion}
UpdateCalls == NewCalls({"update_or_create"}, Writable,
                 Deeper(Writes \cup {DotDot("l"), Slice(0, 2)}, Writes)
                 \cup Chains(Unfiltered \ Descents, Unfiltered \ {Type("null")}), Docs)
\* "$.l[?x==1 & kkk... != true]": the getters of a long second clause are not
\* run, its key is taken for the operand, and "true" for an instruction.
Stray == Path(<<Key("l"), Where(<<Clause(<<"x">>, "FILTER_KEY_EQ", One),
                                  Clause(<<LongName>>, "FILTER_KEY_NOT_EQ", TrueOperand)>>)>>)
\* A callback that assigns parent[idx] is given no "..": the descent goes on
\* below what was there.
CallbackCalls ==
  Effecting(NewCalls({"callback"}, Writable, Chains(Every, Every) \cup ExtraRoots \cup {Stray}, Docs),
            {"nop", "raise"}) \cup
  NewCalls({"callback"}, {"yyjson"}, Chains(OnYyjson, OnYyjson), NullDocs) \cup
  Effecting(NewCalls({"callback"}, Writable,
                     Chains(Every \ Descents, Every \ Descents), Docs),
            {"set", "raise"})
AnyEffect == {"nop", "set", "raise"}
CreateCallbackCalls ==
  Effecting(NewCalls({"update_or_create_callback"}, Writable, Deeper(Writes, Writes)
                     \cup Chains(Unfiltered \ Descents, Unfiltered \ Descents), Docs),
            AnyEffect)

WriteCalls == UpdateCalls \cup CallbackCalls \cup CreateCallbackCalls

\* Sub-paths that fail or give a number, an object or nothing, unions that
\* nest by way of a sub-path, roots as the last step, and filter_next bytes
\* a signed char cannot hold.
Inner == {TheB, Path(<<Key("a"), Key("x")>>), Path(<<Key("a")>>), Path(<<Key("y")>>),
          Path(<<Key("l"), All, Key("x")>>), Path(<<UnionOf(<<Key("y"), Key("b")>>)>>),
          Path(<<Key("l"), XIsOne, Key("y")>>), Path(<<SubSel(TheB)>>),
          <<From(2, <<Key("x")>>)>>, <<From(1, <<Key("x")>>)>>}
Operand(o) == X("FILTER_KEY_EQ", SubOperand(o))
LongClause(op) == Where(<<Clause(<<"x">>, "FILTER_KEY_EQ", One),
                          Clause(<<LongName>>, op, One)>>)
Outer == UNION {{Path(<<s, SubSel(o)>>), Path(<<s, UnionOf(<<SubSel(o), Key("a")>>), Key("x")>>),
                 Path(<<SubSel(o), s>>)} : s \in {Key("a"), Key("l")}, o \in Inner}
Roots  == {Path(<<>>), <<From(1, <<>>)>>, <<>>} \cup ExtraRoots
OrRoot == {OrElse(Path(<<Key("y")>>), Path(<<>>)),
           OrElse(Path(<<Key("a"), Key("b")>>), Path(<<>>))}
Tested == {Path(<<Key("l"), Operand(o)>>) : o \in Inner}
          \cup {Path(<<Key("l"), LongClause(op)>>) : op \in FilterOps \ {"FILTER_KEY_EXIST"}}
\* No path but those with a long clause makes the engine lose its way.
ASSUME TameAssumption ==
  \A a \in Chains(Every, Every) \cup Deeper(Writes, Writes) \cup Outer \cup Fallbacks
           \cup ExtraRoots \cup OrRoot \cup {Path(<<Key("l"), Operand(o)>>) : o \in Inner} :
    Tame(EmitPath(a), LayoutOf(EmitPath(a)))
ControlDocs == {Table, Signed}
\* An error of a filter's operand is a comparison that fails, and remove takes
\* the root for a child after an OR: neither is among these.
ControlCalls ==
  Effecting(
    {[c EXCEPT !.upd = n] :
       c \in NewCalls(Ops, Writable, Outer \cup Roots, ControlDocs) \cup
             NewCalls(Ops \ {"remove"}, Writable, OrRoot, ControlDocs),
       n \in {2, TheValue}}
    \cup NewCalls(FindOps, Writable, Tested, ControlDocs),
    AnyEffect)

================================================================================
