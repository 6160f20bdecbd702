------------------------------- MODULE MCFindings ------------------------------
(***************************************************************************)
(* The calls on which the code departs from what the repository says of    *)
(* it: one call for each departure, which a run of Finding_<name>.cfg, or  *)
(* the same with another value for Calls and another property (README.md   *)
(* says which), ends in a counterexample.                                  *)
(***************************************************************************)
EXTENDS MC

\* {"b": 0, "l": [{"x": 1}, {"x": 1, "y": 2}]}: the second element matches
Late == DocOf(<<Obj(<<<<"b", 2>>, <<"l", 3>>>>), Num(0), Arr(<<4, 5>>),
                Obj(<<<<"x", 6>>>>), Obj(<<<<"x", 6>>, <<"y", 7>>>>), Num(1), Num(2)>>)
\* {"l": [{"x": 1, "kkk...": 1}]}
Long == DocOf(<<Obj(<<<<"l", 2>>>>), Arr(<<3>>),
                Obj(<<<<"x", 4>>, <<LongName, 4>>>>), Num(1)>>)
\* {"l": [1, 2, 1, 2]}
Flat == DocOf(<<Obj(<<<<"l", 2>>>>), Arr(<<3, 4, 3, 4>>), Num(1), Num(2)>>)
\* {"a": {"x": 1}, "b": {"l": {"x": "a"}}}
Nested == DocOf(<<Obj(<<<<"a", 2>>, <<"b", 4>>>>), Obj(<<<<"x", 3>>>>), Num(1),
                  Obj(<<<<"l", 5>>>>), Obj(<<<<"x", 6>>>>), Str("a")>>)

One_(op, b, path, doc) == {NewCall(op, b, path, doc)}
L(s) == Path(<<Key("l")>> \o s)

\* $.l[?x==1].y and $.l[*].y
FirstAfterFilter == One_("find_first", "json_c", L(<<XIsOne, Key("y")>>), Late)
FirstPython      == One_("find_first", "python", L(<<All, Key("y")>>), Late)
\* $.l[*].y|$.b, $..y|$.b, and $.y|$.b
OrInLoop    == One_("find_all", "json_c", OrElse(L(<<All, Key("y")>>), TheB), Late)
OrAfterDescent == One_("find_all", "json_c", OrElse(Path(<<DotDot("y")>>), TheB), Nest)
OrOnUpdate  == One_("update_or_create", "json_c", OrElse(Path(<<Key("y")>>), TheB), Table)
\* $.l[$.b|$.y]
OrInSubpath == One_("find_all", "json_c",
                    L(<<SubSel(OrElse(TheB, Path(<<Key("y")>>)))>>), Late)
\* $.l[?x==1 & kkk...==1]
LongKey     == One_("find_all", "json_c", L(<<LongClause("FILTER_KEY_EQ")>>), Long)
\* $.l[?xy,?y]
UnionOfExists == One_("find_all", "json_c",
                      L(<<UnionOf(<<Where(<<Exists(<<"xy">>)>>), Where(<<Exists(<<"y">>)>>)>>)>>),
                      Late)
\* $['a', $.b['x', 'l']['y', 'x']].x
UnionInSubpath == One_("find_all", "json_c",
  Path(<<UnionOf(<<Key("a"), SubSel(Path(<<Key("b"), UnionOf(<<Key("x"), Key("l")>>),
                                           UnionOf(<<Key("y"), Key("x")>>)>>))>>),
         Key("x")>>), Nested)

\* $.l[2:4] on yyjson, where l is [1, 2, 1, 2]: entries 1 and 2 are found, and
\* handed over as entries 2 and 3
RangeYyjson    == One_("find_all", "yyjson", L(<<Slice(2, 4)>>), Flat)
RangeCallback  == One_("callback", "yyjson", L(<<Slice(2, 4)>>), Flat)
\* $.l[?x], of an element whose x is null
ExistsNull     == One_("find_all", "json_c", L(<<Where(<<Exists(<<"x">>)>>)>>), Nulls)
\* tests/json-c/filter.c:196: "? (existence) matches JSON null too"
ExistsFindsNulls ==
  Done({"find_all"}) => \A i \in DOMAIN call.doc[2].kids :
    LET el == call.doc[2].kids[i].at IN
    el # NULL /\ KeyIndex(call.doc, el, "x") # {} => \E j \in DOMAIN acc : acc[j].v = el
\* $.l[?x==1], $.l[0,1], $.l[0:3], $..* and $.a.b|$
RemoveFilter == One_("remove", "python", L(<<XIsOne>>), Table)
RemoveUnion  == One_("remove", "python", L(<<UnionOf(<<Index(0), Index(1)>>)>>), Flat)
RemoveRange  == One_("remove", "json_c", L(<<Slice(0, 3)>>), Flat)
RemoveDescent == One_("remove", "json_c", Path(<<DotDot(Wildcard)>>), Mixed)
RemoveAfterOr == One_("remove", "json_c", OrElse(Path(<<Key("a"), Key("b")>>), Path(<<>>)), Table)

\* $.l[?x==1].y, $..a.a.y, $.l[$.b] with b = -1; $.l[?x==1], $..a
UpdateFilter   == One_("update_or_create", "python", L(<<XIsOne, Key("y")>>), Late)
UpdateDescent  == One_("update_or_create", "python", Path(<<DotDot("a"), Key("a"), Key("y")>>), Table)
UpdateNegative == One_("update_or_create", "json_c", L(<<SubSel(TheB)>>), Signed)
CreateFilter   == One_("update_or_create_callback", "python", L(<<XIsOne>>), Late)
CreateDescent  == One_("update_or_create_callback", "python", Path(<<DotDot("a")>>), Table)
CallbackDescent == {[c EXCEPT !.extras = <<>>] :
                      c \in Effecting(One_("callback", "python", Path(<<DotDot("a")>>), Table),
                                      {"set"})}

================================================================================
