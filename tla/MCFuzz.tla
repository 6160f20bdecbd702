--------------------------------- MODULE MCFuzz ---------------------------------
(***************************************************************************)
(* Small campaigns for TLC.                                                *)
(***************************************************************************)
EXTENDS CsonpathFuzzCheck, CsonpathCompile, TLC

MCNodes == 1..11
MCNames == {"a", "b", "l", "x"}
MCRank  == [a |-> 1, b |-> 2, l |-> 3, x |-> 4]

Obj(s) == [Blank("obj") EXCEPT !.kids = [i \in DOMAIN s |-> [key |-> s[i][1], at |-> s[i][2]]]]
Arr(s) == [Blank("arr") EXCEPT !.kids = [i \in DOMAIN s |-> [key |-> NoKey, at |-> s[i]]]]
DocOf(s) == [n \in Nodes |-> IF n \in DOMAIN s THEN s[n] ELSE Blank("free")]

\* {"a": {"x": "s", "b": 1}, "l": ["s", ["t"], {"x": "t"}], "b": null}, where
\* equal scalars are one value, as small ones are in Python
Doc1 == DocOf(<<Obj(<<<<"a", 2>>, <<"l", 5>>, <<"b", NULL>>>>),
                Obj(<<<<"x", 3>>, <<"b", 4>>>>), Blank("str"), Blank("num"),
                Arr(<<3, 6, 8>>), Arr(<<7>>), Blank("str"), Obj(<<<<"x", 7>>>>)>>)
\* {"a": {"x": {}, "l": []}, "l": [{"x": "s"}, {"x": true}], "b": []}
Doc2 == DocOf(<<Obj(<<<<"a", 2>>, <<"l", 5>>, <<"b", 10>>>>),
                Obj(<<<<"x", 3>>, <<"l", 4>>>>), Blank("obj"), Blank("arr"),
                Arr(<<6, 8>>), Obj(<<<<"x", 7>>>>), Blank("str"), Obj(<<<<"x", 9>>>>),
                Blank("bool"), Blank("arr")>>)
\* a list with a null in it
Doc3 == DocOf(<<Obj(<<<<"l", 2>>>>), Arr(<<3, NULL, 4>>), Blank("str"), Blank("str")>>)

Paths == {Path(<<Key("a"), Key("x")>>), Path(<<Key("l"), All, Key("x")>>),
          Path(<<Key("l"), All>>), Path(<<All, All>>), Path(<<All, All, All>>),
          Path(<<Key("l"), Index(1), Index(0)>>), Path(<<Key("b"), Key("x")>>),
          Path(<<Key("a"), DotDot("x")>>), Path(<<>>),
          OrElse(Path(<<Key("zz")>>), Path(<<Key("a")>>))}
Codes == {EmitPath(p) : p \in Paths}

CampaignOf(doc, progs, skip, dry) ==
  LET c == [doc |-> doc, root |-> 1, progs |-> progs, skip |-> skip, dry |-> dry]
  IN  c @@ [plan |-> Plan(c)]
\* One loop more than MaxFrames, over values that have no action.
Deep == CampaignOf(DocOf(<<Arr(<<2>>), Arr(<<3>>), Arr(<<4>>), Blank("num")>>),
                   <<EmitPath(Path(<<All, All, All, All>>))>>, {}, FALSE)
MCCampaigns ==
  {CampaignOf(doc, progs, skip, dry) :
     doc \in {Doc1, Doc2}, progs \in {<<p, q>> : p, q \in Codes},
     skip \in {{}, {5}}, dry \in BOOLEAN} \cup {Deep}

WithNull == {CampaignOf(Doc3, <<EmitPath(Path(<<Key("l"), All>>))>>, {}, FALSE)}
================================================================================
