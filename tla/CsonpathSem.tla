------------------------------ MODULE CsonpathSem ------------------------------
(***************************************************************************)
(* What a path denotes: the places of a document it matches, defined on    *)
(* the path itself, one selector at a time, with no reference to the       *)
(* instruction stream or to the order in which the engine works.           *)
(* A place is a container, which child of it, and the value there.         *)
(*                                                                         *)
(* As in the backends, a null reached by a key or an index counts as       *)
(* nothing there, while "*" and ranges do yield nulls; in yyjson a null is *)
(* a value everywhere, which only a comparison with null takes for none.   *)
(***************************************************************************)
EXTENDS CsonpathDoc, CsonpathCompile, FiniteSets
LOCAL INSTANCE SequencesExt

Place(n, ci, v) == [in |-> n, ci |-> ci, v |-> v]

\* The children of n, in order, that satisfy Test(i).
Children(h, n, Test(_)) ==
  LET kids == h[n].kids
      all  == [i \in DOMAIN kids |->
                 Place(n, IF IsObj(h, n) THEN KeyInfo(kids[i].key) ELSE IdxInfo(i - 1),
                       kids[i].at)]
      hits == {i \in DOMAIN kids : Test(i)}
  IN  [j \in 1..Cardinality(hits) |->
         all[CHOOSE i \in hits : Cardinality({k \in hits : k < i}) = j - 1]]

OrNothing(pl) == IF pl.v = NULL THEN <<>> ELSE <<pl>>

Flatten(seqs) == FoldLeft(LAMBDA s, t : s \o t, <<>>, seqs)

RECURSIVE Descendants(_, _, _)
Descendants(h, n, key) ==
  IF ~IsContainer(h, n) THEN <<>>
  ELSE LET kids == h[n].kids IN
       Flatten([i \in DOMAIN kids |->
                  Children(h, n, LAMBDA j : j = i /\ (key = Wildcard \/
                                            (IsObj(h, n) /\ kids[j].key = key)))
                  \o Descendants(h, kids[i].at, key)])

TypeIs(b, h, v, t) ==
  CASE t = "string"  -> IsStr(h, v)
    [] t = "integer" -> IsNum(b, h, v)
    [] OTHER         -> IsNull(h, v)

Compare(op, a, b) ==
  CASE op = "FILTER_KEY_EQ"          -> a = b
    [] op = "FILTER_KEY_NOT_EQ"      -> a # b
    [] op = "FILTER_KEY_SUPERIOR"    -> a > b
    [] op = "FILTER_KEY_SUPERIOR_EQ" -> a >= b
    [] op = "FILTER_KEY_INFERIOR"    -> a < b
    [] OTHER                         -> a <= b

\* v op w for two values, or two values given as numbers or strings
CompareNum(op, b, h, v, n) == IsNum(b, h, v) /\ Compare(op, h[v].num, n)
CompareStr(op, h, v, s)    == IsStr(h, v) /\ Compare(op, Rank[h[v].str], Rank[s])

Same(b, h, v, o) ==
  CASE o.is = "null"  -> IsNull(h, v)
    [] o.is = "true"  -> IsBool(h, v) /\ h[v].num = 1
    [] o.is = "false" -> IsBool(h, v) /\ h[v].num = 0
    [] o.is = "str"   -> CompareStr("FILTER_KEY_EQ", h, v, o.key)
    [] OTHER          -> CompareNum("FILTER_KEY_EQ", b, h, v, o.num)

(***************************************************************************)
(* env: the document h, the backend be, the root, the extra roots and the  *)
(* regexes; these are the fields of a call, with the heap h added.         *)
(***************************************************************************)
RECURSIVE PathPlaces(_, _)

FirstValue(env, p) ==
  LET found == PathPlaces(env, p) IN IF found = <<>> THEN NULL ELSE found[1].v

Satisfies(env, v, c) ==
  LET h  == env.h
      b  == env.be
      el == FoldLeft(LAMBDA n, k : Get(h, n, k), v, c.keys)
      o  == c.operand
      w  == IF o.is = "sub" THEN FirstValue(env, o.path) ELSE NULL
      ordered == c.op \notin {"FILTER_KEY_EXIST", "FILTER_KEY_REG_EQ",
                              "FILTER_KEY_EQ", "FILTER_KEY_NOT_EQ"}
  IN  \/ c.op = "FILTER_KEY_EXIST" /\ el # NULL
      \/ c.op = "FILTER_KEY_REG_EQ" /\ IsStr(h, el) /\ h[el].str \in env.regexs[o.num + 1]
      \/ /\ o.is = "sub"
         /\ \/ IsNum(b, h, w) /\ CompareNum(c.op, b, h, el, h[w].num)
            \/ IsStr(h, w) /\ CompareStr(c.op, h, el, h[w].str)
      \/ o.is # "sub" /\ c.op = "FILTER_KEY_EQ" /\ Same(b, h, el, o)
      \/ o.is # "sub" /\ c.op = "FILTER_KEY_NOT_EQ" /\ ~Same(b, h, el, o)
      \/ o.is = "str" /\ ordered /\ CompareStr(c.op, h, el, o.key)
      \/ o.is \notin {"sub", "str"} /\ ordered /\ CompareNum(c.op, b, h, el, o.num)

RECURSIVE Select(_, _, _)
Select(env, pl, s) ==
  LET h == env.h
      n == pl.v
  IN  CASE s.sel = "key"    -> OrNothing(Place(n, KeyInfo(s.key), Get(h, n, s.key)))
        [] s.sel = "index"  -> OrNothing(Place(n, IdxInfo(s.num), At(h, n, s.num)))
        [] s.sel = "all"    -> IF IsContainer(h, n) THEN Children(h, n, LAMBDA i : TRUE)
                                                    ELSE <<>>
        [] s.sel = "dotdot" -> Descendants(h, n, s.key)
        [] s.sel = "range"  ->
             IF IsArray(h, n)
             THEN Children(h, n, LAMBDA i : i > s.beg /\ (s.end = 0 \/ i <= s.end))
             ELSE <<>>
        [] s.sel = "filter" ->
             IF IsArray(h, n)
             THEN Children(h, n, LAMBDA i :
                    /\ IsObj(h, h[n].kids[i].at)
                    /\ \A c \in DOMAIN s.clauses :
                         Satisfies(env, h[n].kids[i].at, s.clauses[c]))
             ELSE <<>>
        [] s.sel = "type"   -> IF TypeIs(env.be, h, n, s.key) THEN <<pl>> ELSE <<>>
        [] s.sel = "sub"    ->
             LET w == FirstValue(env, s.path) IN
             CASE IsNum(env.be, h, w) -> Select(env, pl, Index(h[w].num))
               [] IsStr(h, w)         -> Select(env, pl, Key(h[w].str))
               [] OTHER               -> <<>>
        [] OTHER -> Flatten([i \in DOMAIN s.members |-> Select(env, pl, s.members[i])])

AlternativePlaces(env, a) ==
  LET start == Place(NULL, NoInfo, IF a.root = 0 THEN env.root ELSE env.extras[a.root])
  IN  FoldLeft(LAMBDA pls, s : Flatten([i \in DOMAIN pls |-> Select(env, pls[i], s)]),
               <<start>>, a.sels)

\* "Only the first successful path is used."  (README.md, OR)
PathPlaces(env, p) ==
  LET places == [i \in DOMAIN p |-> AlternativePlaces(env, p[i])]
      wins   == {i \in DOMAIN p : places[i] # <<>>}
  IN  IF wins = {} THEN <<>> ELSE places[CHOOSE i \in wins : \A j \in wins : i <= j]

Values(places) == [i \in DOMAIN places |-> places[i].v]

--------------------------------------------------------------------------------
(***************************************************************************)
(* Documents as trees, what is left of one once places are removed from    *)
(* it, and the value of one once a value is written there.                 *)
(***************************************************************************)
RECURSIVE Tree(_, _)
Tree(h, n) ==
  IF IsNull(h, n) THEN <<"null">>
  ELSE CASE IsContainer(h, n) ->
              <<h[n].kind, [i \in DOMAIN h[n].kids |->
                              <<h[n].kids[i].key, Tree(h, h[n].kids[i].at)>>]>>
         [] IsStr(h, n) -> <<"str", h[n].str>>
         [] OTHER       -> <<h[n].kind, h[n].num>>

InfoOf(h, n, i) == IF IsObj(h, n) THEN KeyInfo(h[n].kids[i].key) ELSE IdxInfo(i - 1)
Chosen(h, places, n, i) ==
  \E p \in DOMAIN places : places[p].in = n /\ places[p].ci = InfoOf(h, n, i)

\* every chosen child dropped, or made null in an array that keeps its slots
Without(b, h, places) ==
  [n \in Nodes |->
     LET kids == h[n].kids
         keep == {i \in DOMAIN kids : ~Chosen(h, places, n, i)}
     IN  IF b = "json_c" /\ IsArray(h, n)
         THEN [h[n] EXCEPT !.kids = [i \in DOMAIN kids |->
                 IF i \in keep THEN kids[i] ELSE [kids[i] EXCEPT !.at = NULL]]]
         ELSE [h[n] EXCEPT !.kids = [j \in 1..Cardinality(keep) |->
                 kids[CHOOSE i \in keep : Cardinality({k \in keep : k < i}) = j - 1]]]]

\* every chosen child replaced by the node v
With(h, places, v) ==
  [n \in Nodes |->
     [h[n] EXCEPT !.kids = [i \in DOMAIN h[n].kids |->
        IF Chosen(h, places, n, i) THEN [h[n].kids[i] EXCEPT !.at = v]
                                   ELSE h[n].kids[i]]]]

\* the places not inside a value another place gives up
RECURSIVE Below(_, _)
Below(h, n) ==
  IF ~IsContainer(h, n) THEN {}
  ELSE UNION {{h[n].kids[i].at} \cup Below(h, h[n].kids[i].at) : i \in DOMAIN h[n].kids}

Outermost(h, places) ==
  {p \in DOMAIN places :
     ~\E q \in DOMAIN places : q # p /\ (places[p].in = places[q].v \/
                                         places[p].in \in Below(h, places[q].v))}
================================================================================
