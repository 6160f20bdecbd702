---------------------------- MODULE CsonpathCompile ----------------------------
(***************************************************************************)
(* csonpath_compile_do: from a path, taken as a sequence of alternatives   *)
(* separated by '|', to the program.  An alternative is a root and its     *)
(* selectors; a selector is a record with field sel:                       *)
(*   key [key], index [num], all, dotdot [key], range [beg, end],          *)
(*   type [key], filter [clauses], sub [path], union [members]             *)
(* and a clause is [keys, op, operand], the operand one of the constants   *)
(* str [key], int [num], regex [num], null, true, false, none (existence), *)
(* or sub [path].                                                          *)
(* The compiler is one pass: a sub-path is compiled in place, by a nested  *)
(* call that ends its code with END, and a union's members are separated   *)
(* by UNION_JMP and closed by UNION_END.                                   *)
(***************************************************************************)
EXTENDS CsonpathInst
LOCAL INSTANCE SequencesExt

Key(k)         == [sel |-> "key", key |-> k]
Index(n)       == [sel |-> "index", num |-> n]
All            == [sel |-> "all"]
DotDot(k)      == [sel |-> "dotdot", key |-> k]
Slice(b, e)    == [sel |-> "range", beg |-> b, end |-> e]
Type(t)        == [sel |-> "type", key |-> t]
Where(cs)      == [sel |-> "filter", clauses |-> cs]
SubSel(p)      == [sel |-> "sub", path |-> p]
UnionOf(ms)    == [sel |-> "union", members |-> ms]

Clause(keys, op, operand) == [keys |-> keys, op |-> op, operand |-> operand]
Exists(keys)   == Clause(keys, "FILTER_KEY_EXIST", [is |-> "none"])
StrOperand(k)  == [is |-> "str", key |-> k]
NumOperand(n)  == [is |-> "int", num |-> n]
RegOperand(n)  == [is |-> "regex", num |-> n]
SubOperand(p)  == [is |-> "sub", path |-> p]
NullOperand    == [is |-> "null"]
TrueOperand    == [is |-> "true"]
FalseOperand   == [is |-> "false"]

\* An alternative; root 0 is "$", root n is "$<n>", the n-th extra root.
From(root, sels) == [root |-> root, sels |-> sels]
Path(sels)       == <<From(0, sels)>>
OrElse(p, q)     == p \o q

RECURSIVE EmitPath(_), EmitSel(_)

EmitOperand(o) ==
  CASE o.is = "none"  -> <<>>
    [] o.is = "str"   -> <<Cell("GET_OBJ", o.key, 0)>>
    [] o.is = "int"   -> <<Number(o.num)>>
    [] o.is = "regex" -> <<Cell("GET_ARRAY_SMALL", NoKey, o.num)>>
    [] o.is = "null"  -> <<Bare("FILTER_KEY_EXIST")>>
    [] o.is = "true"  -> <<Bare("FILTER_KEY_TRUE")>>
    [] o.is = "false" -> <<Bare("FILTER_KEY_FALSE")>>
    [] OTHER          -> <<Bare("GET_SUBPATH")>> \o EmitPath(o.path)

EmitClause(c) == <<Bare(c.op)>> \o FilterGetters(c.keys) \o EmitOperand(c.operand)

\* seqs[1] \o sep \o seqs[2] ...
Joined(seqs, sep) ==
  FoldLeft(LAMBDA s, t : IF s = <<>> THEN t ELSE s \o sep \o t, <<>>, seqs)

EmitSel(s) ==
  CASE s.sel = "key"    -> <<Cell("GET_OBJ", s.key, 0)>>
    [] s.sel = "index"  -> <<Number(s.num)>>
    [] s.sel = "all"    -> <<Bare("GET_ALL")>>
    [] s.sel = "dotdot" -> <<Cell("FIND_ALL", s.key, 0)>>
    [] s.sel = "range"  -> <<Bare("RANGE"), Number(s.beg), Number(s.end)>>
    [] s.sel = "type"   -> <<Cell("TYPECHECK", s.key, 0)>>
    [] s.sel = "filter" ->
         Joined([i \in DOMAIN s.clauses |-> EmitClause(s.clauses[i])],
                <<Bare("FILTER_AND")>>)
    [] s.sel = "sub"    -> <<Bare("GET_SUBPATH")>> \o EmitPath(s.path)
    [] OTHER            ->
         <<Bare("GET_UNION")>>
         \o Joined([i \in DOMAIN s.members |-> EmitSel(s.members[i])],
                   <<Bare("UNION_JMP")>>)
         \o <<Bare("UNION_END")>>

EmitAlternative(a) ==
  <<IF a.root = 0 THEN Bare("ROOT") ELSE Cell("SWITCH_ROOT", NoKey, a.root - 1)>>
  \o FoldLeft(LAMBDA code, s : code \o EmitSel(s), <<>>, a.sels)

EmitPath(p) ==
  Joined([i \in DOMAIN p |-> EmitAlternative(p[i])], <<Bare("OR")>>)
  \o <<Bare("END")>>

\* a path the compiler rejects leaves only this
Broken == <<Bare("BROKEN")>>
================================================================================
