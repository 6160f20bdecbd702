----------------------------- MODULE CsonpathLayout ----------------------------
(***************************************************************************)
(* The shape of a program that can be walked: where its instructions are,  *)
(* and where the paths and unions that are open at each of them end.  The  *)
(* engine keeps none of this: it finds its way by the length table, by     *)
(* counting unions and by the sentinel a sub-path leaves at its end.       *)
(***************************************************************************)
EXTENDS CsonpathInst, FiniteSets

(***************************************************************************)
(* A layout of a program p has                                             *)
(*   starts    where an instruction of the switch stands                   *)
(*   clauses   where a clause of a filter starts, with its operator        *)
(*   exit      for each of those, the END of its path or sub-path          *)
(*   nest      how many unions are open before each cell                   *)
(*   close     for GET_UNION and UNION_JMP, the UNION_END of their union   *)
(***************************************************************************)
Layouts(p) == [starts  : SUBSET DOMAIN p,
               clauses : SUBSET DOMAIN p,
               exit    : [DOMAIN p -> DOMAIN p],
               nest    : [1..(Len(p) + 1) -> Nat],
               close   : [DOMAIN p -> DOMAIN p]]

Is(p, q, insts) == CellAt(p, q).inst \in insts

\* q is an instruction of the path that q0 belongs to
SamePath(L, q0, q) == q \in L.starts /\ L.exit[q] = L.exit[q0]

\* a sub-path starts at q, in the program or as an operand
SubpathAt(L, q) == q \in L.starts /\ L.exit[q] # L.exit[1]

\* The union of o, a GET_UNION or a UNION_JMP, ends at t; no UNION_END before
\* that is of this union, and each UNION_JMP of this union is an instruction.
UnionEdges == {"GET_UNION", "UNION_END"}
UnionTo(p, L, o, t) ==
  /\ o < t /\ Is(p, t, {"UNION_END"})
  /\ SamePath(L, o, t + 1)
  /\ L.nest[t] = L.nest[o + 1]
  /\ \A r \in (o + 1)..(t - 1) :
       /\ Is(p, r, {"UNION_END"}) => L.nest[r] > L.nest[t]
       /\ Is(p, r, {"UNION_JMP"}) /\ L.nest[r] = L.nest[t] =>
            L.close[r] = t /\ SamePath(L, o, r)

\* Where a clause ends: after its getters, and its operand if it has one.
OperandAt(p, q) == q + 2 + CellAt(p, q + 1).cnt
AfterClause(p, L, q) ==
  IF Is(p, q, {"FILTER_KEY_EXIST"}) THEN OperandAt(p, q)
  ELSE IF Is(p, OperandAt(p, q), {"GET_SUBPATH"}) THEN L.exit[OperandAt(p, q) + 1] + 1
  ELSE OperandAt(p, q) + 1

\* Behind "=~" stands the index of a regular expression: the engine takes the byte
\* after the operand for it, and of null, true and false, which the compiler lets
\* through, that byte is the next instruction.
ClauseLaid(p, L, q) ==
  LET o == OperandAt(p, q)
      after == AfterClause(p, L, q)
  IN  /\ Is(p, q, FilterOps)
      /\ ~Is(p, q, {"FILTER_KEY_EXIST"}) /\ Is(p, o, {"GET_SUBPATH"}) => SubpathAt(L, o + 1)
      /\ Is(p, q, {"FILTER_KEY_REG_EQ"}) => Is(p, o, {"GET_ARRAY_SMALL"})
      /\ IF Is(p, after, {"FILTER_AND"})
         THEN after + 1 \in L.clauses /\ L.exit[after + 1] = L.exit[q]
         ELSE SamePath(L, q, after)

\* An instruction, and what follows it on the same path.
InstLaid(p, L, q) ==
  LET exit == L.exit[q] IN
  /\ Is(p, q, Executable \cup Endish)
  /\ q <= exit /\ exit \in L.starts /\ L.exit[exit] = exit /\ Is(p, exit, {"END"})
  /\ Is(p, q, {"END"}) => exit = q
  /\ Is(p, q, FilterOps) => q \in L.clauses
  /\ Is(p, q, {"RANGE"}) => SamePath(L, q, q + 3)
  /\ Is(p, q, {"GET_SUBPATH"}) => SubpathAt(L, q + 1) /\ SamePath(L, q, L.exit[q + 1] + 1)
  /\ Is(p, q, {"GET_UNION", "UNION_JMP"}) =>
       UnionTo(p, L, q, L.close[q]) /\ ~Is(p, q + 1, UnionEdges)
  /\ ~Is(p, q, FilterOps \cup {"END", "RANGE", "GET_SUBPATH"}) => SamePath(L, q, q + 1)

\* What the walks that go cell by cell count on.
CellLaid(p, L, q) ==
  /\ Is(p, q, WideOps) => Is(p, q + 1, {"LEN"})
  /\ Is(p, q, {"LEN"}) /\ CellAt(p, q).num \in {4, 20} => Is(p, q + 1, {"GET_OBJ"})
  /\ Is(p, q, {"OR", "UNION_JMP"}) => q \in L.starts
  /\ L.nest[q + 1] = L.nest[q] + (CASE Is(p, q, {"GET_UNION"}) -> 1
                                    [] Is(p, q, {"UNION_END"}) -> -1
                                    [] OTHER                   -> 0)

Laid(p, L) ==
  /\ L \in Layouts(p)
  /\ 1 \in L.starts
  /\ \A q \in L.starts : InstLaid(p, L, q)
  /\ \A q \in L.clauses : ClauseLaid(p, L, q)
  /\ \A q \in DOMAIN p : CellLaid(p, L, q)

(***************************************************************************)
(* Programs that can be laid out, and on which the engine still loses its  *)
(* way (see README.md, OrInSubpath, LongKey and UnionInSubpath), have one  *)
(* of these: an alternative in a sub-path, a second clause whose length    *)
(* does not fit a signed char, a union that ends right before another one  *)
(* starts or ends, inside a union.                                         *)
(***************************************************************************)
Tame(p, L) ==
  /\ \A q \in L.starts : \A r \in q..L.exit[q] : Is(p, r, {"OR"}) => L.exit[q] = L.exit[1]
  /\ \A q \in DOMAIN p : Is(p, q, {"FILTER_AND"}) => CellAt(p, q + 2).num <= 127
  /\ \A q \in DOMAIN p : Is(p, q, {"UNION_END"}) /\ L.nest[q + 1] > 0 => ~Is(p, q + 1, UnionEdges)

--------------------------------------------------------------------------------
(***************************************************************************)
(* The layout of a program, from its cells.                                *)
(***************************************************************************)
CellsBefore(p, insts, q) == Cardinality({r \in 1..(q - 1) : Is(p, r, insts)})
Least(S) == CHOOSE q \in S : \A r \in S : q <= r

\* How many cells after q belong to the instruction that q is a part of: the
\* numbers of a range, the length, getters and operand of a filter.
ClauseCells(p, q) == 1 + CellAt(p, q + 1).cnt + (IF Is(p, q, {"FILTER_KEY_EXIST"}) THEN 0 ELSE 1)
CellsBehind(p) ==
  LET behind[q \in 0..Len(p)] ==
        CASE q > 0 /\ behind[q - 1] > 0 -> behind[q - 1] - 1
          [] OTHER -> CASE Is(p, q, {"RANGE"})      -> 2
                        [] Is(p, q, FilterOps)      -> ClauseCells(p, q)
                        [] Is(p, q, {"FILTER_AND"}) -> 1 + ClauseCells(p, q + 1)
                        [] OTHER                    -> 0
  IN  behind

LayoutOf(p) ==
  LET inPath[q \in 1..(Len(p) + 1)] ==
        CellsBefore(p, {"GET_SUBPATH"}, q) - CellsBefore(p, {"END"}, q)
      inUnion[q \in 1..(Len(p) + 1)] ==
        CellsBefore(p, {"GET_UNION"}, q) - CellsBefore(p, {"UNION_END"}, q)
      ends(q)   == {e \in q..Len(p) : Is(p, e, {"END"}) /\ inPath[e] = inPath[q]}
      closes(q) == {t \in (q + 1)..Len(p) : Is(p, t, {"UNION_END"}) /\ inUnion[t] = inUnion[q + 1]}
      behind    == CellsBehind(p)
      first(q)  == behind[q - 1] = 0        \* not a part of what stands before it
  IN  [starts  |-> {q \in DOMAIN p : first(q) /\ ~Is(p, q, {"FILTER_AND"})},
       clauses |-> {q \in DOMAIN p : first(q) /\ Is(p, q, FilterOps)} \cup
                   {q \in DOMAIN p : Is(p, q - 1, {"FILTER_AND"}) /\ first(q - 1)},
       exit    |-> [q \in DOMAIN p |-> IF ends(q) = {} THEN q ELSE Least(ends(q))],
       nest    |-> inUnion,
       close   |-> [q \in DOMAIN p |-> IF closes(q) = {} THEN q ELSE Least(closes(q))]]
================================================================================
