------------------------------ MODULE CsonpathSafe -----------------------------
(***************************************************************************)
(* The calls that cannot crash: what is asked of the program, and of the   *)
(* document, for a call to touch nothing it has released and to need no    *)
(* more than a known number of frames.                                     *)
(***************************************************************************)
EXTENDS CsonpathWalk

(***************************************************************************)
(* Of the program p, laid out along L.                                     *)
(***************************************************************************)
RootOps == {"ROOT", "SWITCH_ROOT"}

\* What a walk that looks for an OR or for a UNION_JMP reads as an opcode, the
\* byte after FILTER_KEY_EXIST, leads back to an instruction; and the end of
\* the program is where its cells end.
LengthsRead(p) ==
  \A q \in DOMAIN p :
    /\ ~Is(p, q, {"OUTSIDE"})
    /\ Is(p, q, {"LEN"}) => Is(p, q - 1, WideOps) \/ CellAt(p, q).num \in OneByte \cup {4, 20}

\* The instructions that select nothing: what is removed after them is the
\* child that was selected before.
Stays == Endish \cup {"TYPECHECK", "UNION_JMP", "UNION_END"}
MembersSelect(p) ==
  \A q \in DOMAIN p : Is(p, q, {"GET_UNION", "UNION_JMP"}) => ~Is(p, q + 1, Stays)
\* A filter is not what removes: the loop of a filter is not told when its
\* callee has removed an entry (CSONPATH_DO_FILTER_FIND, csonpath.h:1363).
FiltersGoOn(p, L) == \A q \in L.clauses : ~Is(p, AfterClause(p, L, q), Stays)
\* Outside its sub-paths the program starts at a root, has no alternative and
\* goes back to no root, from where a loop could be reached once more.
SingleRoot(p, L) ==
  \A q \in L.starts : L.exit[q] = L.exit[1] =>
    ~Is(p, q, {"OR"}) /\ (Is(p, q, RootOps) => q = 1)
\* "..*" tests the type of an entry that has been visited (csonpath_do.h:163).
NoWildcard(p) == \A q \in DOMAIN p : Is(p, q, {"FIND_ALL"}) => CellAt(p, q).key # Wildcard

\* A container has no released child; and no container is below itself: each
\* has a lower rank than what is in it.
Alive(h, v) == ~IsKind(h, v, "freed")
Whole(h) ==
  \A n \in Nodes : IsContainer(h, n) => \A i \in DOMAIN h[n].kids : Alive(h, h[n].kids[i].at)
Ranked(rk, h) ==
  \A n \in Nodes : IsContainer(h, n) =>
    \A i \in DOMAIN h[n].kids : h[n].kids[i].at \in Nodes => rk[n] < rk[h[n].kids[i].at]

\* The operation writes nothing: it finds, or calls back and nothing is
\* assigned.  Or it removes, by a path with which what it removes is below all
\* that its loops hold on to, or is what the innermost of them is told of.
ReadsOnly(c) == c.op \in FindOps \/ (c.op = "callback" /\ "set" \notin c.effects)
RemovesSafely(c, L) ==
  /\ c.op = "remove" /\ MembersSelect(c.prog) /\ SingleRoot(c.prog, L)
  /\ c.be = "python" => FiltersGoOn(c.prog, L)
  /\ c.be = "json_c" => NoWildcard(c.prog)

\* The call c has a program that the engine finds its way in, along L, on a
\* document of height K, ranked by rk, and an operation that is safe for them.
Survives(c, L, K, rk) ==
  /\ Laid(c.prog, L) /\ Tame(c.prog, L) /\ LengthsRead(c.prog)
  /\ K \in Nat /\ rk \in [Nodes -> 0..K]
  /\ Whole(c.doc) /\ Ranked(rk, c.doc)
  /\ \A n \in {c.root, c.upd} \cup {c.extras[i] : i \in DOMAIN c.extras} : Alive(c.doc, n)
  /\ ReadsOnly(c) \/ RemovesSafely(c, L)

\* The frames that a document K levels deep can take.
Room(c, K) == (K + 1) * Len(c.prog)
================================================================================
