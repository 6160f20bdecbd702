------------------------------ MODULE CsonpathCheck -----------------------------
(***************************************************************************)
(* What a call of csonpath_<op> promises, stated against what its path     *)
(* denotes (CsonpathSem).  The calls are those whose program is the code   *)
(* of a path, which they carry in the field path.                          *)
(***************************************************************************)
EXTENDS CsonpathWalk, CsonpathSem

ASSUME CompiledAssumption ==
  \A c \in Calls : c.prog = IF c.path = <<>> THEN Broken ELSE EmitPath(c.path)

\* Programs of paths can be laid out, which theorems about programs ask for.
ASSUME LaidAssumption ==
  \A p \in {c.prog : c \in Calls} \ {Broken} : Laid(p, LayoutOf(p))

Env(h) == [h |-> h, be |-> be, root |-> call.root, extras |-> call.extras,
           regexs |-> call.regexs]

Matches == PathPlaces(Env(call.doc), call.path)       \* in the document as given
Done(ops) == status = "done" /\ call.op \in ops

NonNull(v) == v # NULL
FirstHit(places) ==
  LET hits == {i \in DOMAIN places : NonNull(places[i].v)}
  IN  IF hits = {} THEN NULL ELSE places[CHOOSE i \in hits : \A j \in hits : i <= j].v

--------------------------------------------------------------------------------
(***************************************************************************)
(* Finding.                                                                *)
(***************************************************************************)


\* find_all returns CSONPATH_NULL exactly when there is no match (README.md:277,
\* "Return a list of all matches, or None"), whichever branch failed last.  In
\* Python a loop counts the None of a branch that fails (see README.md here).
NoneIffNoMatch ==
  Done({"find_all"}) /\ ~exc /\ ~NullIsTrue(be) => (ret.int = 0 <=> Matches = <<>>)

\* find_first returns the first match that is a value, or CSONPATH_NULL: a
\* branch of the path that fails does not hide a later one that succeeds.
FindFirstIsHead ==
  Done({"find_first"}) /\ ~exc => ret.val = FirstHit(Matches)

--------------------------------------------------------------------------------
(***************************************************************************)
(* Removing.                                                               *)
(***************************************************************************)

\* remove takes out the matches of the path in the document as it was given,
\* and nothing else: neither the shifting of a list under its own loop nor a
\* restart of the loop makes it miss one or take a neighbour.
RemoveIsExact ==
  Done({"remove"}) /\ ~exc =>
    Tree(heap, call.root) = Tree(Without(be, call.doc, Matches), call.root)

\* remove returns how many values it took out; a match inside another one
\* went with it and is not counted (README.md:278).
RemoveCounts ==
  Done({"remove"}) /\ ~exc => ret.int = Cardinality(Outermost(call.doc, Matches))

--------------------------------------------------------------------------------
(***************************************************************************)
(* Writing and calling back.                                               *)
(***************************************************************************)

Updated == PathPlaces(Env(heap), call.path)           \* in the document as it is

\* After a successful update_or_create every match of the path is the new
\* value, and the count returned is the number of those matches.
UpdateReadsBack ==
  Done({"update_or_create"}) /\ ~exc =>
    /\ \A i \in DOMAIN Updated : Updated[i].v = call.upd
    /\ ret.int = Len(Updated)

Reach(h, n) == {n} \cup Below(h, n)

\* update_or_create replaces the matches and adds what is missing; every
\* other value of the document is still where it was.
UpdateKeepsTheRest ==
  LET old == With(call.doc, Matches, call.upd) IN
  Done({"update_or_create"}) /\ ~exc =>
    \A n \in Reach(old, call.root) \ {NULL} : \A i \in DOMAIN old[n].kids :
      old[n].kids[i].at # NULL =>
        Refetch(heap, n, InfoOf(old, n, i)) = old[n].kids[i].at

Logs == [i \in DOMAIN acc |-> Place(acc[i].ctx, acc[i].ci, acc[i].v)]

\* The callback is called once for each match of the document as it was
\* given, in order, with its container and its key or index; if it raises,
\* the matches after that one are not visited and the error is returned.
CallbackSeesMatches ==
  Done({"callback"}) =>
    IF exc THEN ret.int = -1 /\ (acc # <<>> => Logs = SubSeq(Matches, 1, Len(acc)))
           ELSE ret.int = Len(acc) /\ Logs = Matches

\* update_or_create_callback hands over parents that are part of the
\* document, including those it has just created (README.md:281).
CreatedParentsAttached ==
  status = "run" /\ call.op = "update_or_create_callback" =>
    \A i \in DOMAIN acc : acc[i].ctx \in Reach(heap, call.root)

\* and visits every match there was, with what it creates in between.
CreateCallbackSeesMatches ==
  Done({"update_or_create_callback"}) /\ ~exc =>
    /\ ret.int = Len(acc)
    /\ SelectSeq(Logs, LAMBDA pl : pl.v # NULL)
         = SelectSeq(Matches, LAMBDA pl : pl.v # NULL)

\* Every call returns.
Returns == <>(status \in {"done", "crash"})
================================================================================
