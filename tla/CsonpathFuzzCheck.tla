---------------------------- MODULE CsonpathFuzzCheck ----------------------------
(***************************************************************************)
(* What a campaign of CsonpathFuzz is meant to do, computed from the paths *)
(* and the document: the slots each path leads to, loop by loop, each      *)
(* value the first time it is met, with all the actions that apply to it.  *)
(***************************************************************************)
EXTENDS CsonpathFuzz
LOCAL INSTANCE SequencesExt

Flatten(seqs) == FoldLeft(LAMBDA s, t : s \o t, <<>>, seqs)

RECURSIVE Slots(_, _, _, _)
Slots(h, prog, i, n) ==
  LET cell == CellAt(prog, i)
      From(info, v) ==
        IF v = NULL THEN <<>>
        ELSE <<[at |-> <<n, info>>, v |-> v]>> \o Slots(h, prog, i + 1, v)
  IN  CASE cell.inst = "GET_OBJ" -> From(KeyInfo(cell.key), Get(h, n, cell.key))
        [] cell.inst \in Getters -> From(IdxInfo(cell.num), At(h, n, cell.num))
        [] cell.inst = "GET_ALL" /\ IsContainer(h, n) ->
             LET kids == h[n].kids IN
             Flatten([j \in DOMAIN kids |->
                        From(InfoSet(h, n, kids[j].key, j - 1), kids[j].at)])
        [] OTHER -> <<>>

\* The slots of all the paths, less those whose value was met or is skipped.
Visits(c) ==
  FoldLeft(LAMBDA met, s :
             IF s.v \in c.skip \/ \E k \in DOMAIN met : met[k].v = s.v
             THEN met ELSE Append(met, s),
           <<>>,
           Flatten([p \in DOMAIN c.progs |-> Slots(c.doc, c.progs[p], 2, c.root)]))

Plan(c) ==
  LET visits == Visits(c) IN
  Flatten([k \in DOMAIN visits |->
    Flatten([a \in DOMAIN ActionNames |->
      IF Applies(a, c.doc, visits[k].v)
      THEN <<[at |-> visits[k].at, action |-> ActionNames[a]]>> ELSE <<>>])])

\* A campaign comes with its plan, computed once.
ASSUME PlanAssumption == \A c \in Campaigns : c.plan = Plan(c)

\* Where the document is not what it was.
Changed ==
  UNION {IF heap[n].kind # camp.doc[n].kind \/ Size(heap, n) # Size(camp.doc, n)
         THEN {<<n, NoInfo>>}
         ELSE {<<n, InfoSet(heap, n, heap[n].kids[i].key, i - 1)>> :
                 i \in {j \in DOMAIN heap[n].kids : heap[n].kids[j] # camp.doc[n].kids[j]}} :
         n \in {m \in Nodes : Alive(camp.doc, m)}}

(***************************************************************************)
(* A campaign carries out its plan: every value the paths lead to gets all *)
(* its actions before the next (tests/python/test_fuzzer.py:158), each in  *)
(* a document that is otherwise the original, the same in a dry run; and   *)
(* the campaign ends.                                                      *)
(***************************************************************************)
Campaign == INSTANCE CsonpathCampaign WITH
              plan <- camp.plan, dry <- camp.dry, changed <- Changed
FollowsPlan == Campaign!Spec

\* A caller that goes on calling step is told that nothing is left, with the
\* document as it was: csonpath_my_fuzzing.h 310-439 comes to an end.
CampaignEnds ==
  <>[](\/ told = NoActionLeft /\ pc = "idle" /\ snapshot = NULL
       \/ pc = "destroyed")
================================================================================
