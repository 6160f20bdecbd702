------------------------------ MODULE CsonpathFuzz ------------------------------
(***************************************************************************)
(* The document fuzzer (csonpath_my_fuzzing.h).  A campaign is a document, *)
(* compiled paths, and values to leave alone.  Each call of step puts back *)
(* what the call before it changed, crawls along the paths to the next     *)
(* value it has not dealt with, and mutates it where it is.                *)
(*                                                                         *)
(* csonpath_fuzz_step is a goto program; pc is the label it is at, "idle"  *)
(* between calls.  Which string or number is drawn is not modelled, only   *)
(* the kind of the new value.                                              *)
(***************************************************************************)
EXTENDS CsonpathDoc, FiniteSets

CONSTANTS
  Campaigns,  \* [doc, root, progs, skip, dry]: what csonpath_fuzzer_new is given
  MaxFrames   \* the size of parent_stack

Alive(h, n) == n \in Nodes /\ h[n].kind \notin {"free", "freed"}

ASSUME FuzzAssumption ==
  /\ MaxFrames \in Nat
  /\ \A c \in Campaigns :
       /\ c.doc \in Heap /\ Alive(c.doc, c.root)
       /\ \A n \in Nodes : \A i \in DOMAIN c.doc[n].kids :
            Alive(c.doc, n) =>
              c.doc[n].kids[i].at = NULL \/ Alive(c.doc, c.doc[n].kids[i].at)
       /\ c.progs \in Seq(Seq(Cells)) /\ c.progs # <<>>
       /\ c.skip \subseteq {n \in Nodes : Alive(c.doc, n)}
       /\ c.dry \in BOOLEAN

\* enum csonpath_fuzzer_action, in the order in which they are tried
ActionNames  == <<"MODIFY_STR", "MODIFY_CNT_TYPE", "MODIFY_STR_TYPE">>
NoActionLeft == "NO_ACTION_LEFT"

VARIABLES
  camp,       \* the campaign
  heap,       \* the document and the values that replace parts of it
  pc,         \* the label of csonpath_fuzz_step
  path,       \* cur_path_idx, from 1
  walker,     \* cur_walker
  action,     \* cur_action, from 1: the last one tried on the target, or 0
  ci,         \* saved_child_info, type NONE for -1
  parent,
  frames,     \* parent_stack
  seen,
  snapshot,
  owned,      \* the references taken less those released, of each value
  told,       \* what the last call of step returned
  done        \* how many mutations were made; for the properties

cursor == <<path, walker, ci, parent, frames, seen>>
vars   == <<camp, heap, pc, path, walker, action, ci, parent, frames, seen,
            snapshot, owned, told, done>>

Labels == {"idle", "do_action", "next_inst", "next_path", "destroyed"}
Frame  == [container : ValueSet, idx : Int, inst : Nat]

Prog == camp.progs[path]

\* csonpath_fuzz_current
Current == Refetch(heap, parent, ci)

\* CSONPATH_INREF and CSONPATH_REMOVE, Py_None included.
Taken(o, v)   == [o EXCEPT ![v] = @ + 1]
Dropped(o, v) == [o EXCEPT ![v] = @ - 1]

\* The list of seen values has references of its own.
Pinned == {n \in Nodes : owned[n] > 0} \cup seen

--------------------------------------------------------------------------------
(***************************************************************************)
(* csonpath_fuzz_apply_action                                              *)
(***************************************************************************)

Applies(a, h, v) == IF a = 2 THEN IsContainer(h, v) ELSE IsStr(h, v)

Untried == {a \in DOMAIN ActionNames : a > action /\ Applies(a, heap, Current)}

\* array_to_obj and obj_to_array: the same children, numbered or without keys
Digits     == <<"0", "1", "2", "3", "4", "5", "6", "7", "8", "9">>
Numeral(i) == IF i \in DOMAIN Digits THEN Digits[i] ELSE "more"
ASSUME NumeralAssumption ==               \* true, and unknown to tlapm
  {Digits[i] : i \in DOMAIN Digits} \cup {"more"} \subseteq STRING
Converted(node) ==
  [Blank(IF node.kind = "arr" THEN "obj" ELSE "arr") EXCEPT !.kids =
     [i \in DOMAIN node.kids |->
        [key |-> IF node.kind = "arr" THEN Numeral(i) ELSE NoKey, at |-> node.kids[i].at]]]

\* Values that may take the place of v.
Replacements(a, h, v) ==
  CASE a = 1 -> {Blank("str")}
    [] a = 2 -> {Converted(h[v])}
    [] a = 3 -> {Blank("num"), Blank("bool")}

\* CSONPATH_APPEND_AT on the parent
Put(h, v, pinned) == AppendAt(h, parent, ci, v, pinned)

\* The memory of a released value may be given out again.
Unused(h) == {n \in Nodes : ~Alive(h, n)}

BugMutate ==                              \* what is replaced is not kept
  /\ pc = "do_action" /\ Untried # {}
  /\ LET a == CHOOSE b \in Untried : \A c \in Untried : b <= c IN
       /\ action' = a
       /\ told' = ActionNames[a]
       /\ IF camp.dry THEN UNCHANGED <<heap, snapshot, owned>>
          ELSE /\ \/ \E new \in Replacements(a, heap, Current), n \in Unused(heap) :
                       heap' = Put([heap EXCEPT ![n] = new], n, Pinned)
                  \/ a = 3 /\ heap' = Put(heap, NULL, Pinned)
               /\ snapshot' = IF IsStr(heap, Current) THEN Current ELSE NULL
               /\ owned' = Taken(owned, snapshot')
  /\ done' = done + 1
  /\ pc' = "idle"
  /\ UNCHANGED <<camp, cursor>>

Mutate ==
  /\ pc = "do_action" /\ Untried # {}
  /\ LET a == CHOOSE b \in Untried : \A c \in Untried : b <= c IN
       /\ action' = a
       /\ told' = ActionNames[a]
       /\ IF camp.dry THEN UNCHANGED <<heap, snapshot, owned>>
          ELSE /\ snapshot' = Current
               /\ owned' = Taken(owned, Current)
               /\ \/ \E new \in Replacements(a, heap, Current), n \in Unused(heap) :
                       heap' = Put([heap EXCEPT ![n] = new], n, Pinned \cup {Current})
                  \/ a = 3 /\ heap' = Put(heap, NULL, Pinned \cup {Current})
  /\ done' = done + 1
  /\ pc' = "idle"
  /\ UNCHANGED <<camp, cursor>>

BugNothingApplies ==                      \* the cursor is left at the last action
  /\ pc = "do_action" /\ Untried = {}
  /\ pc' = "next_inst"
  /\ UNCHANGED <<action, camp, heap, cursor, snapshot, owned, told, done>>

NothingApplies ==
  /\ pc = "do_action" /\ Untried = {}
  /\ action' = 0
  /\ pc' = "next_inst"
  /\ UNCHANGED <<camp, heap, cursor, snapshot, owned, told, done>>

--------------------------------------------------------------------------------
(***************************************************************************)
(* csonpath_fuzz_step                                                      *)
(***************************************************************************)

\* What was changed is put back, whatever comes next.
Step ==
  /\ pc = "idle"
  /\ IF snapshot = NULL THEN UNCHANGED <<heap, snapshot, owned>>
     ELSE /\ heap' = Put(heap, snapshot, Pinned)
          /\ owned' = Dropped(owned, snapshot)
          /\ snapshot' = NULL
  /\ IF path > Len(camp.progs)
     THEN told' = NoActionLeft /\ UNCHANGED pc
     ELSE pc' = "do_action" /\ UNCHANGED told
  /\ UNCHANGED <<camp, cursor, action, done>>

\* A value is reached: it is mutated, unless it was, and passed through.
Reach(v) ==
  /\ pc' = CASE v = NULL    -> "next_path"
             [] v \in seen  -> "next_inst"
             [] OTHER       -> "do_action"
  /\ seen' = seen \cup ({v} \ {NULL})

\* The instruction, executed on the value the last one reached.
Crawling(opcodes) ==
  /\ pc = "next_inst"
  /\ CellAt(Prog, walker).inst \in opcodes
  /\ ci.type # "NONE" => Current # NULL
  /\ walker' = NextInst(Prog, walker)
  /\ parent' = IF ci.type = "NONE" THEN parent ELSE Current
  /\ UNCHANGED <<camp, heap, path, action, snapshot, done>>

GetObj ==
  /\ Crawling({"GET_OBJ"})
  /\ LET key == CellAt(Prog, walker).key IN
       /\ ci' = KeyInfo(key)
       /\ Reach(Get(heap, parent', key))
  /\ UNCHANGED <<frames, owned, told>>

\* The test for a negative index is for nothing: the compiler has no '-'.
GetArray ==
  /\ Crawling({"GET_ARRAY_SMALL", "GET_ARRAY_BIG"})
  /\ LET idx == CellAt(Prog, walker).num IN
       /\ ci' = IdxInfo(idx)
       /\ Reach(At(heap, parent', idx))
  /\ UNCHANGED <<frames, owned, told>>

Looping    == frames # <<>> /\ frames[Len(frames)].inst = walker
Entered(n) == IF Looping THEN frames
              ELSE Append(frames, [container |-> n, idx |-> -1, inst |-> walker])
BugAdvanced(fs) ==                        \* the loop stays where it is
  [fs EXCEPT ![Len(fs)].idx = IF @ < 0 THEN 0 ELSE @]
Advanced(fs) == [fs EXCEPT ![Len(fs)].idx = @ + 1]

\* The next child of the innermost loop, which a null ends like the end itself.
GetAll ==
  /\ Crawling({"GET_ALL"})
  /\ Looping \/ Len(frames) < MaxFrames
  /\ LET fs   == Advanced(Entered(parent'))
         top  == fs[Len(fs)]
         refs == IF Looping THEN owned ELSE Taken(owned, parent')
         kids == IF IsContainer(heap, top.container)
                 THEN heap[top.container].kids ELSE <<>>
         i    == top.idx + 1
         more == i \in DOMAIN kids /\ kids[i].at # NULL IN
       /\ IF i \in DOMAIN kids
          THEN /\ ci' = InfoSet(heap, top.container, kids[i].key, i - 1)
               /\ Reach(kids[i].at)
          ELSE pc' = "next_path" /\ UNCHANGED <<ci, seen>>
       /\ frames' = IF more THEN fs ELSE SubSeq(fs, 1, Len(fs) - 1)
       /\ owned' = IF more THEN refs ELSE Dropped(refs, top.container)
  /\ UNCHANGED told

\* csonpath_fuzz_parent_push fails: the call ends where it is
TooDeep ==
  /\ Crawling({"GET_ALL"})
  /\ ~Looping /\ Len(frames) >= MaxFrames
  /\ pc' = "idle"
  /\ told' = NoActionLeft
  /\ UNCHANGED <<ci, frames, seen, owned>>

\* OR, END, and all the instructions the fuzzer does not follow
OtherInst ==
  /\ Crawling(Opcodes \ (Getters \cup {"GET_ALL"}))
  /\ pc' = "next_path"
  /\ UNCHANGED <<ci, frames, seen, owned, told>>

\* The value the last instruction reached is not there.
Gone ==
  /\ pc = "next_inst"
  /\ ci.type # "NONE" /\ Current = NULL
  /\ walker' = NextInst(Prog, walker)
  /\ pc' = "next_path"
  /\ UNCHANGED <<camp, heap, path, action, ci, parent, frames, seen, snapshot, owned, told, done>>

\* next_path: the innermost loop goes on ...
NextChild ==
  /\ pc = "next_path" /\ frames # <<>>
  /\ LET top == frames[Len(frames)] IN
       parent' = top.container /\ walker' = top.inst
  /\ ci' = NoInfo
  /\ action' = 0
  /\ pc' = "next_inst"
  /\ UNCHANGED <<camp, heap, path, frames, seen, snapshot, owned, told, done>>

\* ... or the next path is started, if there is one.
NextPath ==
  /\ pc = "next_path" /\ frames = <<>>
  /\ path' = path + 1
  /\ IF path' > Len(camp.progs)
     THEN /\ pc' = "idle" /\ told' = NoActionLeft
          /\ UNCHANGED <<parent, ci, walker>>
     ELSE /\ parent' = camp.root /\ ci' = NoInfo
          /\ walker' = NextInst(camp.progs[path'], 1)
          /\ pc' = "next_inst" /\ UNCHANGED told
  /\ UNCHANGED <<camp, heap, action, frames, seen, snapshot, owned, done>>

InFrames(v) == Cardinality({i \in DOMAIN frames : frames[i].container = v})

BugDestroy ==                             \* only what is idle is released
  /\ pc = "idle"
  /\ owned' = [v \in ValueSet |-> owned[v] - InFrames(v) - IF v = camp.root THEN 1 ELSE 0]
  /\ pc' = "destroyed"
  /\ UNCHANGED <<camp, heap, cursor, action, snapshot, told, done>>

\* csonpath_fuzzer_destroy, which may come at any time.  A value that is not
\* in its place is not put back.
Destroy ==
  /\ pc = "idle"
  /\ owned' = [v \in ValueSet |->
                 owned[v] - InFrames(v) - (IF v = snapshot THEN 1 ELSE 0)
                                        - (IF v = camp.root THEN 1 ELSE 0)]
  /\ pc' = "destroyed"
  /\ UNCHANGED <<camp, heap, cursor, action, snapshot, told, done>>

--------------------------------------------------------------------------------
\* csonpath_fuzzer_new, with the paths that compile, and mark_seen of the
\* values to be left alone
Init ==
  /\ camp \in Campaigns
  /\ heap = camp.doc
  /\ pc = "idle"
  /\ path = 1 /\ walker = NextInst(camp.progs[1], 1)
  /\ action = 0
  /\ ci = NoInfo /\ parent = camp.root
  /\ frames = <<>>
  /\ seen = camp.skip
  /\ snapshot = NULL
  /\ owned = [v \in ValueSet |-> (IF v = camp.root THEN 1 ELSE 0)
                               + (IF v \in camp.skip THEN 1 ELSE 0)]
  /\ told = "" /\ done = 0

Fuzz ==
  \/ Step \/ Mutate \/ NothingApplies
  \/ GetObj \/ GetArray \/ GetAll \/ TooDeep \/ OtherInst \/ Gone
  \/ NextChild \/ NextPath

Next == Fuzz \/ Destroy

\* The caller calls step again and again, and the call is C code.
Spec == Init /\ [][Next]_vars /\ WF_vars(Fuzz)

--------------------------------------------------------------------------------
TypeOK ==
  /\ heap \in Heap
  /\ pc \in Labels
  /\ path \in 1..(Len(camp.progs) + 1) /\ walker \in Nat
  /\ action \in 0..3
  /\ ci \in ChildInfo
  /\ parent \in ValueSet
  /\ frames \in Seq(Frame) /\ Len(frames) <= MaxFrames
  /\ seen \subseteq Nodes
  /\ snapshot \in ValueSet
  /\ owned \in [ValueSet -> Int]
  /\ told \in {ActionNames[a] : a \in 1..3} \cup {NoActionLeft, ""}
  /\ done \in Nat

(***************************************************************************)
(* The document can always be restored: but for the one slot that the last *)
(* step changed, whose value the snapshot has, every container of the      *)
(* document has the children it had at first, and no part of the document  *)
(* is released (csonpath_my_fuzzing.h 313-323, 337-347).                   *)
(***************************************************************************)
Position(h, n, info) ==
  IF info.type = "STR" THEN CHOOSE i \in KeyIndex(h, n, info.key) : TRUE
                       ELSE info.idx + 1

Restorable ==
  pc # "destroyed" => \A n \in Nodes : Alive(camp.doc, n) =>
    /\ heap[n].kind = camp.doc[n].kind
    /\ DOMAIN heap[n].kids = DOMAIN camp.doc[n].kids
    /\ \A i \in DOMAIN heap[n].kids :
         /\ heap[n].kids[i].key = camp.doc[n].kids[i].key
         /\ camp.doc[n].kids[i].at =
              IF snapshot # NULL /\ n = parent /\ i = Position(heap, n, ci)
              THEN snapshot ELSE heap[n].kids[i].at

(***************************************************************************)
(* csonpath_fuzzer_destroy gives back the references that were taken to    *)
(* the values it met, whatever is under way: to the loops' containers, the *)
(* root, and the value a mutation replaced (csonpath_my_fuzzing.h          *)
(* 186-204).                                                               *)
(***************************************************************************)
ValuesReleased ==
  pc = "destroyed" => \A n \in Nodes \ camp.skip : owned[n] = 0

(***************************************************************************)
(* tests/python/test_refcount.py:119: "After destruction the reference     *)
(* must be released", every one of them, and no other.                     *)
(***************************************************************************)
AllReleased == pc = "destroyed" => \A v \in ValueSet : owned[v] = 0
================================================================================
