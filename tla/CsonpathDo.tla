------------------------------- MODULE CsonpathDo ------------------------------
(***************************************************************************)
(* The interpreter: csonpath_do.h, instantiated by csonpath.h for its six  *)
(* operations.  One behaviour is one call of csonpath_<op>(cjp, root).     *)
(*                                                                         *)
(* The C code is recursive.  Here the C stack is the variable stack, one   *)
(* frame per active csonpath_<op>_internal or csonpath_<op>_dotdot, and a  *)
(* step is one turn of the innermost frame: one instruction, one turn of a *)
(* loop, or what a loop body does once the call in it has returned.  The   *)
(* mode of a frame says which.  Every other frame waits for a call.        *)
(*                                                                         *)
(* The macros that make the six operations different are operators on the  *)
(* operation (PreGet, Verdict, Out...).  A subpath is always evaluated by  *)
(* find_first, whatever the operation.                                     *)
(*                                                                         *)
(* An operator named Bug... is the definition that follows it with a       *)
(* mistake: TLC is run with it in place of that definition to see that the *)
(* properties notice.  No action uses one.                                 *)
(***************************************************************************)
EXTENDS CsonpathDoc

CONSTANTS
  Calls,      \* the calls that may be made
  MaxDepth,   \* how many frames the C stack holds
  MaxCount    \* how far counts, and the log of callbacks, are kept

FindOps    == {"find_first", "find_all"}
CreateOps  == {"update_or_create", "update_or_create_callback"}
CallbackOps == {"callback", "update_or_create_callback"}
Ops        == FindOps \cup CreateOps \cup CallbackOps \cup {"remove"}

(***************************************************************************)
(* A call: the program, the operation, the backend, the document and its   *)
(* root, the value to write, the extra roots, the regexes (each the set of *)
(* the strings it matches), CSONPATH_RETURN_EMPTY_ARRAY, and what a user's *)
(* callback may do.                                                        *)
(***************************************************************************)
CallFields == {"prog", "op", "be", "doc", "root", "upd", "extras", "regexs",
               "emptyArray", "effects"}

ASSUME CallAssumption ==
  \A c \in Calls :
    /\ CallFields \subseteq DOMAIN c
    /\ c.op \in Ops /\ c.be \in Backends
    /\ c.doc \in Heap /\ NullsOf(c.be, c.doc)
    /\ \A n \in Nodes : c.doc[n].kind = "free" => c.doc[n].kids = <<>>
    /\ c.prog \in Seq(Cells)
    /\ c.root \in Nodes /\ c.upd \in Nodes /\ c.extras \in Seq(Nodes)
    /\ c.emptyArray \in BOOLEAN
    /\ c.effects \subseteq {"nop", "set", "raise"}
    /\ c.be \notin Writable => c.op \in FindOps \cup {"callback"} /\ "set" \notin c.effects
ASSUME BoundAssumption == MaxDepth \in Nat \ {0} /\ MaxCount \in Nat \ {0}

VARIABLES
  call,     \* the call being served (never changes)
  heap,     \* the document
  stack,    \* the C stack
  ret,      \* what the last call to return has returned
  acc,      \* find_all: the result array; callbacks: what they were given
  exc,      \* an error has been reported
  status    \* "call", then "run", then "done" or "crash"

vars == <<call, heap, stack, ret, acc, exc, status>>

prog   == call.prog
Code(pc) == CellAt(prog, pc)
be     == call.be
Pinned == {call.root, call.upd} \cup {call.extras[i] : i \in DOMAIN call.extras}

--------------------------------------------------------------------------------
(***************************************************************************)
(* Frames.                                                                 *)
(*   fn, mode     which function, and where in it                          *)
(*   pc           walker                                                   *)
(*   tmp, val     the current value, and the parameter "value"             *)
(*   ctx, inctx   the container the walk came from, and the one at entry   *)
(*   ci           *child_info                                              *)
(*   own          the frame whose end_sentinel this one points to, 0: none *)
(*   sent         this frame's own end_sentinel                            *)
(*   i, n, end    a loop's position, captured length and upper bound       *)
(*   el           the loop variable                                        *)
(*   ow, opn, el2, cnt   a filter's owalker, operation, crawled value and  *)
(*                getters left; cnt also counts nested unions              *)
(*   nb, rl       nb_res and need_reloop_in                                *)
(***************************************************************************)
NewFrame(pc, value, ctx, ci, own) ==
  [fn |-> "internal", mode |-> "inst", pc |-> pc, tmp |-> value,
   val |-> value, ctx |-> ctx, inctx |-> ctx, ci |-> ci, own |-> own,
   sent |-> 0, i |-> 0, n |-> 0, end |-> 0, el |-> NULL, ow |-> 0,
   opn |-> "END", el2 |-> NULL, cnt |-> 0, nb |-> 0, rl |-> FALSE]

Depth == Len(stack)
Top   == stack[Depth]
Here  == Code(Top.pc)

BugOp(f) == call.op                       \* the subpath runs the operation itself

\* the operation a frame executes, find_first under a subpath
Op(f) == IF f.own > 0 THEN "find_first" ELSE call.op

In(mode)  == status = "run" /\ Top.mode = mode
At_(insts) == In("inst") /\ Here.inst \in insts

--------------------------------------------------------------------------------
(***************************************************************************)
(* Results.  find_first returns a value, find_all its array or NULL (int 1 *)
(* or 0), the others a count, or -1.                                       *)
(***************************************************************************)
Value(v) == [val |-> v, int |-> 0]
Count(n) == [val |-> NULL, int |-> n]
None     == Count(0)                                  \* CSONPATH_NONE_FOUND_RET
ErrorOf(op) == Count(IF op \in FindOps THEN 0 ELSE -1)  \* CSONPATH_GETTER_ERR

BugIsTrue(op, r) == TRUE                  \* any result will do

\* "if (tret)"
IsTrue(op, r) ==
  \/ NullIsTrue(be)
  \/ IF op = "find_first" THEN r.val # NULL ELSE r.int # 0

BugSentinel(s, f, walker, v) ==           \* the last frame to return wins
  IF f.own > 0 THEN [s EXCEPT ![f.own].sent = v] ELSE s

\* if (end_sentinel && *end_sentinel < walker) *end_sentinel = v
Sentinel(s, f, walker, v) ==
  IF f.own > 0 /\ s[f.own].sent < walker THEN [s EXCEPT ![f.own].sent = v] ELSE s

Replace(f)     == [stack EXCEPT ![Depth] = f]
Pop(s)         == SubSeq(s, 1, Len(s) - 1)
Go(f)          == stack' = Replace(f) /\ UNCHANGED <<ret, status>>
Crash          == status' = "crash" /\ UNCHANGED <<stack, ret>>
Enter(f, callee) == IF Depth = MaxDepth THEN Crash
                    ELSE stack' = Append(Replace(f), callee) /\ UNCHANGED <<ret, status>>
LeaveFrom(s, r) ==
  /\ stack' = Pop(s)
  /\ ret' = r
  /\ status' = IF Depth = 1 THEN "done" ELSE "run"
Leave(r)       == LeaveFrom(stack, r)
LeaveAt(walker, v, r) == LeaveFrom(Sentinel(stack, Top, walker, v), r)
Fail           == Leave(ErrorOf(Op(Top))) /\ exc' = TRUE

Data == <<heap, acc, exc>>       \* what most steps leave alone

--------------------------------------------------------------------------------
(***************************************************************************)
(* Macros of the six instantiations.                                       *)
(***************************************************************************)

\* csonpath_skipp_union_jmp from the GET_UNION at pc: where it stops.  It does
\* not look at the instruction right behind the end of a nested union.
UnionStop(pc) ==
  LET stop[q \in Nat, nested \in Nat] ==
        LET r == NextInst(prog, q) IN
        IF q > Len(prog) \/ (nested = 0 /\ Code(q).inst = "UNION_END") THEN q
        ELSE IF Code(r).inst = "GET_UNION" THEN stop[r, nested + 1]
        ELSE IF Code(r).inst = "UNION_END" /\ nested > 0 THEN stop[r + 1, nested - 1]
        ELSE stop[r, nested]
  IN  stop[pc, 0]

\* CSONPATH_NEW_GUESS_CNT: an object if the next getter is a key or a
\* filter, an array otherwise; the members of a union are skipped.
InUnion(pc, q) ==
  \E u \in (pc + 1)..(q - 1) : Code(u).inst = "GET_UNION" /\ q < UnionStop(u)
GuessContainer(pc) ==
  LET seen == {q \in (pc + 1)..Len(prog) :
                 /\ Code(q).inst \in Getters \cup FilterOps \cup Endish \cup {"ROOT"}
                 /\ ~InUnion(pc, q)}
      first == CHOOSE q \in seen : \A r \in seen : q <= r
  IN  IF Code(first).inst \in FilterOps \cup {"GET_OBJ"} THEN "obj" ELSE "arr"

BugCheckExist(f, kind) ==                 \* the new container is not attached
  LET n == NewNode(heap)
  IN  IF f.tmp # NULL THEN [ok |-> TRUE, h |-> heap, f |-> f]
      ELSE IF CanAppend(be, heap, f.ctx, f.ci) /\ FreeNodes(heap) # {}
      THEN [ok |-> TRUE, h |-> Allocate(heap, kind),
            f |-> [f EXCEPT !.tmp = n, !.ctx = n]]
      ELSE [ok |-> FALSE, h |-> heap, f |-> f]
BugCheckExistAnew(f, kind) ==             \* a scalar in the way is replaced
  LET n == NewNode(heap)
  IN  IF f.tmp # NULL /\ IsKind(heap, f.tmp, kind)
      THEN [ok |-> TRUE, h |-> heap, f |-> f]
      ELSE IF CanAppend(be, heap, f.ctx, f.ci) /\ FreeNodes(heap) # {}
      THEN [ok |-> TRUE, h |-> AppendAt(Allocate(heap, kind), f.ctx, f.ci, n, Pinned),
            f |-> [f EXCEPT !.tmp = n, !.ctx = n]]
      ELSE [ok |-> FALSE, h |-> heap, f |-> f]

\* CSONPATH_UPDATE_CHECK_EXIST: the current value is made a container.  Nodes
\* bounds what can be created: there must be one left.
CheckExist(f, kind) ==
  LET n == NewNode(heap)
      h == Allocate(heap, kind)
  IN  IF f.tmp # NULL THEN [ok |-> TRUE, h |-> heap, f |-> f]
      ELSE IF CanAppend(be, heap, f.ctx, f.ci) /\ FreeNodes(heap) # {}
      THEN [ok |-> TRUE, h |-> AppendAt(h, f.ctx, f.ci, n, Pinned),
            f |-> [f EXCEPT !.tmp = n, !.ctx = n]]
      ELSE [ok |-> FALSE, h |-> heap, f |-> f]

BugPreGet(f, kind, ci) ==                 \* ctx stays one level behind
  IF Op(f) \in CreateOps
  THEN LET e == CheckExist(f, kind)
       IN  IF f.tmp # NULL /\ ~IsKind(heap, f.tmp, kind)
           THEN [ok |-> FALSE, h |-> heap, f |-> f]
           ELSE [e EXCEPT !.f.ci = ci]
  ELSE [ok |-> TRUE, h |-> heap,
        f |-> IF Op(f) = "callback"
              THEN [f EXCEPT !.ci = InfoSet(heap, f.ctx, ci.key, ci.idx)]
              ELSE f]

\* CSONPATH_PRE_GET, CSONPATH_PRE_GET_OBJ, and the update of ctx before them.
PreGet(f, kind, ci) ==
  LET g == IF f.tmp # NULL THEN [f EXCEPT !.ctx = f.tmp] ELSE f
      e == CheckExist(g, kind)
  IN  CASE Op(f) = "callback" ->
             [ok |-> TRUE, h |-> heap,
              f |-> [g EXCEPT !.ci = InfoSet(heap, g.ctx, ci.key, ci.idx)]]
        [] Op(f) \in CreateOps ->
             IF f.tmp # NULL /\ ~IsKind(heap, f.tmp, kind)
             THEN [ok |-> FALSE, h |-> heap, f |-> g]
             ELSE [e EXCEPT !.f.ci = ci]
        [] OTHER -> [ok |-> TRUE, h |-> heap, f |-> g]

BugVerdict(f, r, macro) ==                \* "if (tret < 0) return tret" is missing
  IF f.rl /\ macro \in {"ALL", "RANGE", "FILTER"} THEN "again"
  ELSE IF Op(f) = "find_first" /\ IsTrue("find_first", r) THEN "leave"
  ELSE "next"

(***************************************************************************)
(* CSONPATH_DO_FIND_ALL, CSONPATH_DO_RANGE, CSONPATH_DO_FILTER_FIND and    *)
(* CSONPATH_DO_GET_UNION_POST: what a loop does with the result r of its   *)
(* body: return it, start over, or go on.                                  *)
(***************************************************************************)
Verdict(f, r, macro) ==
  LET op == Op(f) IN
  CASE op = "find_first" -> IF macro = "FILTER" \/ IsTrue(op, r) THEN "leave" ELSE "next"
    [] op = "find_all"   -> "next"
    [] op = "remove"     -> IF r.int < 0 /\ macro # "FILTER" THEN "leave"
                            ELSE IF f.rl /\ macro \in {"ALL", "RANGE"} THEN "again"
                            ELSE "next"
    [] op = "update_or_create" ->
         IF macro = "FILTER" THEN IF f.rl THEN "again" ELSE "next"
         ELSE IF r.int < 0 THEN "leave" ELSE "next"
    [] op = "callback"   -> IF r.int < 0 THEN "leave" ELSE "next"
    [] OTHER             -> IF r.int < 0 THEN "leave"
                            ELSE IF f.rl /\ macro = "FILTER" THEN "again" ELSE "next"

BugCounted(f, r) ==                       \* find_all counts what it looks at
  IF Op(f) = "find_all" THEN 1 ELSE f.nb + r.int

\* nb_res
Counted(f, r) ==
  LET nb == CASE Op(f) = "find_first" -> f.nb
              [] Op(f) = "find_all"   -> f.nb + (IF IsTrue("find_all", r) THEN 1 ELSE 0)
              [] OTHER                -> f.nb + r.int
  IN  IF nb > MaxCount THEN MaxCount ELSE nb

BugStart(f, mode) ==                      \* nb_res is reset by a new round
  [f EXCEPT !.mode = mode, !.i = 0, !.rl = FALSE, !.nb = 0,
            !.n = IF f.tmp \in Nodes THEN Size(heap, f.tmp) ELSE 0]

\* a loop starts, or starts over: the length of the container is captured
Start(f, mode) ==
  [f EXCEPT !.mode = mode, !.i = 0, !.rl = FALSE,
            !.n = IF f.tmp \in Nodes THEN Size(heap, f.tmp) ELSE 0]

\* CSONPATH_DO_FIND_ALL_OUT: the loop is over
Out(f) ==
  LET op == Op(f) IN
  CASE op = "find_first" -> LeaveAt(f.pc, f.pc, None)
    [] op = "find_all"   -> Leave(Count(IF call.emptyArray \/ f.nb > 0 THEN 1 ELSE 0))
    [] OTHER             -> Leave(Count(f.nb))

BugLoopChild(f, el, pc, ci) ==            \* the container of the container
  NewFrame(pc, el, f.ctx, f.ci, f.own)
\* the child of a loop: the element, its container and its place in it
LoopChild(f, el, pc, ci) == NewFrame(pc, el, f.tmp, ci, f.own)
BugCurrentInfo(f) ==                      \* the index after this one
  IF IsObj(heap, f.tmp) THEN KeyInfo(heap[f.tmp].kids[f.i + 1].key) ELSE IdxInfo(f.i + 1)
CurrentInfo(f) ==
  IF IsObj(heap, f.tmp) THEN KeyInfo(heap[f.tmp].kids[f.i + 1].key) ELSE IdxInfo(f.i)

BugReloop(cond) == stack                  \* the loop above is not told
BugReloopAlways(cond) ==                  \* whether or not something was removed
  IF Depth > 1 THEN [stack EXCEPT ![Depth - 1].rl = TRUE] ELSE stack

\* *need_reloop = 1
Reloop(cond) ==
  IF cond /\ Depth > 1 THEN [stack EXCEPT ![Depth - 1].rl = TRUE] ELSE stack

--------------------------------------------------------------------------------
(***************************************************************************)
(* CSONPATH_DO_RETURN: the walker is at the end of the path, or at an OR.  *)
(***************************************************************************)
Logged(f) == IF Len(acc) = MaxCount THEN acc
             ELSE Append(acc, [ctx |-> f.ctx, ci |-> f.ci, v |-> f.tmp])

ReturnFound ==
  /\ At_(Endish)
  /\ \/ /\ Op(Top) = "find_first"
        /\ LeaveAt(Top.pc, Top.pc, Value(Top.tmp))
        /\ UNCHANGED acc
     \/ /\ Op(Top) = "find_all"
        /\ acc' = Append(acc, [ctx |-> NULL, ci |-> NoInfo, v |-> Top.tmp])
        /\ Leave(Count(1))
  /\ UNCHANGED <<call, heap, exc>>

ReturnRemove ==
  LET s == Reloop(Top.ctx = Top.inctx /\ NeedForeachRedo(be, heap, Top.ctx)) IN
  /\ At_(Endish)
  /\ Op(Top) = "remove"
  /\ \/ /\ Top.ci.type = "NONE"
        /\ LeaveFrom(s, None)
        /\ UNCHANGED <<heap, exc>>
     \/ /\ Top.ci.type # "NONE"
        /\ Top.ctx # NULL
        /\ heap' = RemoveChild(be, heap, Top.ctx, Top.ci, Pinned)
        /\ LeaveFrom(s, Count(1))
        /\ UNCHANGED exc
     \/ /\ Top.ci.type # "NONE"
        /\ Top.ctx = NULL                   \* PyList_SetSlice(None): SystemError
        /\ IF be = "python" THEN LeaveFrom(s, Count(1)) /\ exc' = TRUE
                            ELSE Crash /\ UNCHANGED exc
        /\ UNCHANGED heap
  /\ UNCHANGED <<call, acc>>

ReturnUpdate ==
  /\ At_(Endish)
  /\ Op(Top) = "update_or_create"
  /\ \/ /\ Top.ci.type = "NONE"
        /\ Leave(None)
        /\ UNCHANGED <<heap, exc>>
     \/ /\ Top.ci.type # "NONE"
        /\ IF CanAppend(be, heap, Top.ctx, Top.ci)
           THEN /\ heap' = AppendAt(heap, Top.ctx, Top.ci, call.upd, Pinned)
                /\ LeaveFrom(Reloop(TRUE), Count(1))
                /\ UNCHANGED exc
           ELSE /\ LeaveFrom(Reloop(TRUE), Count(-1))
                /\ exc' = TRUE
                /\ UNCHANGED heap
  /\ UNCHANGED <<call, acc>>

(***************************************************************************)
(* The user's callback: looks, or assigns parent[idx], or (Python) raises. *)
(***************************************************************************)
ReturnCallback ==
  LET s == Reloop(Op(Top) = "update_or_create_callback" /\ Top.tmp = Top.val) IN
  /\ At_(Endish)
  /\ Op(Top) \in CallbackOps
  /\ acc' = Logged(Top)
  /\ \/ /\ "nop" \in call.effects
        /\ LeaveFrom(s, Count(1))
        /\ UNCHANGED <<heap, exc>>
     \/ /\ "set" \in call.effects
        /\ CanAppend(be, heap, Top.ctx, Top.ci)
        /\ heap' = AppendAt(heap, Top.ctx, Top.ci, call.upd, Pinned)
        /\ LeaveFrom(s, Count(1))
        /\ UNCHANGED exc
     \/ /\ "raise" \in call.effects
        /\ be = "python"
        /\ LeaveFrom(s, Count(-1))
        /\ exc' = TRUE
        /\ UNCHANGED heap
  /\ UNCHANGED call

--------------------------------------------------------------------------------
(***************************************************************************)
(* ROOT and SWITCH_ROOT.                                                   *)
(***************************************************************************)
AtRoot(f, root) ==
  [f EXCEPT !.tmp = root, !.val = root, !.ctx = NULL, !.pc = f.pc + 1]

\* csonpath_sync_root_obj, csonpath_sync_root_array: cleared, then refilled
SyncRoot ==
  LET cleared == [heap EXCEPT ![call.root].kids = <<>>]
  IN  [cleared EXCEPT ![call.root].kids = cleared[call.upd].kids]

CanSync == \/ IsObj(heap, call.root) /\ IsObj(heap, call.upd)
           \/ IsArray(heap, call.root) /\ IsArray(heap, call.upd)

Root ==
  LET last == Code(Top.pc + 1).inst \in Endish IN
  /\ At_({"ROOT"})
  /\ \/ /\ last /\ Op(Top) = "update_or_create" /\ CanSync
        /\ heap' = SyncRoot
        /\ Leave(Count(1))
        /\ UNCHANGED exc
     \/ /\ last /\ Op(Top) \in CreateOps
        /\ ~(Op(Top) = "update_or_create" /\ CanSync)
        /\ Fail
        /\ UNCHANGED heap
     \/ /\ ~(last /\ Op(Top) \in CreateOps)
        /\ Go(AtRoot(Top, call.root))
        /\ UNCHANGED <<heap, exc>>
  /\ UNCHANGED <<call, acc>>

SwitchRoot ==
  /\ At_({"SWITCH_ROOT"})
  /\ IF Here.num < Len(call.extras)
     THEN Go(AtRoot(Top, call.extras[Here.num + 1])) /\ UNCHANGED exc
     ELSE Fail
  /\ UNCHANGED <<call, heap, acc>>

--------------------------------------------------------------------------------
(***************************************************************************)
(* Getters.  After a miss the operations that create go on from NULL, the  *)
(* others look for an OR (CSONPATH_DO_GET_NOTFOUND).  at is the walker.    *)
(***************************************************************************)
Getter(f, kind, ci, at) ==
  LET pre == PreGet(f, kind, ci)
      v   == Refetch(pre.h, pre.f.tmp, ci)
      g   == [pre.f EXCEPT !.tmp = v, !.pc = at + 1, !.mode = "inst"]
  IN  IF ~pre.ok
      THEN Fail /\ UNCHANGED <<heap, acc>>
      ELSE /\ heap' = pre.h
           /\ Go(CASE v = NULL /\ Op(f) \notin CreateOps -> [g EXCEPT !.mode = "scan"]
                   [] v # NULL /\ Op(f) = "remove"       -> [g EXCEPT !.ci = ci]
                   [] OTHER                              -> g)
           /\ UNCHANGED <<acc, exc>>

GetObj ==
  /\ At_({"GET_OBJ"})
  /\ Getter(Top, "obj", KeyInfo(Here.key), Top.pc)
  /\ UNCHANGED call

GetArray ==
  /\ At_({"GET_ARRAY_SMALL", "GET_ARRAY_BIG"})
  /\ Getter(Top, "arr", IdxInfo(Here.num), Top.pc)
  /\ UNCHANGED call

\* the loop of CSONPATH_DO_GET_NOTFOUND, one instruction at a time
ScanForOr ==
  /\ In("scan")
  /\ CASE Here.inst = "END" -> Leave(None)
       [] Here.inst = "OR"  -> Go([Top EXCEPT !.mode = "inst", !.pc = Top.pc + 1])
       [] Lost(Here)        -> Crash
       [] OTHER             -> Go([Top EXCEPT !.pc = NextInst(prog, Top.pc)])
  /\ UNCHANGED call /\ UNCHANGED Data

GetSubpath ==
  /\ At_({"GET_SUBPATH"})
  /\ Enter([Top EXCEPT !.mode = "subpath", !.sent = Top.pc],
           NewFrame(Top.pc + 1, call.root, NULL, NoInfo, Depth))
  /\ UNCHANGED call /\ UNCHANGED Data

AfterSubpath ==
  LET jret == ret.val IN
  /\ In("subpath")
  /\ \/ /\ IsNum(be, heap, jret)
        /\ Getter(Top, "arr", IdxInfo(heap[jret].num), Top.sent)
     \/ /\ IsStr(heap, jret)
        /\ Getter(Top, "obj", KeyInfo(heap[jret].str), Top.sent)
     \/ /\ ~IsNum(be, heap, jret) /\ ~IsStr(heap, jret)
        /\ Fail
        /\ UNCHANGED <<heap, acc>>
  /\ UNCHANGED call

TypeCheck ==
  LET ok == CASE Here.key = "string"  -> IsStr(heap, Top.tmp)
              [] Here.key = "integer" -> IsNum(be, heap, Top.tmp)
              [] OTHER                -> IsNull(heap, Top.tmp)
  IN  /\ At_({"TYPECHECK"})
      /\ IF ok THEN Go([Top EXCEPT !.pc = Top.pc + 1]) ELSE Leave(None)
      /\ UNCHANGED call /\ UNCHANGED Data

\* the default case of the switch
Unimplemented ==
  /\ In("inst")
  /\ Here.inst \notin Executable \cup Endish
  /\ Fail
  /\ UNCHANGED <<call, heap, acc>>

--------------------------------------------------------------------------------
(***************************************************************************)
(* Loops.  A frame in mode "all", "range", "dot" or "filter" is about to   *)
(* look at entry i of tmp; n is the length captured when the loop started, *)
(* which bounds the walk of an array but not that of an object.            *)
(***************************************************************************)
More(f) == f.i < IF IsArray(heap, f.tmp) THEN f.n
                 ELSE IF IsObj(heap, f.tmp) THEN Size(heap, f.tmp) ELSE 0

\* The entry that is at hand at index i.  csonpath_do.h:326 moves the index
\* to where a range begins, ow; yyjson_arr_foreach moves its element by one a
\* turn, whatever the index is, and stays ow - 1 entries behind.
EntryAt(f) ==
  IF be = "yyjson" /\ f.mode = "range" /\ f.ow \in 1..f.i THEN f.i - f.ow + 1 ELSE f.i

Element(f) == Fetch(be, heap, f.tmp, EntryAt(f))

\* the recursive call of a loop, made at walker pc on the current element
Visit(f, mode, pc) ==
  LET ci == CurrentInfo(f) IN
  Enter([f EXCEPT !.mode = mode, !.ci = ci, !.rl = FALSE, !.el = Element(f)],
        LoopChild(f, Element(f), pc, ci))

BugNextEntry(f, loop) == [f EXCEPT !.mode = loop]         \* the same entry again
NextEntry(f, loop) == [f EXCEPT !.mode = loop, !.i = f.i + 1]

\* what the loop does with the result of that call
AfterVisit(macro, loop, next) ==
  LET v == Verdict(Top, ret, macro)
      f == [Top EXCEPT !.nb  = Counted(Top, ret),
                       !.end = IF macro = "RANGE" /\ Op(Top) = "remove"
                               THEN Top.end - 1 ELSE Top.end]
  IN  CASE v = "leave" -> LeaveAt(f.pc, IF macro = "FILTER" THEN f.ow ELSE f.pc, ret)
        [] v = "again" -> Go(Start(f, loop))
        [] OTHER       -> Go(IF next = loop THEN NextEntry(f, loop)
                                            ELSE [f EXCEPT !.mode = next])

\* CSONPATH_DO_FIND_ALL_PRE_LOOP, CSONPATH_DO_FILTER_PRE_LOOP
PreLoop(f, kind, loop) ==
  LET e == IF Op(f) = "update_or_create" THEN CheckExist(f, kind)
           ELSE [ok |-> TRUE, h |-> heap, f |-> f]
  IN  /\ heap' = e.h
      /\ IF ~e.ok THEN Fail
         ELSE Go(Start(e.f, loop)) /\ UNCHANGED exc
      /\ UNCHANGED <<call, acc>>

GetAll ==
  /\ At_({"GET_ALL"})
  /\ PreLoop(Top, GuessContainer(Top.pc), "all")

AllElement ==
  /\ In("all")
  /\ IF ~More(Top) THEN Out(Top) /\ UNCHANGED exc
     ELSE IF Element(Top) = BAD THEN Out(Top) /\ exc' = TRUE
     ELSE Visit(Top, "all_back", Top.pc + 1) /\ UNCHANGED exc
  /\ UNCHANGED <<call, heap, acc>>

AllBack ==
  /\ In("all_back")
  /\ AfterVisit("ALL", "all", "all")
  /\ UNCHANGED call /\ UNCHANGED Data

(***************************************************************************)
(* RANGE.  The walker moves past the two numbers.  An end of 0 is made -1, *)
(* the largest unsigned.                                                   *)
(***************************************************************************)
Unbounded == 2147483647

GetRange ==
  LET beg == Code(Top.pc + 1).num
      end == Code(Top.pc + 2).num
  IN  /\ At_({"RANGE"})
      /\ IF ~IsArray(heap, Top.tmp) THEN Leave(None)
         ELSE Go([Start(Top, "range") EXCEPT
                    !.pc = Top.pc + 3, !.end = IF end = 0 THEN Unbounded ELSE end,
                    !.ow = beg])
      /\ UNCHANGED call /\ UNCHANGED Data

RangeElement ==
  LET f == [Top EXCEPT !.i = IF Top.i < Top.ow THEN Top.ow ELSE Top.i] IN
  /\ In("range")
  /\ IF ~More(f) \/ f.i >= f.end THEN Out(f)
     ELSE IF Element(f) = BAD THEN Crash
     ELSE Visit(f, "range_back", f.pc)
  /\ UNCHANGED call /\ UNCHANGED Data

RangeBack ==
  /\ In("range_back")
  /\ AfterVisit("RANGE", "range", "range")
  /\ UNCHANGED call /\ UNCHANGED Data

--------------------------------------------------------------------------------
(***************************************************************************)
(* FIND_ALL: the frame goes on as csonpath_<op>_dotdot, which calls the    *)
(* rest of the path on the entries that match, and itself on the entries   *)
(* that are containers.                                                    *)
(***************************************************************************)
FindAll ==
  /\ At_({"FIND_ALL"})
  /\ IF IsContainer(heap, Top.tmp)
     THEN Go(Start([Top EXCEPT !.fn = "dotdot"], "dot"))
     ELSE Leave(None)
  /\ UNCHANGED call /\ UNCHANGED Data

DotMatches(f) ==
  \/ Here.key = Wildcard
  \/ IsObj(heap, f.tmp) /\ heap[f.tmp].kids[f.i + 1].key = Here.key

DotElement ==
  LET f == [Top EXCEPT !.ci = CurrentInfo(Top), !.rl = FALSE, !.el = Element(Top)] IN
  /\ In("dot")
  /\ CASE ~More(Top) -> Out(Top)
       [] More(Top) /\ (Element(Top) = BAD \/ Op(Top) = "update_or_create_callback")
            -> Crash            \* the latter: child_info is a null pointer
       [] OTHER ->
            IF DotMatches(Top) THEN Visit(Top, "dot_back", Top.pc + 1)
                               ELSE Go([f EXCEPT !.mode = "descend"])
  /\ UNCHANGED call /\ UNCHANGED Data

DotBack ==
  /\ In("dot_back")
  /\ AfterVisit("ALL", "dot", "descend")
  /\ UNCHANGED call /\ UNCHANGED Data

\* The type test of el reads a value the call may have released.
Descend ==
  LET el == IF Op(Top) \in CreateOps THEN Refetch(heap, Top.tmp, Top.ci) ELSE Top.el
      f  == [Top EXCEPT !.el = el]
  IN  /\ In("descend")
      /\ CASE IsKind(heap, el, "freed") -> Crash
           [] IsContainer(heap, el) ->
                Enter([f EXCEPT !.mode = "dot_return"],
                      Start([LoopChild(f, el, f.pc, f.ci) EXCEPT !.fn = "dotdot"], "dot"))
           [] OTHER -> Go(NextEntry(f, "dot"))
      /\ UNCHANGED call /\ UNCHANGED Data

DotReturn ==
  /\ In("dot_return")
  /\ AfterVisit("ALL", "dot", "dot")
  /\ UNCHANGED call /\ UNCHANGED Data

--------------------------------------------------------------------------------
(***************************************************************************)
(* FILTER_KEY_*.  For every object of the array: crawl the getters of the  *)
(* filter, compare, and on a match go on after the operand: with the next  *)
(* clause after FILTER_AND, with the rest of the path otherwise.           *)
(***************************************************************************)
Filter ==
  /\ At_(FilterOps)
  /\ PreLoop(Top, "obj", "filter")

\* One clause starts: the operator at op, its getters after LEN.  The length
\* is read as an unsigned char for the first clause, and as a plain (signed)
\* char after FILTER_AND, where one above 127 is negative: no getter is run.
StartClause(f, el, op) ==
  LET len == Code(op + 1) IN
  [f EXCEPT !.mode = "crawl", !.opn = Code(op).inst, !.ow = op + 2,
            !.cnt = IF op # f.pc /\ len.num > 127 THEN 0 ELSE len.cnt,
            !.el = el, !.el2 = el,
            !.ci = IF Op(f) = "remove" THEN IdxInfo(f.i) ELSE f.ci]

FilterElement ==
  /\ In("filter")
  /\ CASE ~IsArray(heap, Top.tmp) \/ ~More(Top) -> Out(Top)
       [] IsArray(heap, Top.tmp) /\ More(Top) /\ Element(Top) = BAD -> Crash
       [] OTHER -> Go(IF IsObj(heap, Element(Top)) THEN StartClause(Top, Element(Top), Top.pc)
                                                   ELSE NextEntry(Top, "filter"))
  /\ UNCHANGED call /\ UNCHANGED Data

\* csonpath_crawl_filter_el
Crawl ==
  /\ In("crawl")
  /\ Go(IF Top.cnt = 0 THEN [Top EXCEPT !.mode = "match"]
        ELSE [Top EXCEPT !.el2 = Get(heap, Top.el2, Code(Top.ow).key),
                         !.ow = Top.ow + 1, !.cnt = Top.cnt - 1])
  /\ UNCHANGED call /\ UNCHANGED Data

\* a op b on integers: on numbers, or on the ranks of two strings
Holds(op, a, b) ==
  CASE op = "FILTER_KEY_EQ"          -> a = b
    [] op = "FILTER_KEY_NOT_EQ"      -> a # b
    [] op = "FILTER_KEY_SUPERIOR"    -> a > b
    [] op = "FILTER_KEY_SUPERIOR_EQ" -> a >= b
    [] op = "FILTER_KEY_INFERIOR"    -> a < b
    [] op = "FILTER_KEY_INFERIOR_EQ" -> a <= b
    [] OTHER                         -> FALSE

\* csonpath_do_match, against the constant operand o
Equals(el2, o) ==
  CASE o.inst = "FILTER_KEY_TRUE"  -> IsBool(heap, el2) /\ heap[el2].num = 1
    [] o.inst = "FILTER_KEY_FALSE" -> IsBool(heap, el2) /\ heap[el2].num = 0
    [] o.inst = "FILTER_KEY_EXIST" -> IsNull(heap, el2)
    [] o.inst = "GET_OBJ"          -> IsStr(heap, el2) /\ heap[el2].str = o.key
    [] OTHER                       -> IsNum(be, heap, el2) /\ heap[el2].num = o.num

\* csonpath_int_from_walker gives -1 for an operand that is not a number
IntOperand(o) == IF o.inst \in {"GET_ARRAY_SMALL", "GET_ARRAY_BIG"} THEN o.num ELSE -1

\* "=~" takes the byte behind its operand for the index of the regex.  Behind
\* null, true and false, which the compiler lets through, it is an opcode.
RegexIsOpcode(op, ow) ==
  op = "FILTER_KEY_REG_EQ" /\ Code(ow).inst \in ConstOperands \ Getters
ConstantAt(op, ow) ==
  IF RegexIsOpcode(op, ow) THEN [Code(ow) EXCEPT !.num = Byte(Code(ow + 1).inst)]
                           ELSE Code(ow)

\* csonpath_make_match with a constant operand
MatchConstant(op, el2, o) ==
  CASE op = "FILTER_KEY_EXIST"  -> el2 # NULL
    [] op = "FILTER_KEY_EQ"     -> Equals(el2, o)
    [] op = "FILTER_KEY_NOT_EQ" -> ~Equals(el2, o)
    [] op = "FILTER_KEY_REG_EQ" ->
         IsStr(heap, el2) /\ o.num < Len(call.regexs)
                          /\ heap[el2].str \in call.regexs[o.num + 1]
    [] OTHER ->
         IF o.inst = "GET_OBJ"
         THEN IsStr(heap, el2) /\ Holds(op, Rank[heap[el2].str], Rank[o.key])
         ELSE IsNum(be, heap, el2) /\ Holds(op, heap[el2].num, IntOperand(o))

\* csonpath_make_match with the result of a subpath
MatchValue(op, el2, jret) ==
  \/ /\ IsNum(be, heap, el2) /\ IsNum(be, heap, jret)
     /\ Holds(op, heap[el2].num, heap[jret].num)
  \/ /\ IsStr(heap, el2) /\ IsStr(heap, jret)
     /\ Holds(op, Rank[heap[el2].str], Rank[heap[jret].str])

BugJudge(ow, match) ==                    \* only the first clause counts
  IF ~match THEN Go(NextEntry(Top, "filter"))
  ELSE LET f == [Top EXCEPT !.ow = ow, !.mode = "filter_back", !.rl = FALSE]
       IN  Enter(f, LoopChild(f, f.el, ow, IdxInfo(f.i)))

\* after the comparison, owalker is at ow
Judge(ow, match) ==
  IF ~match THEN Go(NextEntry(Top, "filter"))
  ELSE IF Code(ow).inst = "FILTER_AND" THEN Go(StartClause(Top, Top.el, ow + 1))
  ELSE LET f == [Top EXCEPT !.ow = ow, !.mode = "filter_back", !.rl = FALSE]
       IN  Enter(f, LoopChild(f, f.el, ow, IdxInfo(f.i)))

Match ==
  LET o     == ConstantAt(Top.opn, Top.ow)
      match == MatchConstant(Top.opn, Top.el2, o)
  IN
  /\ In("match")
  /\ CASE Top.opn = "FILTER_KEY_EXIST" -> Judge(Top.ow, match)
       [] Top.opn # "FILTER_KEY_EXIST" /\ o.inst = "GET_SUBPATH" ->
            Enter([Top EXCEPT !.mode = "operand", !.sent = Top.ow],
                  NewFrame(Top.ow + 1, call.root, NULL, NoInfo, Depth))
       [] OTHER ->
            IF ~RegexIsOpcode(Top.opn, Top.ow) THEN Judge(Top.ow + 1, match)
            ELSE IF match /\ Code(Top.ow + 1).inst \notin Bytewide
            THEN Crash                      \* the walk goes on inside that cell
            ELSE Judge(Top.ow + 2, match)
  /\ UNCHANGED call /\ UNCHANGED Data

AfterOperand ==
  /\ In("operand")
  /\ Judge(Top.sent + 1, MatchValue(Top.opn, Top.el2, ret.val))
  /\ UNCHANGED call /\ UNCHANGED Data

FilterBack ==
  /\ In("filter_back")
  /\ AfterVisit("FILTER", "filter", "filter")
  /\ UNCHANGED call /\ UNCHANGED Data

--------------------------------------------------------------------------------
(***************************************************************************)
(* GET_UNION.  Each member is called with the rest of the program; it ends *)
(* with a UNION_JMP (or the UNION_END) that takes it past the others.      *)
(***************************************************************************)
BugMember(pc) ==                          \* a member is given its own end_sentinel
  Enter([Top EXCEPT !.mode = "union", !.pc = pc, !.cnt = 0, !.rl = FALSE],
        NewFrame(pc, Top.tmp, NULL, InfoSet(heap, Top.tmp, NoKey, 0), Depth))

Member(pc) ==
  LET ci == IF Op(Top) = "remove" THEN Top.ci
            ELSE InfoSet(heap, Top.tmp, NoKey, 0)
  IN  Enter([Top EXCEPT !.mode = "union", !.pc = pc, !.cnt = 0, !.rl = FALSE],
            NewFrame(pc, Top.tmp, NULL, ci, Top.own))

GetUnion ==
  /\ At_({"GET_UNION"})
  /\ Member(Top.pc + 1)
  /\ UNCHANGED call /\ UNCHANGED Data

AfterMember ==
  /\ In("union")
  /\ AfterVisit("UNION", "union", "member")
  /\ UNCHANGED call /\ UNCHANGED Data

\* the inner loop of GET_UNION, one instruction at a time
NextMember ==
  LET q == NextInst(prog, Top.pc)
      f == [Top EXCEPT !.pc = q]
  IN  /\ In("member")
      /\ CASE Lost(Here) -> Crash
           [] ~Lost(Here) /\ Code(q).inst = "GET_UNION" -> Go([f EXCEPT !.cnt = Top.cnt + 1])
           [] ~Lost(Here) /\ Code(q).inst = "UNION_JMP" /\ Top.cnt = 0 -> Member(q + 1)
           [] ~Lost(Here) /\ Code(q).inst = "UNION_END" ->
                IF Top.cnt = 0 THEN Out(f) ELSE Go([f EXCEPT !.cnt = Top.cnt - 1])
           [] OTHER -> Go(f)
      /\ UNCHANGED call /\ UNCHANGED Data

UnionJmp ==
  /\ At_({"UNION_JMP"})
  /\ Go([Top EXCEPT !.mode = "skip", !.cnt = 0])
  /\ UNCHANGED call /\ UNCHANGED Data

\* csonpath_skipp_union_jmp, one instruction at a time
SkipUnion ==
  LET q    == NextInst(prog, Top.pc)
      done == Top.cnt = 0 /\ Here.inst = "UNION_END"
  IN  /\ In("skip")
      /\ CASE done -> Go([Top EXCEPT !.mode = "inst", !.pc = Top.pc + 1])
           [] ~done /\ Lost(Here) -> Crash
           [] ~done /\ ~Lost(Here) /\ Code(q).inst = "GET_UNION" ->
                Go([Top EXCEPT !.pc = q, !.cnt = Top.cnt + 1])
           [] ~done /\ ~Lost(Here) /\ Code(q).inst = "UNION_END" /\ Top.cnt > 0 ->
                Go([Top EXCEPT !.pc = q + 1, !.cnt = Top.cnt - 1])
           [] OTHER -> Go([Top EXCEPT !.pc = q])
      /\ UNCHANGED call /\ UNCHANGED Data

UnionEnd ==
  /\ At_({"UNION_END"})
  /\ Go([Top EXCEPT !.pc = Top.pc + 1])
  /\ UNCHANGED call /\ UNCHANGED Data

--------------------------------------------------------------------------------
(***************************************************************************)
(* The whole call.                                                         *)
(***************************************************************************)
Init ==
  /\ call \in Calls
  /\ heap = call.doc
  /\ stack = <<>>
  /\ ret = None
  /\ acc = <<>>
  /\ exc = FALSE
  /\ status = "call"

\* csonpath_<op>: a path that did not compile is an error
Begin ==
  /\ status = "call"
  /\ IF Code(1).inst = "BROKEN"
     THEN /\ ret' = ErrorOf(call.op) /\ exc' = TRUE /\ status' = "done"
          /\ UNCHANGED stack
     ELSE /\ stack' = <<NewFrame(1, call.root, NULL, NoInfo, 0)>>
          /\ status' = "run"
          /\ UNCHANGED <<ret, exc>>
  /\ UNCHANGED <<call, heap, acc>>

Return  == ReturnFound \/ ReturnRemove \/ ReturnUpdate \/ ReturnCallback
Getting == GetObj \/ GetArray \/ ScanForOr \/ GetSubpath \/ AfterSubpath
Looping == \/ GetAll \/ AllElement \/ AllBack
           \/ GetRange \/ RangeElement \/ RangeBack
           \/ FindAll \/ DotElement \/ DotBack \/ Descend \/ DotReturn
Filtering == \/ Filter \/ FilterElement \/ Crawl \/ Match
             \/ AfterOperand \/ FilterBack
Union   == GetUnion \/ AfterMember \/ NextMember \/ UnionJmp \/ SkipUnion \/ UnionEnd

Finished == status \in {"done", "crash"} /\ UNCHANGED vars

Next ==
  \/ Begin \/ Return \/ Root \/ SwitchRoot \/ TypeCheck \/ Unimplemented
  \/ Getting \/ Looping \/ Filtering \/ Union
  \/ Finished

(***************************************************************************)
(* The calling thread keeps executing: nothing else takes part in a call.  *)
(***************************************************************************)
Spec == Init /\ [][Next]_vars /\ WF_vars(Next)

--------------------------------------------------------------------------------
(***************************************************************************)
(* Types.                                                                  *)
(***************************************************************************)

\* A frame that waits for a call, and one that has something to execute.
SubpathModes == {"subpath", "operand"}
WaitingModes == SubpathModes \cup
                {"all_back", "range_back", "dot_back", "dot_return",
                 "filter_back", "union"}
ActiveModes  == {"inst", "scan", "skip", "member", "all", "range", "dot",
                 "descend", "filter", "crawl", "match"}

Frame == [fn : {"internal", "dotdot"}, mode : WaitingModes \cup ActiveModes,
          pc : Nat, tmp : ValueSet, val : ValueSet, ctx : ValueSet,
          inctx : ValueSet, ci : ChildInfo, own : Nat, sent : Nat,
          i : Nat, n : Nat, end : Int, el : ValueSet, ow : Nat,
          opn : Opcodes, el2 : ValueSet, cnt : Int,
          nb : Int, rl : BOOLEAN]
Result == [val : ValueSet, int : Int]
Given  == [ctx : ValueSet, ci : ChildInfo, v : ValueSet]

\* Every variable has its type, and a call in progress has a frame.
TypeOK ==
  /\ heap \in Heap
  /\ stack \in Seq(Frame) /\ Depth <= MaxDepth
  /\ ret \in Result
  /\ acc \in Seq(Given)
  /\ exc \in BOOLEAN
  /\ status \in {"call", "run", "done", "crash"}
  /\ status = "run" <=> stack # <<>> /\ status # "crash"

--------------------------------------------------------------------------------
(***************************************************************************)
(* What the call discipline must guarantee.                                *)
(***************************************************************************)

\* Only the innermost frame executes; every other waits for the call above
\* it.  A subpath's frames point at the end_sentinel of a frame that waits
\* for just that subpath: csonpath_do_internal writes through the pointer
\* each time it returns, so it must never outlive the variable.
SentinelOwnerWaits ==
  \A d \in DOMAIN stack :
    /\ d < Depth => stack[d].mode \in WaitingModes
    /\ stack[d].own > 0 =>
         /\ stack[d].own < d
         /\ stack[stack[d].own].mode \in SubpathModes

\* find_first and find_all leave the document as it is, and so does whatever
\* runs under a subpath, even when the operation around it removes or writes.
FindsDoNotWrite ==
  [][(call.op \in FindOps \/ (status = "run" /\ Top.own > 0)) => heap' = heap]_vars

\* The container a loop walks stays alive while its body removes, replaces or
\* calls back: the loop goes on reading it afterwards.
LoopModes == {"all", "all_back", "range", "range_back", "dot", "dot_back", "descend",
              "dot_return", "filter", "crawl", "match", "operand", "filter_back"}
LoopsStayAlive ==
  status = "run" =>
    \A d \in DOMAIN stack :
      stack[d].mode \in LoopModes => ~IsKind(heap, stack[d].tmp, "freed")

\* A loop that is started over (goto again, range_again, filter_again) is one
\* whose container has fewer entries than when it started, which is why it
\* does not start over for ever.
LoopMacro(mode) == CASE mode = "filter_back" -> "FILTER"
                     [] mode = "range_back"  -> "RANGE"
                     [] mode = "union"       -> "UNION"
                     [] OTHER                -> "ALL"
RestartAfterLoss ==
  /\ status = "run"
  /\ Top.mode \in {"all_back", "range_back", "dot_back", "dot_return", "filter_back"}
  /\ Verdict(Top, ret, LoopMacro(Top.mode)) = "again"
  => Size(heap, Top.tmp) < Top.n

\* When the end of the path is reached, child_info designates, in the
\* container the walk came from, the very value the walk is at: what is then
\* removed, replaced or handed to the callback is the match.
InfoDesignatesMatch ==
  At_(Endish) /\ Op(Top) \notin FindOps /\ Top.ctx # NULL /\ Top.tmp # NULL =>
    Refetch(heap, Top.ctx, Top.ci) = Top.tmp

\* An error met anywhere below reaches the caller of the API as -1.
ErrorsReachTheCaller ==
  status = "done" /\ call.op \notin FindOps => (exc <=> ret.int < 0)

\* A call touches no value that has been released and no null pointer, never
\* loses its way in the program, and does not recurse without end.
NoCrash == status # "crash"

================================================================================
