-------------------------- MODULE CsonpathErrors_proofs -------------------------
(***************************************************************************)
(* Errors: for every program in which nothing stands between an error and  *)
(* its caller that drops it, an error reaches the caller of the API.       *)
(***************************************************************************)
EXTENDS CsonpathDo_proofs

(***************************************************************************)
(* Where the engine drops errors, as the runs show: in the sub-path that   *)
(* is a filter's operand, whose failure is a comparison that does not      *)
(* hold; in a loop of a sub-path, where find_first goes on; and in a       *)
(* filter of update_or_create, whose macro does not look for one.          *)
(*                                                                         *)
(* S is a set with the instructions of the sub-paths: it has what follows  *)
(* a GET_SUBPATH, up to the END; with sub-paths in sub-paths, what follows *)
(* that END too.                                                           *)
(***************************************************************************)
Branching == FilterOps \cup {"GET_ALL", "RANGE", "FIND_ALL", "GET_UNION", "UNION_JMP", "LEN"}
StraightSubpaths(S) ==
  /\ \A pc \in Nat : Code(pc).inst = "GET_SUBPATH" => pc + 1 \in S
  /\ \A pc \in S : Code(pc).inst \notin Branching
  /\ \A pc \in S :
       Code(pc).inst # "END" \/ (\E q \in S : Code(q).inst = "GET_SUBPATH") => pc + 1 \in S

\* The clauses of the filters have constant operands.
IsClause(q) == Code(q).inst \in FilterOps \/ (q > 1 /\ Code(q - 1).inst = "FILTER_AND")
ConstantOperands ==
  \A q \in Nat : IsClause(q) =>
    /\ Code(q + 2 + Code(q + 1).cnt).inst # "GET_SUBPATH"
    /\ Code(q + 1).num > 127 => Code(q + 2).inst # "GET_SUBPATH"

\* An update meets no filter, and replaces the root at the start or never.
NoUpdateFilter == \A pc \in Nat : Code(pc).inst \notin FilterOps
RootStaysPut   == \A pc \in Nat \ {0, 1} :
                    ~(Code(pc).inst = "ROOT" /\ Code(pc + 1).inst \in Endish)

ErrorsKept(S) ==
  /\ call.op \in CreateOps \cup {"callback"}
  /\ StraightSubpaths(S)
  /\ ConstantOperands
  /\ call.op = "update_or_create" => NoUpdateFilter /\ RootStaysPut

(***************************************************************************)
(* What is known of a frame, when the document is h.                       *)
(***************************************************************************)
FilterModes == {"filter", "crawl", "match", "filter_back"}
FrameKept(S, h, f) ==
  /\ f.own > 0 => /\ f.mode \in {"inst", "scan", "subpath"} /\ f.pc \in S
                  /\ f.mode = "subpath" => f.sent \in S /\ Code(f.pc).inst = "GET_SUBPATH"
  /\ f.nb >= 0
  /\ f.mode # "operand"
  /\ f.mode \in FilterModes => Code(f.pc).inst \in FilterOps
  /\ f.mode \in {"crawl", "match"} =>
       f.cnt >= 0 /\ (f.opn # "FILTER_KEY_EXIST" => Code(f.ow + f.cnt).inst # "GET_SUBPATH")
  /\ f.mode = "match" => f.cnt = 0
  /\ f.mode \in {"all", "all_back"} /\ f.tmp \in Nodes => f.n <= Size(h, f.tmp)

\* An error has been reported if and only if the caller is being told.
CallerTold ==
  /\ exc => Top.mode \in WaitingModes
  /\ Top.mode = "subpath" => (exc => ret.val = NULL)
  /\ Top.mode \in WaitingModes \ {"subpath"} => (exc <=> ret.int < 0)

FreeIsEmpty(h) == \A n \in Nodes : h[n].kind = "free" => h[n].kids = <<>>

ErrorOK(S) ==
  /\ FreeIsEmpty(heap)
  /\ \A d \in 1..Depth : FrameKept(S, heap, stack[d])
  /\ CallerTold

\* The bare path of an update: "$".
BareUpdate == call.op = "update_or_create" /\ Code(1).inst = "ROOT" /\ Code(2).inst \in Endish

ErrorStep(S) ==
  /\ status = "run" /\ ~BareUpdate => ErrorOK(S)
  /\ status = "run" /\ BareUpdate =>
       exc = FALSE /\ stack = <<NewFrame(1, call.root, NULL, NoInfo, 0)>>
  /\ status = "done" => (exc <=> ret.int < 0)
ErrorInv == \A S \in SUBSET Nat : ErrorsKept(S) => ErrorStep(S)

--------------------------------------------------------------------------------
(***************************************************************************)
(* What creates and replaces takes no entry away, and fills no node that   *)
(* has not been allocated.                                                 *)
(***************************************************************************)
Grows(h, g) == \A n \in Nodes : Size(h, n) <= Size(g, n)

LEMMA GrowsUpdate ==
  ASSUME NEW h \in Heap, FreeIsEmpty(h), NEW n \in Nodes, NEW kids \in Seq(Entry),
         Size(h, n) <= Len(kids), h[n].kind # "free"
  PROVE  LET g == [h EXCEPT ![n].kids = kids] IN Grows(h, g) /\ FreeIsEmpty(g)
<1> DEFINE g == [h EXCEPT ![n].kids = kids]
<1>1. \A m \in Nodes : g[m].kind = h[m].kind
                       /\ g[m].kids = IF m = n THEN kids ELSE h[m].kids
  BY DEF Heap, Node
<1>2. \A m \in Nodes : Size(h, m) \in Nat
  BY KidsType
<1> HIDE DEF g
<1>3. Grows(h, g)
  BY <1>1, <1>2 DEF Grows, Size
<1>4. FreeIsEmpty(g)
  BY <1>1 DEF FreeIsEmpty
<1> QED
  BY <1>3, <1>4 DEF g

LEMMA GrowsRelease ==
  ASSUME NEW h \in Heap, FreeIsEmpty(h), NEW n, NEW pinned
  PROVE  Grows(h, Release(h, n, pinned)) /\ FreeIsEmpty(Release(h, n, pinned))
<1> DEFINE g == Release(h, n, pinned)
<1>1. \A m \in Nodes : g[m].kids = h[m].kids
                       /\ (g[m].kind = h[m].kind \/ g[m].kind = "freed")
  BY ReleaseEffect
<1>2. \A m \in Nodes : Size(h, m) \in Nat
  BY KidsType
<1> HIDE DEF g
<1>3. Grows(h, g) /\ FreeIsEmpty(g)
  BY <1>1, <1>2 DEF Grows, Size, FreeIsEmpty
<1> QED
  BY <1>3 DEF g

LEMMA GrowsSelf ==
  ASSUME NEW h \in Heap
  PROVE  Grows(h, h)
<1>1. \A n \in Nodes : Size(h, n) \in Nat
  BY KidsType
<1> QED
  BY <1>1 DEF Grows

LEMMA GrowsTrans ==
  ASSUME NEW h1 \in Heap, NEW h2 \in Heap, NEW h3 \in Heap, Grows(h1, h2), Grows(h2, h3)
  PROVE  Grows(h1, h3)
<1>1. \A n \in Nodes : Size(h1, n) \in Nat /\ Size(h2, n) \in Nat /\ Size(h3, n) \in Nat
  BY KidsType
<1> QED
  BY <1>1 DEF Grows

LEMMA GrowsAllocate ==
  ASSUME NEW h \in Heap, FreeIsEmpty(h), NEW kind \in Kinds, FreeNodes(h) # {}
  PROVE  Grows(h, Allocate(h, kind)) /\ FreeIsEmpty(Allocate(h, kind))
<1> DEFINE n == NewNode(h)
           g == [h EXCEPT ![n] = Blank(kind)]
<1>1. n \in Nodes /\ h[n].kind = "free"
  BY DEF NewNode, FreeNodes
<1>2. h[n].kids = <<>>
  BY <1>1 DEF FreeIsEmpty
<1> HIDE DEF n
<1>3. \A m \in Nodes : g[m] = IF m = n THEN Blank(kind) ELSE h[m]
  BY <1>1 DEF Heap
<1>4. Blank(kind).kids = <<>>
  BY DEF Blank
<1>5. \A m \in Nodes : Size(h, m) \in Nat
  BY KidsType
<1> HIDE DEF g
<1>6. \A m \in Nodes : g[m].kids = h[m].kids
  BY <1>2, <1>3, <1>4
<1>7. Grows(h, g)
  BY <1>5, <1>6 DEF Grows, Size
<1>8. FreeIsEmpty(g)
  BY <1>3, <1>4 DEF FreeIsEmpty
<1> QED
  BY <1>7, <1>8 DEF g, n, Allocate

\* CSONPATH_APPEND_AT, where it succeeds.
LEMMA GrowsAppendAt ==
  ASSUME NEW h \in Heap, FreeIsEmpty(h), NEW n \in Nodes, NEW ci \in ChildInfo,
         NEW v \in ValueSet, NEW pinned, h[n].kind # "free"
  PROVE  /\ Grows(h, AppendAt(h, n, ci, v, pinned))
         /\ FreeIsEmpty(AppendAt(h, n, ci, v, pinned))
<1> DEFINE kids == h[n].kids
           hit  == KeyIndex(h, n, ci.key)
           i    == IF ci.type = "STR"
                   THEN IF hit # {} THEN CHOOSE j \in hit : TRUE ELSE Len(kids) + 1
                   ELSE ci.idx + 1
           new  == IF i \in DOMAIN kids THEN [kids EXCEPT ![i].at = v]
                   ELSE IF ci.type = "STR" THEN Append(kids, [key |-> ci.key, at |-> v])
                   ELSE [Padded(kids, ci.idx) EXCEPT ![i].at = v]
           old  == IF i \in DOMAIN kids THEN kids[i].at ELSE NULL
<1>1. CASE i > 0
  <2>1. kids \in Seq(Entry) /\ Len(kids) \in Nat /\ DOMAIN kids = 1..Len(kids)
    BY KidsType
  <2>2. [key |-> ci.key, at |-> v] \in Entry /\ ci.idx \in Int
    BY DEF ChildInfo, Entry
  <2>3. AppendAt(h, n, ci, v, Nodes) = [h EXCEPT ![n].kids = new]
    BY <1>1 DEF AppendAt, Release
  <2>4. AppendAt(h, n, ci, v, Nodes) \in Heap
    BY AppendAtType
  <2>5. new \in Seq(Entry)
    <3>1. [h EXCEPT ![n].kids = new][n].kids = new
      <4> HIDE DEF new
      <4> QED
        BY DEF Heap, Node
    <3> HIDE DEF new
    <3> QED
      BY <2>3, <2>4, <3>1, KidsType
  <2>6. Len(kids) <= Len(new)
    <3>1. CASE i \in DOMAIN kids
      <4> HIDE DEF i, kids
      <4>1. Len([kids EXCEPT ![i].at = v]) = Len(kids)
        BY <2>1, SetAtType
      <4> QED
        BY <2>1, <3>1, <4>1
    <3>2. CASE i \notin DOMAIN kids /\ ci.type = "STR"
      <4> HIDE DEF i, kids
      <4>1. Len(Append(kids, [key |-> ci.key, at |-> v])) = Len(kids) + 1
        BY <2>1, <2>2, AppendProperties
      <4> QED
        BY <2>1, <3>2, <4>1
    <3>3. CASE i \notin DOMAIN kids /\ ci.type # "STR"
      <4>1. i = ci.idx + 1 /\ Len(kids) < i /\ i \in Nat
        BY <1>1, <2>1, <2>2, <3>3
      <4> DEFINE p == Padded(kids, ci.idx)
                 t == [p EXCEPT ![i].at = v]
      <4>2. DOMAIN p = 1..i
        BY <4>1 DEF Padded
      <4>3. DOMAIN t = 1..i
        <5> HIDE DEF p
        <5> QED
          BY <4>2
      <4>4. new = t
        BY <3>3
      <4> HIDE DEF t
      <4>6. Len(t) = i
        BY <2>5, <4>1, <4>3, <4>4, LenProperties
      <4> HIDE DEF i, kids, new
      <4> QED
        BY <2>1, <4>1, <4>4, <4>6
    <3> QED
      BY <3>1, <3>2, <3>3
  <2> DEFINE g == [h EXCEPT ![n].kids = new]
  <2>7. g \in Heap /\ Grows(h, g) /\ FreeIsEmpty(g)
    <3> HIDE DEF new
    <3> QED
      BY <2>3, <2>4, <2>5, <2>6, GrowsUpdate DEF Size
  <2> HIDE DEF g, old
  <2>8. Grows(g, Release(g, old, pinned)) /\ FreeIsEmpty(Release(g, old, pinned))
    BY <2>7, GrowsRelease
  <2>9. Grows(h, Release(g, old, pinned))
    BY <2>7, <2>8, ReleaseType, GrowsTrans
  <2>10. AppendAt(h, n, ci, v, pinned) = Release(g, old, pinned)
    BY <1>1 DEF AppendAt, g, old
  <2> QED
    BY <2>8, <2>9, <2>10
<1>2. CASE ~(i > 0)
  BY <1>2, GrowsSelf DEF AppendAt
<1> QED
  BY <1>1, <1>2

\* CSONPATH_UPDATE_CHECK_EXIST.
LEMMA CheckExistKeeps ==
  ASSUME IInv, FreeIsEmpty(heap), NEW f \in Frame, NEW kind \in Kinds
  PROVE  LET e == CheckExist(f, kind) IN
         /\ Grows(heap, e.h) /\ FreeIsEmpty(e.h)
         /\ e.f.pc = f.pc /\ e.f.own = f.own /\ e.f.nb = f.nb
<1> DEFINE n == NewNode(heap)
           h == Allocate(heap, kind)
           g == [f EXCEPT !.tmp = n, !.ctx = n]
           e == CheckExist(f, kind)
<1>1. heap \in Heap
  BY DEF IInv, TypeOK
<1>2. CASE e.h = heap /\ e.f = f
  BY <1>1, <1>2, GrowsSelf
<1>3. CASE /\ CanAppend(be, heap, f.ctx, f.ci) /\ FreeNodes(heap) # {}
           /\ e.h = AppendAt(h, f.ctx, f.ci, n, Pinned) /\ e.f = g
  <2>1. n \in FreeNodes(heap)
    BY <1>3 DEF NewNode
  <2>2. n \in Nodes /\ h \in Heap /\ n \in ValueSet /\ Grows(heap, h) /\ FreeIsEmpty(h)
    BY <1>1, <1>3, AllocateType, GrowsAllocate DEF ValueSet
  <2>3. f.ctx \in Nodes /\ f.ctx # n /\ heap[f.ctx].kind # "free"
    BY <1>3, <2>1 DEF CanAppend, IsObj, IsArray, IsKind, FreeNodes
  <2>4. h[f.ctx] = heap[f.ctx]
    BY <1>1, <2>3 DEF Allocate, Heap
  <2>5. f.ci \in ChildInfo
    BY FrameFields
  <2> HIDE DEF n, h
  <2> DEFINE k == AppendAt(h, f.ctx, f.ci, n, Pinned)
  <2>6. k \in Heap /\ Grows(h, k) /\ FreeIsEmpty(k)
    BY <2>2, <2>3, <2>4, <2>5, AppendAtType, GrowsAppendAt
  <2>7. Grows(heap, k)
    BY <1>1, <2>2, <2>6, GrowsTrans
  <2>8. g.pc = f.pc /\ g.own = f.own /\ g.nb = f.nb
    BY DEF Frame
  <2> HIDE DEF g, e, k
  <2> QED
    BY <1>3, <2>6, <2>7, <2>8 DEF e, k
<1> QED
  BY <1>2, <1>3 DEF CheckExist

\* CSONPATH_PRE_GET.
LEMMA PreGetKeeps ==
  ASSUME IInv, FreeIsEmpty(heap), NEW f \in Frame, NEW kind \in Kinds, NEW ci
  PROVE  LET pre == PreGet(f, kind, ci) IN
         /\ Grows(heap, pre.h) /\ FreeIsEmpty(pre.h)
         /\ pre.f.nb = f.nb
         /\ Op(f) = "find_first" => pre.ok /\ pre.h = heap
<1> DEFINE g == IF f.tmp # NULL THEN [f EXCEPT !.ctx = f.tmp] ELSE f
           e == CheckExist(g, kind)
           info == InfoSet(heap, g.ctx, ci.key, ci.idx)
           pre == PreGet(f, kind, ci)
           noted == [g EXCEPT !.ci = info]
           made  == [e EXCEPT !.f.ci = ci]
<1>1. heap \in Heap /\ Grows(heap, heap) /\ f.tmp \in ValueSet
  BY FrameFields, GrowsSelf DEF IInv, TypeOK
<1>2. [f EXCEPT !.ctx = f.tmp] \in Frame
  BY <1>1, Zenon DEF Frame
<1>3. g \in Frame /\ g.nb = f.nb
  BY <1>2 DEF Frame
<1>4. pre = CASE Op(f) = "callback" -> [ok |-> TRUE, h |-> heap, f |-> noted]
              [] Op(f) \in CreateOps ->
                   IF f.tmp # NULL /\ ~IsKind(heap, f.tmp, kind)
                   THEN [ok |-> FALSE, h |-> heap, f |-> g]
                   ELSE made
              [] OTHER -> [ok |-> TRUE, h |-> heap, f |-> g]
  BY Zenon DEF PreGet
<1>5. DOMAIN e = {"ok", "h", "f"}
  BY DEF CheckExist
<1>6. Grows(heap, e.h) /\ FreeIsEmpty(e.h) /\ e.f \in Frame /\ e.f.nb = g.nb
  BY <1>3, CheckExistKeeps, CheckExistType DEF Attempt
<1> HIDE DEF g, e, pre, info
<1>7. noted.nb = g.nb
  BY <1>3 DEF Frame
<1>8. made.h = e.h /\ made.f.nb = g.nb
  <2>1. made.h = e.h /\ made.f = [e.f EXCEPT !.ci = ci]
    BY <1>5
  <2>2. [e.f EXCEPT !.ci = ci].nb = e.f.nb
    BY <1>6 DEF Frame
  <2> QED
    BY <1>6, <2>1, <2>2
<1> HIDE DEF noted, made
<1>9. CASE Op(f) = "callback"
  <2>1. pre.h = heap /\ pre.f = noted
    BY <1>4, <1>9 DEF CreateOps
  <2> QED
    BY <1>1, <1>3, <1>7, <1>9, <2>1 DEF pre
<1>10. CASE Op(f) \in CreateOps
  <2>1. Op(f) # "callback" /\ Op(f) # "find_first"
    BY <1>10 DEF CreateOps
  <2>2. pre = [ok |-> FALSE, h |-> heap, f |-> g] \/ pre = made
    BY <1>4, <1>10, <2>1
  <2> QED
    BY <1>1, <1>3, <1>6, <1>8, <2>1, <2>2 DEF pre
<1>11. CASE Op(f) \notin CreateOps \cup {"callback"}
  <2>1. pre = [ok |-> TRUE, h |-> heap, f |-> g]
    BY <1>4, <1>11
  <2> QED
    BY <1>1, <1>3, <2>1 DEF pre
<1> QED
  BY <1>9, <1>10, <1>11

--------------------------------------------------------------------------------
(***************************************************************************)
(* The frame on top goes on, calls, or returns.                            *)
(***************************************************************************)
Keeping(S) ==
  /\ IInv /\ S \in SUBSET Nat /\ ErrorsKept(S) /\ ErrorOK(S)
  /\ status = "run" /\ ~BareUpdate

\* What the steps leave to show of the document.
HeapKept == Grows(heap, heap') /\ FreeIsEmpty(heap')

\* A waiting frame is not concerned by what is written above it.
LEMMA KeptAlike ==
  ASSUME NEW S, NEW h \in Heap, NEW g \in Heap, Grows(h, g), NEW e \in Frame, NEW f,
         FrameKept(S, h, e), Alike(f, e),
         f.own > 0 /\ f.mode = "subpath" => f.sent \in S
  PROVE  FrameKept(S, g, f)
<1>1. e.n \in Nat /\ \A m \in Nodes : Size(h, m) \in Nat /\ Size(g, m) \in Nat
  BY FrameFields, KidsType
<1>2. f.mode \in {"all", "all_back"} /\ f.tmp \in Nodes => f.n <= Size(g, f.tmp)
  BY <1>1 DEF FrameKept, Alike, Grows
<1> QED
  BY <1>2 DEF FrameKept, Alike

LEMMA SameKept ==
  ASSUME NEW S, NEW h \in Heap, NEW g \in Heap, Grows(h, g), NEW f \in Frame,
         FrameKept(S, h, f)
  PROVE  FrameKept(S, g, f)
<1>1. Alike(f, f) /\ (f.own > 0 /\ f.mode = "subpath" => f.sent \in S)
  BY DEF Alike, FrameKept
<1> QED
  BY <1>1, KeptAlike

\* What is known of the frame on top.
LEMMA KeptTop ==
  ASSUME NEW S, Keeping(S)
  PROVE  /\ Top \in Frame /\ FrameKept(S, heap, Top) /\ CallerTold
         /\ Top.own \in Nat /\ Top.pc \in Nat /\ Top.nb \in Nat
         /\ Depth \in Nat \ {0} /\ Depth \in 1..Depth /\ heap \in Heap /\ exc \in BOOLEAN
         /\ FreeIsEmpty(heap)
         /\ call.op \in {"update_or_create", "update_or_create_callback", "callback"}
         /\ Top.own = 0 => Op(Top) = call.op
         /\ Top.own > 0 => Op(Top) = "find_first"
         /\ Top.mode \notin WaitingModes => exc = FALSE
<1>1. Top \in Frame /\ Depth \in Nat \ {0} /\ Depth \in 1..Depth
  BY TopType DEF Keeping
<1>2. FrameKept(S, heap, Top)
  BY <1>1 DEF Keeping, ErrorOK, Top
<1>3. Top.own \in Nat /\ Top.pc \in Nat /\ Top.nb \in Nat
  <2>1. Top.own \in Nat /\ Top.pc \in Nat /\ Top.nb \in Int
    BY <1>1, FrameFields
  <2> QED
    BY <1>2, <2>1 DEF FrameKept
<1>4. heap \in Heap /\ exc \in BOOLEAN
  BY DEF Keeping, IInv, TypeOK
<1> QED
  BY <1>1, <1>2, <1>3, <1>4 DEF Keeping, ErrorOK, ErrorsKept, CreateOps, Op, CallerTold

\* What ErrorInv says of the next state, where the program is the same.
LEMMA KeptNext ==
  ASSUME NEW S, Keeping(S), UNCHANGED call, status' = "run", FreeIsEmpty(heap'), CallerTold',
         \A d \in 1..Depth' : FrameKept(S, heap', stack'[d])
  PROVE  ErrorStep(S)'
<1>1. (\A d \in 1..Depth : FrameKept(S, heap, stack[d]))'
  BY DEF FrameKept, Code, prog
<1>2. ErrorOK(S)'
  BY <1>1 DEF ErrorOK, FreeIsEmpty
<1> QED
  BY <1>2 DEF ErrorStep, Keeping, BareUpdate, Code, prog

LEMMA GoKeeps ==
  ASSUME NEW S, Keeping(S), UNCHANGED call, IInv', HeapKept, exc' = FALSE,
         NEW f, Go(f), f.mode \in ActiveModes, FrameKept(S, heap', f)
  PROVE  ErrorStep(S)'
<1>1. Depth \in Nat \ {0} /\ heap \in Heap /\ heap' \in Heap /\ stack \in Seq(Frame)
  BY KeptTop, TopType DEF Keeping, IInv, TypeOK
<1>2. /\ Depth' = Depth /\ Top' = f /\ status' = "run"
      /\ \A d \in 1..Depth : stack'[d] = IF d = Depth THEN f ELSE stack[d]
  BY GoEffect DEF Keeping
<1>3. ASSUME NEW d \in 1..Depth
      PROVE  FrameKept(S, heap', stack'[d])
  <2>1. stack[d] \in Frame /\ FrameKept(S, heap, stack[d])
    BY <1>1 DEF Keeping, ErrorOK, Depth
  <2>2. FrameKept(S, heap', stack[d])
    BY <1>1, <2>1, SameKept DEF HeapKept
  <2> QED
    BY <1>2, <2>2
<1>4. f.mode \notin WaitingModes
  BY DEF ActiveModes, WaitingModes, SubpathModes
<1>5. f.mode # "subpath"
  BY DEF ActiveModes
<1>6. CallerTold'
  BY <1>2, <1>4, <1>5 DEF CallerTold
<1> QED
  BY <1>2, <1>3, <1>6, KeptNext DEF HeapKept

LEMMA EnterKeeps ==
  ASSUME NEW S, Keeping(S), UNCHANGED call, heap' = heap, exc' = FALSE,
         NEW f \in Frame, NEW callee \in Frame, Enter(f, callee),
         FrameKept(S, heap, f), FrameKept(S, heap, callee), callee.mode \in ActiveModes
  PROVE  ErrorStep(S)'
<1>1. Depth \in Nat \ {0} /\ FreeIsEmpty(heap)
  BY KeptTop
<1>2. CASE status' = "crash"
  BY <1>2 DEF ErrorStep
<1>3. CASE /\ Depth' = Depth + 1 /\ Top' = callee /\ status' = "run"
           /\ \A d \in 1..(Depth + 1) :
                 stack'[d] = IF d = Depth THEN f ELSE IF d = Depth + 1 THEN callee
                                                      ELSE stack[d]
  <2>1. \A d \in 1..(Depth + 1) : FrameKept(S, heap', stack'[d])
    BY <1>1, <1>3 DEF Keeping, ErrorOK
  <2>2. callee.mode \notin WaitingModes /\ callee.mode # "subpath"
    BY DEF ActiveModes, WaitingModes, SubpathModes
  <2>3. CallerTold'
    BY <1>3, <2>2 DEF CallerTold
  <2> QED
    BY <1>1, <1>3, <2>1, <2>3, KeptNext
<1> QED
  BY <1>2, <1>3, EnterEffect DEF Keeping

\* Under a frame of a sub-path a sub-path is waited for, and nothing else is.
LEMMA BelowSubpath ==
  ASSUME NEW S, Keeping(S), Depth > 1
  PROVE  /\ stack[Depth - 1].mode \in WaitingModes
         /\ stack[Depth - 1].mode = "subpath" <=> Top.own > 0
<1> DEFINE c == Depth - 1
           o == Top.own
<1>1. Depth \in Nat \ {0} /\ c \in 1..Depth /\ Depth \in 1..Depth /\ o \in Nat /\ Top = stack[Depth]
  <2>1. Depth \in Nat \ {0} /\ Depth \in 1..Depth /\ o \in Nat
    BY KeptTop
  <2> QED
    BY <2>1 DEF Top
<1>2. DOMAIN stack = 1..Depth
  BY TopType DEF Keeping, Depth
<1>3. stack[c].mode \in WaitingModes
  BY <1>1, <1>2 DEF Keeping, IInv, SentinelOwnerWaits
<1>4. FrameKept(S, heap, stack[c])
  BY <1>1 DEF Keeping, ErrorOK
<1>5. ASSUME o > 0
      PROVE  stack[c].mode = "subpath"
  <2>1. o < Depth /\ stack[o].mode \in SubpathModes
    BY <1>1, <1>2, <1>5 DEF Keeping, IInv, SentinelOwnerWaits
  <2>2. CASE o = c
    BY <1>4, <2>1, <2>2 DEF FrameKept, SubpathModes
  <2>3. CASE o # c
    <3>1. o \in 1..Depth /\ o < c
      BY <1>1, <1>5, <2>1, <2>3
    <3>2. stack[c].own > 0
      BY <1>1, <2>1, <3>1 DEF Keeping, IInv, SubpathsOnTop
    <3> QED
      BY <1>3, <1>4, <3>2 DEF FrameKept, WaitingModes, SubpathModes
  <2> QED
    BY <2>2, <2>3
<1>6. ASSUME stack[c].mode = "subpath"
      PROVE  o > 0
  <2>1. c < Depth
    BY <1>1
  <2> QED
    BY <1>1, <1>6, <2>1 DEF Keeping, IInv, SubpathsOnTop, SubpathModes
<1> QED
  BY <1>3, <1>5, <1>6

\* What a function that returns gives, with the error or without.
Told(r, e) ==
  /\ Top.own = 0 => (e <=> r.int < 0)
  /\ Top.own > 0 => (e => r.val = NULL)

LEMMA LeaveKeeps ==
  ASSUME NEW S, Keeping(S), UNCHANGED call, IInv', HeapKept, NEW r, Told(r, exc'),
         \/ Leave(r)
         \/ \E walker : \E v \in Nat : LeaveAt(walker, v, r) /\ (Top.own > 0 => v \in S)
         \/ \E cond \in BOOLEAN : LeaveFrom(Reloop(cond), r)
  PROVE  ErrorStep(S)'
<1>1. /\ Depth \in Nat \ {0} /\ heap \in Heap /\ heap' \in Heap /\ stack \in Seq(Frame)
      /\ Top \in Frame /\ Top.own \in Nat /\ Depth = Len(stack)
  BY KeptTop, TopType DEF Keeping, IInv, TypeOK, Depth
<1>2. /\ Depth' = Depth - 1 /\ ret' = r
      /\ status' = IF Depth = 1 THEN "done" ELSE "run"
      /\ \A d \in 1..(Depth - 1) : Alike(stack'[d], stack[d])
      /\ Depth > 1 => Top' = stack'[Depth - 1]
  BY ReturnEffect DEF Keeping
<1>3. ASSUME NEW d \in 1..(Depth - 1)
      PROVE  stack'[d].sent = stack[d].sent \/ stack'[d].sent \in S
  <2>1. d \in 1..Depth
    BY <1>1
  <2>2. CASE Leave(r)
    <3>1. SameShape(stack)
      BY ShapeKept DEF Keeping
    <3>2. stack'[d] = stack[d]
      BY <2>2, <3>1, LeaveEffect DEF Leave, Keeping
    <3> QED
      BY <3>2
  <2>3. ASSUME NEW walker, NEW v \in Nat, LeaveAt(walker, v, r), Top.own > 0 => v \in S
        PROVE  stack'[d].sent = stack[d].sent \/ stack'[d].sent \in S
    <3> DEFINE s == Sentinel(stack, Top, walker, v)
    <3>1. /\ SameShape(s)
          /\ s[d].sent = IF Top.own = d /\ stack[d].sent < walker THEN v ELSE stack[d].sent
      BY <1>1, <2>1, SentinelEffect DEF Keeping
    <3>2. LeaveFrom(s, r)
      BY <2>3 DEF LeaveAt
    <3> HIDE DEF s
    <3>3. stack'[d] = s[d]
      BY <3>1, <3>2, LeaveEffect DEF Keeping
    <3> QED
      BY <2>1, <2>3, <3>1, <3>3
  <2>4. ASSUME NEW cond \in BOOLEAN, LeaveFrom(Reloop(cond), r)
        PROVE  stack'[d].sent = stack[d].sent
    <3> DEFINE s == Reloop(cond)
    <3>1. SameShape(s) /\ s[d].sent = stack[d].sent
      BY <2>1, ReloopEffect DEF Keeping
    <3> HIDE DEF s
    <3>2. stack'[d] = s[d]
      BY <2>4, <3>1, LeaveEffect DEF Keeping, s
    <3> QED
      BY <3>1, <3>2
  <2> QED
    BY <2>2, <2>3, <2>4
<1>4. ASSUME NEW d \in 1..(Depth - 1)
      PROVE  FrameKept(S, heap', stack'[d])
  <2>1. d \in 1..Depth /\ stack[d] \in Frame
    BY <1>1
  <2>2. FrameKept(S, heap, stack[d])
    BY <2>1 DEF Keeping, ErrorOK
  <2>3. Alike(stack'[d], stack[d])
    BY <1>2
  <2>4. stack'[d].own > 0 /\ stack'[d].mode = "subpath" => stack'[d].sent \in S
    BY <1>3, <2>2, <2>3 DEF FrameKept, Alike
  <2> QED
    BY <1>1, <2>1, <2>2, <2>3, <2>4, KeptAlike DEF HeapKept
<1>5. CASE Depth = 1
  <2>1. Top.own = 0
    <3>1. 1 \in DOMAIN stack
      BY <1>5, TopType DEF Keeping
    <3>2. Top = stack[1]
      BY <1>5 DEF Top
    <3>3. Top.own > 0 => Top.own < 1
      BY <3>1, <3>2 DEF Keeping, IInv, SentinelOwnerWaits
    <3> QED
      BY <1>1, <3>3
  <2> QED
    BY <1>2, <1>5, <2>1 DEF ErrorStep, Told
<1>6. CASE Depth # 1
  <2>1. Depth > 1 /\ Depth - 1 \in 1..(Depth - 1)
    BY <1>1, <1>6
  <2>2. Top'.mode = stack[Depth - 1].mode
    BY <1>2, <2>1 DEF Alike
  <2>3. Top'.mode \in WaitingModes /\ (Top'.mode = "subpath" <=> Top.own > 0)
    BY <2>1, <2>2, BelowSubpath
  <2>4. CallerTold'
    BY <1>1, <1>2, <2>3 DEF CallerTold, Told
  <2> QED
    BY <1>2, <1>4, <1>6, <2>4, KeptNext DEF HeapKept
<1> QED
  BY <1>5, <1>6

\* A crash is not a return.
LEMMA CrashKeeps ==
  ASSUME NEW S, Crash
  PROVE  ErrorStep(S)'
  BY DEF Crash, ErrorStep

\* CSONPATH_GETTER_ERR.
LEMMA FailKeeps ==
  ASSUME NEW S, Keeping(S), UNCHANGED call, IInv', HeapKept, Fail
  PROVE  ErrorStep(S)'
<1>1. Leave(ErrorOf(Op(Top))) /\ exc' = TRUE
  BY DEF Fail
<1>2. Told(ErrorOf(Op(Top)), TRUE)
  <2>1. /\ Top.own = 0 => Op(Top) \notin FindOps
        /\ Top.own > 0 => Op(Top) \in FindOps
    BY KeptTop DEF FindOps
  <2> QED
    BY <2>1 DEF Told, ErrorOf, Count
<1> QED
  BY <1>1, <1>2, LeaveKeeps

--------------------------------------------------------------------------------
(***************************************************************************)
(* The actions.                                                            *)
(***************************************************************************)

\* A frame that walks, and one of the operation itself that does something
\* of which nothing more is said.
LEMMA KeptWalking ==
  ASSUME NEW S, NEW h, NEW f, f.nb >= 0, f.mode \in {"inst", "scan"}, f.own > 0 => f.pc \in S
  PROVE  FrameKept(S, h, f)
  BY DEF FrameKept, FilterModes

LEMMA KeptOwn ==
  ASSUME NEW S, NEW h, NEW f \in Frame, f.nb >= 0, f.own = 0,
         \/ f.mode \in {"inst", "scan", "skip", "member", "range", "dot", "descend", "subpath"}
         \/ f.mode \in {"range_back", "dot_back", "dot_return", "union"}
         \/ f.mode \in {"all", "all_back"} /\ (f.tmp \in Nodes => f.n <= Size(h, f.tmp))
         \/ f.mode \in {"filter", "filter_back"} /\ Code(f.pc).inst \in FilterOps
  PROVE  FrameKept(S, h, f)
  BY DEF FrameKept, FilterModes

\* A sub-path's frame goes straight on.
LEMMA StraightOn ==
  ASSUME NEW S, Keeping(S), Top.own > 0
  PROVE  /\ Top.pc \in S /\ Here.inst \notin Branching
         /\ Here.inst # "END" => Top.pc + 1 \in S /\ NextInst(prog, Top.pc) = Top.pc + 1
         /\ Top.mode \in {"inst", "scan", "subpath"}
         /\ Top.mode = "subpath" => Top.sent + 1 \in S
         /\ Here.inst = "GET_SUBPATH" => Top.pc + 1 \in S
<1>1. FrameKept(S, heap, Top) /\ StraightSubpaths(S)
  BY KeptTop DEF Keeping, ErrorsKept
<1>2. /\ Top.pc \in S /\ Top.mode \in {"inst", "scan", "subpath"}
      /\ Top.mode = "subpath" => Top.sent \in S /\ Here.inst = "GET_SUBPATH"
  BY <1>1 DEF FrameKept, Here
<1>3. Here.inst \notin Branching /\ (Here.inst # "END" => Top.pc + 1 \in S)
  BY <1>1, <1>2 DEF StraightSubpaths, Here
<1>4. Top.mode = "subpath" => Top.sent + 1 \in S
  BY <1>1, <1>2 DEF StraightSubpaths, Here
<1>5. NextInst(prog, Top.pc) = Top.pc + 1
  BY <1>3 DEF NextInst, Here, Code, Branching, WideOps
<1> QED
  BY <1>2, <1>3, <1>4, <1>5

\* The document that is not written to.
LEMMA HeapKeptSame ==
  ASSUME NEW S, Keeping(S), heap' = heap
  PROVE  HeapKept
<1>1. Grows(heap, heap) /\ FreeIsEmpty(heap)
  BY KeptTop, GrowsSelf
<1> QED
  BY <1>1 DEF HeapKept

\* A loop calls the rest of the path.
LEMMA VisitKeeps ==
  ASSUME NEW S, Keeping(S), UNCHANGED call, heap' = heap, exc' = FALSE,
         NEW f \in Frame, f.own = 0, f.nb >= 0, More(f), Element(f) # BAD, NEW pc \in Nat,
         NEW mode \in {"all_back", "range_back", "dot_back"},
         mode = "all_back" => f.n <= Size(heap, f.tmp), Visit(f, mode, pc)
  PROVE  ErrorStep(S)'
<1> DEFINE ci == CurrentInfo(f)
           el == Element(f)
           g  == [f EXCEPT !.mode = mode, !.ci = ci, !.rl = FALSE, !.el = el]
           callee == LoopChild(f, el, pc, ci)
<1>1. el \in ValueSet /\ ci \in ChildInfo
  BY ElementType DEF Keeping
<1>2. f.tmp \in ValueSet /\ f.own \in Nat
  BY FrameFields
<1>3. Enter(g, callee)
  BY DEF Visit
<1> HIDE DEF ci, el
<1>4. g \in Frame
  BY <1>1, Zenon DEF Frame, WaitingModes
<1>5. g.mode = mode /\ g.own = 0 /\ g.nb = f.nb /\ g.n = f.n /\ g.tmp = f.tmp
  BY DEF Frame
<1>6. callee \in Frame
  BY <1>1, <1>2, NewFrameType DEF LoopChild
<1>7. callee.own = 0 /\ callee.nb = 0 /\ callee.mode = "inst"
  BY DEF LoopChild, NewFrame
<1> HIDE DEF g, callee
<1>8. FrameKept(S, heap, g)
  BY <1>4, <1>5, KeptOwn
<1>9. FrameKept(S, heap, callee)
  BY <1>7, KeptWalking
<1>10. callee.mode \in ActiveModes
  BY <1>7 DEF ActiveModes
<1> QED
  BY <1>3, <1>4, <1>6, <1>8, <1>9, <1>10, EnterKeeps

\* A loop is over.
LEMMA OutKeeps ==
  ASSUME NEW S, Keeping(S), UNCHANGED call, IInv', heap' = heap, exc' = FALSE,
         Top.own = 0, NEW f \in Frame, f.own = 0, f.nb >= 0, Out(f)
  PROVE  ErrorStep(S)'
<1>1. Op(f) \notin FindOps
  BY KeptTop DEF Op, FindOps
<1>2. Leave(Count(f.nb))
  BY <1>1 DEF Out, FindOps
<1>3. f.nb \in Nat
  BY FrameFields
<1>4. Told(Count(f.nb), FALSE)
  BY <1>3 DEF Told, Count
<1> QED
  BY <1>2, <1>4, HeapKeptSame, LeaveKeeps

\* What a loop does with the result of its body: it returns an error.
LEMMA AfterVisitKeeps ==
  ASSUME NEW S, Keeping(S), UNCHANGED call, IInv', heap' = heap, exc' = exc, NEW macro,
         NEW loop \in {"all", "range", "dot", "filter", "union"},
         NEW next \in {"all", "range", "dot", "descend", "filter", "member"},
         Top.mode \in {"all_back", "range_back", "dot_back", "dot_return", "filter_back",
                       "union"},
         loop = "all" => Top.mode = "all_back",
         loop = "filter" <=> Top.mode = "filter_back",
         macro = "FILTER" => Top.mode = "filter_back",
         next = loop \/ next \in {"descend", "member", "dot"},
         loop # "union" \/ Verdict(Top, ret, macro) # "again",
         AfterVisit(macro, loop, next)
  PROVE  ErrorStep(S)'
<1> DEFINE nb  == Counted(Top, ret)
           end == IF macro = "RANGE" /\ Op(Top) = "remove" THEN Top.end - 1 ELSE Top.end
           f   == [Top EXCEPT !.nb = nb, !.end = end]
           v   == Verdict(Top, ret, macro)
<1>1. /\ Top \in Frame /\ ret \in Result /\ heap \in Heap /\ FrameKept(S, heap, Top)
      /\ call.op \in {"update_or_create", "update_or_create_callback", "callback"}
      /\ Top.own \in Nat /\ Top.nb \in Nat
      /\ Top.own > 0 => Top.mode \in {"inst", "scan", "subpath"}
  BY KeptTop, StraightOn DEF Keeping, IInv, TypeOK
<1>2. Top.own = 0
  BY <1>1
<1>3. Op(Top) = call.op
  BY <1>2 DEF Op
<1>4. exc <=> ret.int < 0
  <2>1. Top.mode \in WaitingModes \ {"subpath"}
    BY ModeNames
  <2> QED
    BY <2>1 DEF Keeping, ErrorOK, CallerTold
<1>5. ret.int \in Int /\ Top.end \in Int /\ Top.pc \in Nat /\ Top.ow \in Nat
  BY <1>1, FrameFields DEF Result
<1>6. v = "leave" <=> ret.int < 0
  <2>1. ~(call.op = "update_or_create" /\ macro = "FILTER")
    BY <1>1 DEF FrameKept, FilterModes, Keeping, ErrorsKept, NoUpdateFilter, Frame
  <2> QED
    BY <1>1, <1>3, <2>1 DEF Verdict
<1>7. nb \in Int /\ end \in Int
  BY <1>1, <1>5, CountedType
<1>8. ret.int >= 0 => nb >= 0
  BY <1>1, <1>3, <1>5, BoundAssumption DEF Counted
<1>9. \/ v = "leave" /\ LeaveAt(f.pc, IF macro = "FILTER" THEN f.ow ELSE f.pc, ret)
      \/ v = "again" /\ Go(Start(f, loop))
      \/ v # "leave" /\ next = loop /\ Go(NextEntry(f, loop))
      \/ v # "leave" /\ next # loop /\ Go([f EXCEPT !.mode = next])
  BY DEF AfterVisit
<1> HIDE DEF nb, end, v
<1>10. f \in Frame
  BY <1>1, <1>7, Zenon DEF Frame
<1>11. /\ f.pc = Top.pc /\ f.ow = Top.ow /\ f.own = 0 /\ f.nb = nb /\ f.n = Top.n
       /\ f.tmp = Top.tmp
  BY <1>1, <1>2 DEF Frame
<1> HIDE DEF f
<1>12. HeapKept
  BY HeapKeptSame
<1>13. loop = "all" /\ Top.tmp \in Nodes => Top.n <= Size(heap, Top.tmp)
  BY <1>1 DEF FrameKept
<1>14. loop = "filter" => Code(Top.pc).inst \in FilterOps
  BY <1>1 DEF FrameKept, FilterModes
<1>15. CASE v = "leave" /\ LeaveAt(f.pc, IF macro = "FILTER" THEN f.ow ELSE f.pc, ret)
  <2>1. (IF macro = "FILTER" THEN f.ow ELSE f.pc) \in Nat
    BY <1>5, <1>11
  <2>2. Told(ret, exc')
    BY <1>2, <1>4 DEF Told
  <2> QED
    BY <1>2, <1>12, <1>15, <2>1, <2>2, LeaveKeeps
<1>16. CASE v # "leave"
  <2>1. exc' = FALSE /\ nb >= 0
    <3>1. exc \in BOOLEAN
      BY KeptTop
    <3> QED
      BY <1>4, <1>5, <1>6, <1>8, <1>16, <3>1
  <2>2. ASSUME NEW g \in Frame, Go(g), g.own = 0, g.nb = nb, g.pc = Top.pc,
               \/ g.mode = loop /\ loop # "union"
               \/ g.mode \in {"descend", "member", "dot"},
               g.tmp = Top.tmp /\ (g.n = Top.n \/ (g.tmp \in Nodes => g.n = Size(heap, g.tmp)))
        PROVE  ErrorStep(S)'
    <3>1. g.mode \in ActiveModes
      BY <2>2 DEF ActiveModes
    <3>2. g.n \in Nat /\ \A m \in Nodes : Size(heap, m) \in Nat
      BY <1>1, <2>2, FrameFields, KidsType
    <3>3. loop = "all" /\ g.tmp \in Nodes => g.n <= Size(heap, g.tmp)
      BY <1>13, <2>2, <3>2
    <3>4. FrameKept(S, heap, g)
      BY <1>14, <2>1, <2>2, <3>3, KeptOwn
    <3> QED
      BY <1>12, <2>1, <2>2, <3>1, <3>4, GoKeeps
  <2>3. CASE v = "again" /\ Go(Start(f, loop))
    <3>1. loop \in Modes /\ loop # "union"
      BY <2>3, ModeNames DEF v
    <3> DEFINE g == Start(f, loop)
    <3>2. g \in Frame
      BY <1>10, <3>1, StartType DEF Keeping
    <3>3. /\ g.own = f.own /\ g.nb = f.nb /\ g.pc = f.pc /\ g.mode = loop /\ g.tmp = f.tmp
          /\ f.tmp \in Nodes => g.n = Size(heap, f.tmp)
      BY <1>10, StartFields
    <3> HIDE DEF g
    <3> QED
      BY <1>11, <2>2, <2>3, <3>1, <3>2, <3>3 DEF g
  <2>4. CASE next = loop /\ Go(NextEntry(f, loop))
    <3>1. loop \in Modes /\ loop # "union"
      BY <2>4, ModeNames
    <3> DEFINE g == NextEntry(f, loop)
    <3>2. g \in Frame
      BY <1>10, <3>1, NextEntryType
    <3>3. /\ g.own = f.own /\ g.nb = f.nb /\ g.pc = f.pc /\ g.mode = loop /\ g.tmp = f.tmp
          /\ g.n = f.n
      BY <1>10, NextEntryFields
    <3> HIDE DEF g
    <3> QED
      BY <1>11, <2>2, <2>4, <3>1, <3>2, <3>3 DEF g
  <2>5. CASE next # loop /\ Go([f EXCEPT !.mode = next])
    <3> DEFINE g == [f EXCEPT !.mode = next]
    <3>1. next \in Modes /\ f.pc \in Nat
      BY <1>10, ModeNames, FrameFields
    <3>2. g \in Frame
      BY <1>10, <3>1, ModeType
    <3>3. /\ g.own = f.own /\ g.nb = f.nb /\ g.pc = f.pc /\ g.mode = next /\ g.tmp = f.tmp
          /\ g.n = f.n
      BY <1>10 DEF Frame
    <3> HIDE DEF g
    <3> QED
      BY <1>11, <2>2, <2>5, <3>2, <3>3 DEF g
  <2> QED
    BY <1>9, <1>16, <2>3, <2>4, <2>5
<1> QED
  BY <1>9, <1>15, <1>16

\* A getter.
LEMMA GetterKeeps ==
  ASSUME NEW S, Keeping(S), UNCHANGED call, IInv', exc = FALSE,
         NEW kind \in Kinds, NEW ci \in ChildInfo, NEW at \in Nat,
         Top.own > 0 => at + 1 \in S, Getter(Top, kind, ci, at)
  PROVE  ErrorStep(S)'
<1> DEFINE pre == PreGet(Top, kind, ci)
           v   == Refetch(pre.h, pre.f.tmp, ci)
           g   == [pre.f EXCEPT !.tmp = v, !.pc = at + 1, !.mode = "inst"]
<1>1. Top \in Frame /\ heap \in Heap /\ FreeIsEmpty(heap) /\ Top.own \in Nat /\ Top.nb \in Nat
  BY KeptTop
<1>2. CASE Fail /\ UNCHANGED <<heap, acc>>
  BY <1>2, HeapKeptSame, FailKeeps
<1>3. CASE /\ heap' = pre.h /\ exc' = exc
           /\ Go([g EXCEPT !.mode = "scan"]) \/ Go([g EXCEPT !.ci = ci]) \/ Go(g)
  <2>1. pre.h \in Heap /\ pre.f \in Frame /\ pre.f.own = Top.own
    BY <1>1, PreGetType DEF Attempt, Keeping
  <2>2. Grows(heap, pre.h) /\ FreeIsEmpty(pre.h) /\ pre.f.nb = Top.nb
    BY <1>1, PreGetKeeps DEF Keeping
  <2>3. HeapKept /\ exc' = FALSE
    BY <1>3, <2>2 DEF HeapKept
  <2> HIDE DEF pre, v
  <2> DEFINE scan == [g EXCEPT !.mode = "scan"]
             noted == [g EXCEPT !.ci = ci]
  <2>4. \A f \in {g, scan, noted} :
          f.mode \in {"inst", "scan"} /\ f.pc = at + 1 /\ f.own = Top.own /\ f.nb = Top.nb
    BY <2>1, <2>2 DEF Frame
  <2> HIDE DEF g, scan, noted
  <2>5. ASSUME NEW f \in {g, scan, noted}, Go(f)
        PROVE  ErrorStep(S)'
    <3>1. FrameKept(S, heap', f)
      BY <1>1, <2>4, KeptWalking
    <3>2. f.mode \in ActiveModes
      BY <2>4 DEF ActiveModes
    <3> QED
      BY <2>3, <2>5, <3>1, <3>2, GoKeeps
  <2> QED
    BY <1>3, <2>5 DEF g, scan, noted
<1> QED
  BY <1>2, <1>3 DEF Getter

\* The start of a loop.
LEMMA PreLoopKeeps ==
  ASSUME NEW S, Keeping(S), IInv', Top.own = 0, Top.mode = "inst",
         NEW kind \in Kinds, NEW loop \in {"all", "filter"},
         loop = "filter" => Here.inst \in FilterOps,
         PreLoop(Top, kind, loop)
  PROVE  ErrorStep(S)'
<1> DEFINE e == IF Op(Top) = "update_or_create" THEN CheckExist(Top, kind)
                ELSE [ok |-> TRUE, h |-> heap, f |-> Top]
<1>1. Top \in Frame /\ heap \in Heap /\ FreeIsEmpty(heap) /\ Top.nb \in Nat
  BY KeptTop
<1>2. /\ e.h \in Heap /\ e.f \in Frame
      /\ e.f.own = 0 /\ e.f.nb = Top.nb /\ e.f.pc = Top.pc
      /\ Grows(heap, e.h) /\ FreeIsEmpty(e.h)
  BY <1>1, CheckExistType, CheckExistKeeps, GrowsSelf DEF Attempt, Keeping
<1>3. /\ heap' = e.h /\ call' = call
      /\ Fail \/ (Go(Start(e.f, loop)) /\ exc' = exc)
  BY DEF PreLoop
<1> HIDE DEF e
<1>4. HeapKept
  BY <1>2, <1>3 DEF HeapKept
<1>5. CASE Fail
  BY <1>3, <1>4, <1>5, FailKeeps
<1>6. CASE Go(Start(e.f, loop)) /\ exc' = exc
  <2> DEFINE g == Start(e.f, loop)
  <2>1. /\ g.mode = loop /\ g.own = 0 /\ g.nb = Top.nb /\ g.pc = Top.pc /\ g.tmp = e.f.tmp
        /\ e.f.tmp \in Nodes => g.n = Size(heap, e.f.tmp)
    BY <1>2, StartFields
  <2>2. g \in Frame
    BY <1>2, ModeNames, StartType DEF Keeping
  <2> HIDE DEF g
  <2>3. g.tmp \in Nodes => g.n <= Size(heap', g.tmp)
    BY <1>3, <1>4, <2>1 DEF HeapKept, Grows
  <2>4. FrameKept(S, heap', g)
    BY <1>1, <2>1, <2>2, <2>3, KeptOwn DEF Here
  <2>5. g.mode \in ActiveModes
    BY <2>1 DEF ActiveModes
  <2>6. exc' = FALSE
    <3>1. Top.mode \notin WaitingModes
      BY DEF WaitingModes, SubpathModes
    <3> QED
      BY <1>6, <3>1, KeptTop
  <2> QED
    BY <1>3, <1>4, <1>6, <2>4, <2>5, <2>6, GoKeeps DEF g
<1> QED
  BY <1>3, <1>5, <1>6

\* The end of the path, or an OR.
LEMMA ReturnKeeps ==
  ASSUME NEW S, Keeping(S), UNCHANGED call, IInv', Return
  PROVE  ErrorStep(S)'
<1>1. /\ Top \in Frame /\ heap \in Heap /\ FreeIsEmpty(heap) /\ Top.pc \in Nat
      /\ call.op \in {"update_or_create", "update_or_create_callback", "callback"}
      /\ Top.own \in Nat
      /\ Top.own = 0 => Op(Top) = call.op
      /\ Top.own > 0 => Op(Top) = "find_first"
  BY KeptTop
<1>2. exc = FALSE
  <2>1. Top.mode = "inst"
    BY DEF Return, ReturnFound, ReturnRemove, ReturnUpdate, ReturnCallback, At_, In
  <2>2. Top.mode \notin WaitingModes
    BY <2>1 DEF WaitingModes, SubpathModes
  <2> QED
    BY <2>2, KeptTop
<1>3. ASSUME CanAppend(be, heap, Top.ctx, Top.ci),
             heap' = AppendAt(heap, Top.ctx, Top.ci, call.upd, Pinned)
      PROVE  HeapKept
  <2>1. Top.ctx \in Nodes /\ heap[Top.ctx].kind # "free"
    BY <1>3 DEF CanAppend, IsObj, IsArray, IsKind
  <2>2. call.upd \in ValueSet /\ Top.ci \in ChildInfo
    BY <1>1, RunTypes, FrameFields DEF Keeping
  <2> QED
    BY <1>1, <1>3, <2>1, <2>2, GrowsAppendAt DEF HeapKept
<1>4. CASE ReturnFound
  <2>1. Top.own > 0 /\ LeaveAt(Top.pc, Top.pc, Value(Top.tmp)) /\ heap' = heap /\ exc' = exc
    BY <1>1, <1>4 DEF ReturnFound
  <2>2. Top.pc \in S
    BY <2>1, StraightOn
  <2>3. Told(Value(Top.tmp), exc')
    BY <1>2, <2>1 DEF Told
  <2> QED
    BY <1>1, <2>1, <2>2, <2>3, HeapKeptSame, LeaveKeeps
<1>5. CASE ReturnRemove
  BY <1>1, <1>5 DEF ReturnRemove
<1>6. CASE ReturnUpdate
  <2>1. Top.own = 0
    BY <1>1, <1>6 DEF ReturnUpdate
  <2>2. \/ Leave(None) /\ heap' = heap /\ exc' = exc
        \/ /\ LeaveFrom(Reloop(TRUE), Count(1)) /\ exc' = exc
           /\ CanAppend(be, heap, Top.ctx, Top.ci)
           /\ heap' = AppendAt(heap, Top.ctx, Top.ci, call.upd, Pinned)
        \/ LeaveFrom(Reloop(TRUE), Count(-1)) /\ heap' = heap /\ exc' = TRUE
    BY <1>6 DEF ReturnUpdate
  <2>3. HeapKept
    BY <1>3, <2>2, HeapKeptSame
  <2>4. Told(None, FALSE) /\ Told(Count(1), FALSE) /\ Told(Count(-1), TRUE)
    BY <2>1 DEF Told, None, Count
  <2>5. \A r : LeaveFrom(Reloop(TRUE), r) => \E cond \in BOOLEAN : LeaveFrom(Reloop(cond), r)
    BY Zenon
  <2> QED
    BY <1>2, <2>2, <2>3, <2>4, <2>5, LeaveKeeps
<1>7. CASE ReturnCallback
  <2> DEFINE cond == Op(Top) = "update_or_create_callback" /\ Top.tmp = Top.val
  <2>1. Top.own = 0
    BY <1>1, <1>7 DEF ReturnCallback, CallbackOps
  <2>2. \/ LeaveFrom(Reloop(cond), Count(1)) /\ heap' = heap /\ exc' = exc
        \/ /\ LeaveFrom(Reloop(cond), Count(1)) /\ exc' = exc
           /\ CanAppend(be, heap, Top.ctx, Top.ci)
           /\ heap' = AppendAt(heap, Top.ctx, Top.ci, call.upd, Pinned)
        \/ LeaveFrom(Reloop(cond), Count(-1)) /\ heap' = heap /\ exc' = TRUE
    BY <1>7 DEF ReturnCallback
  <2>3. cond \in BOOLEAN
    OBVIOUS
  <2> HIDE DEF cond
  <2>4. HeapKept
    BY <1>3, <2>2, HeapKeptSame
  <2>5. Told(Count(1), FALSE) /\ Told(Count(-1), TRUE)
    BY <2>1 DEF Told, Count
  <2> QED
    BY <1>2, <2>2, <2>3, <2>4, <2>5, LeaveKeeps
<1> QED
  BY <1>4, <1>5, <1>6, <1>7 DEF Return

\* ROOT and SWITCH_ROOT.  Only the bare path of an update replaces the root.
LEMMA RootsKeep ==
  ASSUME NEW S, Keeping(S), UNCHANGED call, IInv', Root \/ SwitchRoot
  PROVE  ErrorStep(S)'
<1>1. /\ Top \in Frame /\ Top.own \in Nat /\ Top.nb \in Nat /\ Top.pc \in Nat
      /\ Top.own = 0 => Op(Top) = call.op
      /\ Top.own > 0 => Op(Top) = "find_first"
  BY KeptTop
<1>2. Top.mode = "inst" /\ Here.inst \in {"ROOT", "SWITCH_ROOT"}
  BY DEF Root, SwitchRoot, At_, In
<1>3. exc = FALSE
  <2>1. Top.mode \notin WaitingModes
    BY <1>2 DEF WaitingModes, SubpathModes
  <2> QED
    BY <2>1, KeptTop
<1>4. ASSUME Root, Op(Top) = "update_or_create", Code(Top.pc + 1).inst \in Endish
      PROVE  FALSE
  <2>1. call.op = "update_or_create"
    BY <1>1, <1>4
  <2>2. Code(Top.pc).inst = "ROOT"
    BY <1>4 DEF Root, At_, Here
  <2>3. Top.pc # 0
    <3>1. 0 \notin DOMAIN prog
      BY CallAssumption DEF Keeping, IInv, prog
    <3> QED
      BY <2>2, <3>1 DEF Code, CellAt, Outside, Cell
  <2>4. Top.pc # 1
    BY <1>4, <2>1, <2>2 DEF Keeping, BareUpdate
  <2> QED
    BY <1>1, <1>4, <2>1, <2>2, <2>3, <2>4 DEF Keeping, ErrorsKept, RootStaysPut
<1>5. heap' = heap /\ (Fail \/ (exc' = exc /\ \E root : Go(AtRoot(Top, root))))
  BY <1>4 DEF Root, SwitchRoot
<1>6. CASE Fail
  BY <1>5, <1>6, HeapKeptSame, FailKeeps
<1>7. ASSUME NEW root, Go(AtRoot(Top, root)), exc' = exc
      PROVE  ErrorStep(S)'
  <2> DEFINE f == AtRoot(Top, root)
  <2>1. f.mode = "inst" /\ f.own = Top.own /\ f.pc = Top.pc + 1 /\ f.nb = Top.nb
    BY <1>1, <1>2 DEF AtRoot, Frame
  <2> HIDE DEF f
  <2>2. f.own > 0 => f.pc \in S
    BY <1>2, <2>1, StraightOn
  <2>3. FrameKept(S, heap', f) /\ f.mode \in ActiveModes
    BY <1>1, <2>1, <2>2, KeptWalking DEF ActiveModes
  <2> QED
    BY <1>3, <1>5, <1>7, <2>3, HeapKeptSame, GoKeeps DEF f
<1> QED
  BY <1>5, <1>6, <1>7

\* The getters, the scan for an OR, the sub-path and the type test.
LEMMA GettingKeeps ==
  ASSUME NEW S, Keeping(S), UNCHANGED call, IInv', Getting \/ TypeCheck \/ Unimplemented
  PROVE  ErrorStep(S)'
<1>1. /\ Top \in Frame /\ heap \in Heap /\ Top.nb \in Nat /\ CallerTold
      /\ exc \in BOOLEAN /\ (Top.mode \notin WaitingModes => exc = FALSE)
  BY KeptTop
<1>2. /\ Top.pc \in Nat /\ Top.sent \in Nat /\ Top.own \in Nat
      /\ Here.key \in Text /\ Here.num \in Nat /\ Here.num \in Int
  BY <1>1, FrameFields, RunTypes, CodeType DEF Here, Keeping
<1>3. "obj" \in Kinds /\ "arr" \in Kinds
  BY DEF Kinds
<1>4. Top.mode \in {"inst", "scan"} => exc = FALSE
  BY <1>1 DEF WaitingModes, SubpathModes
<1>5. ASSUME NEW f, Go(f), heap' = heap, exc' = FALSE, f.mode \in {"inst", "scan"},
             f.own = Top.own, f.nb = Top.nb, Top.own > 0 => f.pc \in S
      PROVE  ErrorStep(S)'
  <2>1. FrameKept(S, heap', f)
    BY <1>1, <1>5, KeptWalking
  <2>2. f.mode \in ActiveModes
    BY <1>5 DEF ActiveModes
  <2> QED
    BY <1>5, <2>1, <2>2, HeapKeptSame, GoKeeps
<1>6. ASSUME Leave(None), heap' = heap, exc' = FALSE
      PROVE  ErrorStep(S)'
  <2>1. Told(None, FALSE)
    BY DEF Told, None, Count
  <2> QED
    BY <1>6, <2>1, HeapKeptSame, LeaveKeeps
<1>7. CASE GetObj
  <2>1. /\ Getter(Top, "obj", KeyInfo(Here.key), Top.pc)
        /\ Top.mode = "inst" /\ Here.inst # "END"
    BY <1>7 DEF GetObj, At_, In
  <2> QED
    BY <1>2, <1>3, <1>4, <2>1, InfoType, StraightOn, GetterKeeps
<1>8. CASE GetArray
  <2>1. /\ Getter(Top, "arr", IdxInfo(Here.num), Top.pc)
        /\ Top.mode = "inst" /\ Here.inst # "END"
    BY <1>8 DEF GetArray, At_, In
  <2> QED
    BY <1>2, <1>3, <1>4, <2>1, InfoType, StraightOn, GetterKeeps
<1>9. CASE ScanForOr
  <2> DEFINE f == [Top EXCEPT !.mode = "inst", !.pc = Top.pc + 1]
             g == [Top EXCEPT !.pc = NextInst(prog, Top.pc)]
  <2>1. /\ heap' = heap /\ exc' = exc /\ Top.mode = "scan"
        /\ Leave(None) \/ (Here.inst # "END" /\ (Go(f) \/ Go(g))) \/ Crash
    BY <1>9 DEF ScanForOr, Data, In
  <2>2. /\ f.mode = "inst" /\ f.own = Top.own /\ f.nb = Top.nb /\ f.pc = Top.pc + 1
        /\ g.mode = "scan" /\ g.own = Top.own /\ g.nb = Top.nb /\ g.pc = NextInst(prog, Top.pc)
    BY <1>1, <2>1 DEF Frame
  <2> HIDE DEF f, g
  <2> QED
    BY <1>4, <1>5, <1>6, <2>1, <2>2, StraightOn, CrashKeeps
<1>10. CASE GetSubpath
  <2> DEFINE f == [Top EXCEPT !.mode = "subpath", !.sent = Top.pc]
             callee == NewFrame(Top.pc + 1, call.root, NULL, NoInfo, Depth)
  <2>1. /\ Enter(f, callee) /\ Top.mode = "inst" /\ Here.inst = "GET_SUBPATH"
        /\ heap' = heap /\ exc' = exc
    BY <1>10 DEF GetSubpath, Data, At_, In
  <2>2. /\ f.mode = "subpath" /\ f.own = Top.own /\ f.nb = Top.nb /\ f.pc = Top.pc
        /\ f.sent = Top.pc
    BY <1>1 DEF Frame
  <2>3. f \in Frame
    BY <1>1, <1>2, Zenon DEF Frame, WaitingModes, SubpathModes
  <2>4. /\ Depth \in Nat \ {0} /\ callee.own = Depth /\ callee.pc = Top.pc + 1
        /\ callee.mode = "inst" /\ callee.nb = 0
    BY TopType DEF Keeping, NewFrame
  <2>5. callee \in Frame
    <3>1. Top.pc + 1 \in Nat
      BY <1>2
    <3> QED
      BY <2>4, <3>1, RunTypes, InfoType, NewFrameType DEF Keeping
  <2>6. Top.pc + 1 \in S
    BY <1>2, <2>1 DEF Keeping, ErrorsKept, StraightSubpaths, Here
  <2> HIDE DEF f, callee
  <2>7. FrameKept(S, heap, f)
    BY <1>1, <2>1, <2>2, StraightOn DEF FrameKept, FilterModes, Here
  <2>8. FrameKept(S, heap, callee) /\ callee.mode \in ActiveModes
    BY <2>4, <2>6, KeptWalking DEF ActiveModes
  <2> QED
    BY <1>4, <2>1, <2>3, <2>5, <2>7, <2>8, EnterKeeps
<1>11. CASE AfterSubpath
  <2>1. /\ Top.mode = "subpath"
        /\ \/ /\ IsNum(be, heap, ret.val)
              /\ Getter(Top, "arr", IdxInfo(heap[ret.val].num), Top.sent)
           \/ /\ IsStr(heap, ret.val)
              /\ Getter(Top, "obj", KeyInfo(heap[ret.val].str), Top.sent)
           \/ Fail /\ heap' = heap
    BY <1>11 DEF AfterSubpath, In
  <2>2. ASSUME ret.val \in Nodes
        PROVE  /\ IdxInfo(heap[ret.val].num) \in ChildInfo
               /\ KeyInfo(heap[ret.val].str) \in ChildInfo
               /\ exc = FALSE
    <3>1. heap[ret.val].num \in Int /\ heap[ret.val].str \in Text
      BY <1>1, <2>2 DEF Heap, Node
    <3>2. exc = FALSE
      BY <1>1, <2>1, <2>2, DocAssumption DEF CallerTold
    <3> QED
      BY <3>1, <3>2, InfoType
  <2>3. IsNum(be, heap, ret.val) \/ IsStr(heap, ret.val) => ret.val \in Nodes
    BY DEF IsNum, IsBool, IsStr, IsKind
  <2>4. Top.own > 0 => Top.sent + 1 \in S
    BY <2>1, StraightOn
  <2> QED
    BY <1>2, <1>3, <2>1, <2>2, <2>3, <2>4, GetterKeeps, HeapKeptSame, FailKeeps
<1>12. CASE TypeCheck
  <2> DEFINE f == [Top EXCEPT !.pc = Top.pc + 1]
  <2>1. /\ heap' = heap /\ exc' = exc /\ Top.mode = "inst" /\ Here.inst # "END"
        /\ Go(f) \/ Leave(None)
    BY <1>12 DEF TypeCheck, Data, At_, In
  <2>2. f.mode = Top.mode /\ f.own = Top.own /\ f.nb = Top.nb /\ f.pc = Top.pc + 1
    BY <1>1 DEF Frame
  <2> HIDE DEF f
  <2> QED
    BY <1>4, <1>5, <1>6, <2>1, <2>2, StraightOn
<1>13. CASE Unimplemented
  BY <1>13, HeapKeptSame, FailKeeps DEF Unimplemented
<1> QED
  BY <1>7, <1>8, <1>9, <1>10, <1>11, <1>12, <1>13 DEF Getting

\* GET_ALL and RANGE.
LEMMA AllAndRangeKeep ==
  ASSUME NEW S, Keeping(S), UNCHANGED call, IInv',
         \/ GetAll \/ AllElement \/ AllBack \/ GetRange \/ RangeElement \/ RangeBack
  PROVE  ErrorStep(S)'
<1>1. /\ Top \in Frame /\ heap \in Heap /\ Top.pc \in Nat /\ Top.pc + 1 \in Nat
      /\ Top.nb \in Nat /\ Top.i \in Nat /\ Top.ow \in Nat /\ Top.own \in Nat
      /\ FrameKept(S, heap, Top)
      /\ Top.mode \notin WaitingModes => exc = FALSE
  <2>1. /\ Top \in Frame /\ heap \in Heap /\ Top.pc \in Nat /\ Top.nb \in Nat /\ Top.own \in Nat
        /\ FrameKept(S, heap, Top) /\ (Top.mode \notin WaitingModes => exc = FALSE)
    BY KeptTop
  <2>2. Top.i \in Nat /\ Top.ow \in Nat /\ Top.pc + 1 \in Nat
    BY <2>1, FrameFields
  <2> QED
    BY <2>1, <2>2
<1>2. Top.mode \in {"inst", "all", "range"} => exc = FALSE
  BY <1>1 DEF WaitingModes, SubpathModes
<1>3. Top.own = 0
  <2>1. \/ Top.mode \in {"all", "range", "all_back", "range_back"}
        \/ Here.inst \in Branching
    BY DEF GetAll, AllElement, AllBack, GetRange, RangeElement, RangeBack, At_, In, Branching
  <2>2. CASE Top.own > 0
    BY <2>1, <2>2, StraightOn
  <2> QED
    BY <1>1, <2>2
<1>4. CASE GetAll
  <2>1. GuessContainer(Top.pc) \in Kinds
    BY DEF GuessContainer, Kinds
  <2> QED
    BY <1>3, <1>4, <2>1, PreLoopKeeps DEF GetAll, At_, In
<1>5. CASE AllElement
  <2>1. Top.mode = "all" /\ heap' = heap
    BY <1>5 DEF AllElement, In
  <2>2. ASSUME More(Top)
        PROVE  Element(Top) # BAD /\ Top.n <= Size(heap, Top.tmp)
    <3>1. Top.tmp \in Nodes
      BY <1>1, <2>2, ElementType DEF Keeping
    <3>2. Top.n <= Size(heap, Top.tmp) /\ Size(heap, Top.tmp) \in Nat /\ Top.n \in Nat
      BY <1>1, <2>1, <3>1, KidsType, FrameFields DEF FrameKept
    <3>3. Top.i < Size(heap, Top.tmp)
      BY <1>1, <2>2, <3>2 DEF More
    <3>4. heap[Top.tmp].kids[Top.i + 1] \in Entry
      BY <1>1, <3>1, <3>2, <3>3, KidsType
    <3>5. Element(Top) = heap[Top.tmp].kids[Top.i + 1].at
      BY <1>1, <2>1, <3>3, EntryAtType DEF Element, Fetch
    <3> QED
      BY <3>2, <3>4, <3>5, DocAssumption DEF Entry, ValueSet
  <2>3. exc' = exc /\ (Out(Top) \/ (More(Top) /\ Visit(Top, "all_back", Top.pc + 1)))
    BY <1>5, <2>2 DEF AllElement
  <2>4. exc' = FALSE /\ Top.nb >= 0
    BY <1>1, <1>2, <2>1, <2>3
  <2>5. CASE Out(Top)
    BY <1>1, <1>3, <2>1, <2>4, <2>5, OutKeeps
  <2>6. CASE More(Top) /\ Visit(Top, "all_back", Top.pc + 1)
    BY <1>1, <1>3, <2>1, <2>2, <2>4, <2>6, VisitKeeps
  <2> QED
    BY <2>3, <2>5, <2>6
<1>6. CASE AllBack
  BY <1>6, AfterVisitKeeps DEF AllBack, Data, In
<1>7. CASE GetRange
  <2> DEFINE end == IF Code(Top.pc + 2).num = 0 THEN Unbounded ELSE Code(Top.pc + 2).num
             s == Start(Top, "range")
             f == [s EXCEPT !.pc = Top.pc + 3, !.end = end, !.ow = Code(Top.pc + 1).num]
  <2>1. heap' = heap /\ exc' = exc /\ Top.mode = "inst" /\ (Leave(None) \/ Go(f))
    BY <1>7 DEF GetRange, Data, At_, In
  <2>2. s \in Frame /\ s.mode = "range" /\ s.own = 0 /\ s.nb = Top.nb
    BY <1>1, <1>3, ModeNames, StartType, StartFields DEF Keeping
  <2>3. end \in Int /\ Code(Top.pc + 1).num \in Nat /\ Top.pc + 3 \in Nat
    BY <1>1, CodeType, RunTypes DEF Unbounded, Keeping
  <2> HIDE DEF end, s
  <2>4. f \in Frame
    BY <2>2, <2>3, Zenon DEF Frame
  <2>5. f.mode = "range" /\ f.own = 0 /\ f.nb = Top.nb
    BY <2>2 DEF Frame
  <2> HIDE DEF f
  <2>6. FrameKept(S, heap', f) /\ f.mode \in ActiveModes
    BY <1>1, <2>4, <2>5, KeptOwn DEF ActiveModes
  <2>7. Told(None, FALSE)
    BY DEF Told, None, Count
  <2> QED
    BY <1>2, <2>1, <2>6, <2>7, HeapKeptSame, LeaveKeeps, GoKeeps
<1>8. CASE RangeElement
  <2> DEFINE i == IF Top.i < Top.ow THEN Top.ow ELSE Top.i
             f == [Top EXCEPT !.i = i]
  <2>1. /\ heap' = heap /\ exc' = exc /\ Top.mode = "range"
        /\ Out(f) \/ Crash \/ (More(f) /\ Element(f) # BAD /\ Visit(f, "range_back", f.pc))
    BY <1>8 DEF RangeElement, Data, In
  <2>2. i \in Nat
    BY <1>1
  <2> HIDE DEF i
  <2>3. f \in Frame
    BY <1>1, <2>2, Zenon DEF Frame
  <2>4. f.pc \in Nat /\ f.own = 0 /\ f.nb = Top.nb
    BY <1>1, <1>3 DEF Frame
  <2> HIDE DEF f
  <2>5. exc' = FALSE /\ f.nb >= 0
    BY <1>1, <1>2, <2>1, <2>4
  <2>6. CASE Out(f)
    BY <1>3, <2>1, <2>3, <2>4, <2>5, <2>6, OutKeeps
  <2>7. CASE More(f) /\ Element(f) # BAD /\ Visit(f, "range_back", f.pc)
    BY <2>1, <2>3, <2>4, <2>5, <2>7, VisitKeeps
  <2> QED
    BY <2>1, <2>6, <2>7, CrashKeeps
<1>9. CASE RangeBack
  BY <1>9, AfterVisitKeeps DEF RangeBack, Data, In
<1> QED
  BY <1>4, <1>5, <1>6, <1>7, <1>8, <1>9

\* FIND_ALL and csonpath_<op>_dotdot.
LEMMA DescentKeeps ==
  ASSUME NEW S, Keeping(S), UNCHANGED call, IInv',
         FindAll \/ DotElement \/ DotBack \/ Descend \/ DotReturn
  PROVE  ErrorStep(S)'
<1>1. /\ Top \in Frame /\ heap \in Heap /\ heap' = heap /\ exc' = exc
      /\ Top.pc \in Nat /\ Top.pc + 1 \in Nat /\ Top.ci \in ChildInfo
      /\ Top.nb \in Nat /\ Top.own \in Nat
      /\ Top.mode \notin WaitingModes => exc = FALSE
  <2>1. /\ Top \in Frame /\ heap \in Heap /\ Top.pc \in Nat /\ Top.nb \in Nat /\ Top.own \in Nat
        /\ Top.mode \notin WaitingModes => exc = FALSE
    BY KeptTop
  <2>2. Top.ci \in ChildInfo /\ Top.pc + 1 \in Nat
    BY <2>1, FrameFields
  <2>3. heap' = heap /\ exc' = exc
    BY DEF FindAll, DotElement, DotBack, Descend, DotReturn, Data
  <2> QED
    BY <2>1, <2>2, <2>3
<1>2. Top.mode \in {"inst", "dot", "descend"} => exc = FALSE
  BY <1>1 DEF WaitingModes, SubpathModes
<1>3. Top.own = 0
  <2>1. \/ Top.mode \in {"dot", "dot_back", "descend", "dot_return"}
        \/ Here.inst \in Branching
    BY DEF FindAll, DotElement, DotBack, Descend, DotReturn, At_, In, Branching
  <2>2. CASE Top.own > 0
    BY <2>1, <2>2, StraightOn
  <2> QED
    BY <1>1, <2>2
<1>4. ASSUME NEW f \in Frame, Go(f), exc' = FALSE, f.mode \in {"dot", "descend"},
             f.own = 0, f.nb = Top.nb
      PROVE  ErrorStep(S)'
  <2>1. FrameKept(S, heap', f) /\ f.mode \in ActiveModes
    BY <1>1, <1>4, KeptOwn DEF ActiveModes
  <2> QED
    BY <1>1, <1>4, <2>1, HeapKeptSame, GoKeeps
<1>5. CASE FindAll
  <2> DEFINE f == [Top EXCEPT !.fn = "dotdot"]
             g == Start(f, "dot")
  <2>1. Top.mode = "inst" /\ (Go(g) \/ Leave(None))
    BY <1>5 DEF FindAll, At_, In
  <2>2. f \in Frame
    BY <1>1, Zenon DEF Frame
  <2>3. f.own = 0 /\ f.nb = Top.nb
    BY <1>1, <1>3 DEF Frame
  <2> HIDE DEF f
  <2>4. g \in Frame /\ g.mode = "dot" /\ g.own = 0 /\ g.nb = Top.nb
    BY <2>2, <2>3, ModeNames, StartType, StartFields DEF Keeping
  <2> HIDE DEF g
  <2>5. Told(None, FALSE)
    BY DEF Told, None, Count
  <2> QED
    BY <1>1, <1>2, <1>4, <2>1, <2>4, <2>5, HeapKeptSame, LeaveKeeps
<1>6. CASE DotElement
  <2> DEFINE ci == CurrentInfo(Top)
             el == Element(Top)
             f  == [Top EXCEPT !.ci = ci, !.rl = FALSE, !.el = el]
             g  == [f EXCEPT !.mode = "descend"]
  <2>1. /\ Top.mode = "dot"
        /\ \/ Out(Top)
           \/ Crash
           \/ More(Top) /\ el # BAD /\ Visit(Top, "dot_back", Top.pc + 1)
           \/ More(Top) /\ el # BAD /\ Go(g)
    BY <1>6 DEF DotElement, In
  <2>2. ASSUME More(Top), el # BAD
        PROVE  g \in Frame
    <3>1. el \in ValueSet /\ ci \in ChildInfo
      BY <1>1, <2>2, ElementType DEF Keeping
    <3> HIDE DEF el, ci
    <3>2. f \in Frame
      BY <1>1, <3>1, Zenon DEF Frame
    <3> HIDE DEF f
    <3>3. "descend" \in WaitingModes \cup ActiveModes
      BY ModeNames
    <3> QED
      BY <3>2, <3>3, Zenon DEF Frame
  <2>3. g.mode = "descend" /\ g.own = 0 /\ g.nb = Top.nb
    BY <1>1, <1>3 DEF Frame
  <2> HIDE DEF g
  <2>4. exc' = FALSE /\ Top.nb >= 0
    BY <1>1, <1>2, <2>1
  <2>5. CASE Out(Top)
    BY <1>1, <1>3, <2>4, <2>5, OutKeeps
  <2>6. CASE More(Top) /\ el # BAD /\ Visit(Top, "dot_back", Top.pc + 1)
    BY <1>1, <1>3, <2>4, <2>6, VisitKeeps
  <2>7. CASE More(Top) /\ el # BAD /\ Go(g)
    BY <1>4, <2>2, <2>3, <2>4, <2>7
  <2> QED
    BY <2>1, <2>5, <2>6, <2>7, CrashKeeps
<1>7. CASE DotBack
  BY <1>1, <1>7, AfterVisitKeeps DEF DotBack, In
<1>8. CASE Descend
  <2> DEFINE el == IF Op(Top) \in CreateOps THEN Refetch(heap, Top.tmp, Top.ci) ELSE Top.el
             f  == [Top EXCEPT !.el = el]
             child == LoopChild(f, el, f.pc, f.ci)
             named == [child EXCEPT !.fn = "dotdot"]
             callee == Start(named, "dot")
             waiting == [f EXCEPT !.mode = "dot_return"]
             next == NextEntry(f, "dot")
  <2>1. Top.mode = "descend" /\ (Crash \/ Enter(waiting, callee) \/ Go(next))
    BY <1>8 DEF Descend, In
  <2>2. el \in ValueSet
    BY <1>1, FrameFields, RefetchType
  <2> HIDE DEF el
  <2>3. f \in Frame
    BY <1>1, <2>2, Zenon DEF Frame
  <2>4. f.own = 0 /\ f.nb = Top.nb
    BY <1>1, <1>3 DEF Frame
  <2> HIDE DEF f
  <2>5. child \in Frame
    BY <2>2, <2>3, FrameFields, NewFrameType DEF LoopChild
  <2>6. child.own = 0 /\ child.nb = 0
    BY <2>4 DEF LoopChild, NewFrame
  <2> HIDE DEF child
  <2>7. named \in Frame
    BY <2>5, Zenon DEF Frame
  <2>8. named.own = 0 /\ named.nb = 0
    BY <2>5, <2>6 DEF Frame
  <2> HIDE DEF named
  <2>9. callee \in Frame /\ callee.mode = "dot" /\ callee.own = 0 /\ callee.nb = 0
    BY <2>7, <2>8, ModeNames, StartType, StartFields DEF Keeping
  <2>10. waiting \in Frame
    BY <2>3, Zenon DEF Frame, WaitingModes
  <2>11. waiting.mode = "dot_return" /\ waiting.own = 0 /\ waiting.nb = Top.nb
    BY <2>3, <2>4 DEF Frame
  <2>12. next \in Frame /\ next.mode = "dot" /\ next.own = 0 /\ next.nb = Top.nb
    BY <2>3, <2>4, ModeNames, NextEntryType, NextEntryFields
  <2> HIDE DEF callee, waiting, next
  <2>13. FrameKept(S, heap, waiting) /\ FrameKept(S, heap, callee) /\ callee.mode \in ActiveModes
    BY <1>1, <2>9, <2>10, <2>11, KeptOwn DEF ActiveModes
  <2> QED
    BY <1>1, <1>2, <1>4, <2>1, <2>9, <2>10, <2>12, <2>13, CrashKeeps, EnterKeeps
<1>9. CASE DotReturn
  BY <1>1, <1>9, AfterVisitKeeps DEF DotReturn, In
<1> QED
  BY <1>5, <1>6, <1>7, <1>8, <1>9

\* Where a clause starts, its operand is a constant.
LEMMA StartClauseKeeps ==
  ASSUME NEW S, Keeping(S), UNCHANGED call, IInv', heap' = heap, exc' = FALSE, Top.own = 0,
         Code(Top.pc).inst \in FilterOps, NEW el \in ValueSet, NEW op \in Nat, IsClause(op),
         Go(StartClause(Top, el, op))
  PROVE  ErrorStep(S)'
<1> DEFINE len == Code(op + 1)
           cnt == IF op # Top.pc /\ len.num > 127 THEN 0 ELSE len.cnt
           f   == StartClause(Top, el, op)
<1>1. Top \in Frame /\ Top.nb \in Nat
  BY KeptTop
<1>2. len.num \in Nat /\ len.cnt \in Nat
  BY CodeType DEF Keeping, IInv
<1>3. ConstantOperands
  BY DEF Keeping, ErrorsKept
<1>4. Code((op + 2) + cnt).inst # "GET_SUBPATH"
  <2>1. CASE cnt = 0 /\ len.num > 127
    BY <1>3, <2>1 DEF ConstantOperands
  <2>2. CASE cnt = len.cnt
    BY <1>2, <1>3, <2>2 DEF ConstantOperands
  <2> QED
    BY <2>1, <2>2
<1>5. /\ f.mode = "crawl" /\ f.own = 0 /\ f.nb = Top.nb /\ f.pc = Top.pc
      /\ f.ow = op + 2 /\ f.cnt = cnt
  BY <1>1 DEF StartClause, Frame
<1>6. cnt >= 0
  BY <1>2
<1> HIDE DEF f, cnt, len
<1>7. FrameKept(S, heap', f) /\ f.mode \in ActiveModes
  BY <1>1, <1>4, <1>5, <1>6 DEF FrameKept, FilterModes, ActiveModes
<1> QED
  BY <1>7, HeapKeptSame, GoKeeps DEF f

\* The comparison is made.
LEMMA JudgeKeeps ==
  ASSUME NEW S, Keeping(S), UNCHANGED call, IInv', heap' = heap, exc' = FALSE, Top.own = 0,
         Code(Top.pc).inst \in FilterOps, NEW ow \in Nat, NEW match, Judge(ow, match)
  PROVE  ErrorStep(S)'
<1> DEFINE f == [Top EXCEPT !.ow = ow, !.mode = "filter_back", !.rl = FALSE]
           callee == LoopChild(f, f.el, ow, IdxInfo(f.i))
           next == NextEntry(Top, "filter")
<1>1. Top \in Frame /\ Top.nb \in Nat
  BY KeptTop
<1>2. Top.el \in ValueSet /\ ow + 1 \in Nat
  BY <1>1, FrameFields
<1>3. \/ Go(next)
      \/ Code(ow).inst = "FILTER_AND" /\ Go(StartClause(Top, Top.el, ow + 1))
      \/ Enter(f, callee)
  BY DEF Judge
<1>4. CASE Go(next)
  <2>1. next \in Frame /\ next.mode = "filter" /\ next.own = 0 /\ next.nb = Top.nb /\ next.pc = Top.pc
    BY <1>1, ModeNames, NextEntryType, NextEntryFields
  <2> HIDE DEF next
  <2>2. FrameKept(S, heap', next) /\ next.mode \in ActiveModes
    BY <1>1, <2>1, KeptOwn DEF ActiveModes
  <2> QED
    BY <1>4, <2>2, HeapKeptSame, GoKeeps
<1>5. CASE Code(ow).inst = "FILTER_AND" /\ Go(StartClause(Top, Top.el, ow + 1))
  <2>1. ow # 0
    <3>1. 0 \notin DOMAIN prog
      BY CallAssumption DEF Keeping, IInv, prog
    <3> QED
      BY <1>5, <3>1 DEF Code, CellAt, Outside, Cell
  <2>2. ow + 1 > 1 /\ (ow + 1) - 1 = ow
    BY <2>1
  <2>3. IsClause(ow + 1)
    BY <1>5, <2>2 DEF IsClause
  <2> QED
    BY <1>2, <1>5, <2>3, StartClauseKeeps
<1>6. CASE Enter(f, callee)
  <2>1. f \in Frame
    BY <1>1, Zenon DEF Frame, WaitingModes
  <2>2. f.own = 0 /\ f.mode = "filter_back" /\ f.nb = Top.nb /\ f.pc = Top.pc
    BY <1>1 DEF Frame
  <2> HIDE DEF f
  <2>3. f.tmp \in ValueSet /\ f.el \in ValueSet /\ f.own \in Nat /\ IdxInfo(f.i) \in ChildInfo
    BY <2>1, FrameFields, InfoType
  <2>4. callee \in Frame
    BY <2>3, NewFrameType DEF LoopChild
  <2>5. callee.mode = "inst" /\ callee.own = 0 /\ callee.nb = 0
    BY <2>2 DEF LoopChild, NewFrame
  <2> HIDE DEF callee
  <2>6. FrameKept(S, heap, f)
    BY <1>1, <2>1, <2>2, KeptOwn
  <2>7. FrameKept(S, heap, callee) /\ callee.mode \in ActiveModes
    BY <2>5, KeptWalking DEF ActiveModes
  <2> QED
    BY <1>6, <2>1, <2>4, <2>6, <2>7, EnterKeeps
<1> QED
  BY <1>3, <1>4, <1>5, <1>6

\* FILTER_KEY_*.
LEMMA FilteringKeeps ==
  ASSUME NEW S, Keeping(S), UNCHANGED call, IInv', Filtering
  PROVE  ErrorStep(S)'
<1>1. /\ Top \in Frame /\ heap \in Heap /\ FrameKept(S, heap, Top)
      /\ Top.pc \in Nat /\ Top.ow \in Nat /\ Top.ow + 1 \in Nat
      /\ Top.nb \in Nat /\ Top.own \in Nat /\ Top.cnt \in Int
      /\ Top.mode \notin WaitingModes => exc = FALSE
  <2>1. /\ Top \in Frame /\ heap \in Heap /\ Top.pc \in Nat /\ Top.nb \in Nat /\ Top.own \in Nat
        /\ FrameKept(S, heap, Top) /\ (Top.mode \notin WaitingModes => exc = FALSE)
    BY KeptTop
  <2>2. Top.ow \in Nat /\ Top.ow + 1 \in Nat /\ Top.cnt \in Int
    BY <2>1, FrameFields
  <2> QED
    BY <2>1, <2>2
<1>2. Top.mode \in {"filter", "crawl", "match"} => exc = FALSE
  BY <1>1 DEF WaitingModes, SubpathModes
<1>3. Top.mode \in FilterModes => Code(Top.pc).inst \in FilterOps
  BY <1>1 DEF FrameKept
<1>4. Top.own = 0
  <2>1. \/ Top.mode \in {"filter", "crawl", "match", "operand", "filter_back"}
        \/ Here.inst \in Branching
    BY DEF Filtering, Filter, FilterElement, Crawl, Match, AfterOperand, FilterBack, At_, In,
           Branching
  <2>2. CASE Top.own > 0
    BY <2>1, <2>2, StraightOn
  <2> QED
    BY <1>1, <2>2
<1>5. CASE Filter
  <2>1. "obj" \in Kinds
    BY DEF Kinds
  <2>2. Here.inst \in FilterOps /\ Top.mode = "inst" /\ PreLoop(Top, "obj", "filter")
    BY <1>5 DEF Filter, At_, In
  <2> QED
    BY <1>4, <2>1, <2>2, PreLoopKeeps
<1>6. CASE FilterElement
  <2> DEFINE next == NextEntry(Top, "filter")
  <2>1. /\ heap' = heap /\ exc' = exc /\ Top.mode = "filter"
        /\ \/ Out(Top)
           \/ Crash
           \/ IsObj(heap, Element(Top)) /\ Go(StartClause(Top, Element(Top), Top.pc))
           \/ Go(next)
    BY <1>6 DEF FilterElement, Data, In
  <2>2. exc' = FALSE /\ Top.nb >= 0 /\ Code(Top.pc).inst \in FilterOps
    BY <1>1, <1>2, <1>3, <2>1 DEF FilterModes
  <2>3. CASE Out(Top)
    BY <1>1, <1>4, <2>1, <2>2, <2>3, OutKeeps
  <2>4. CASE IsObj(heap, Element(Top)) /\ Go(StartClause(Top, Element(Top), Top.pc))
    <3>1. Element(Top) \in ValueSet
      BY <2>4 DEF IsObj, IsKind, ValueSet
    <3>2. IsClause(Top.pc)
      BY <2>2 DEF IsClause
    <3> QED
      BY <1>1, <1>4, <2>1, <2>2, <2>4, <3>1, <3>2, StartClauseKeeps
  <2>5. CASE Go(next)
    <3>1. next \in Frame /\ next.mode = "filter" /\ next.own = 0 /\ next.nb = Top.nb /\ next.pc = Top.pc
      BY <1>1, <1>4, ModeNames, NextEntryType, NextEntryFields
    <3> HIDE DEF next
    <3>2. FrameKept(S, heap', next) /\ next.mode \in ActiveModes
      BY <2>2, <3>1, KeptOwn DEF ActiveModes
    <3> QED
      BY <2>1, <2>2, <2>5, <3>2, HeapKeptSame, GoKeeps
  <2> QED
    BY <2>1, <2>3, <2>4, <2>5, CrashKeeps
<1>7. CASE Crawl
  <2> DEFINE f == [Top EXCEPT !.mode = "match"]
             g == [Top EXCEPT !.el2 = Get(heap, Top.el2, Code(Top.ow).key),
                              !.ow = Top.ow + 1, !.cnt = Top.cnt - 1]
  <2>1. /\ heap' = heap /\ exc' = exc /\ Top.mode = "crawl"
        /\ (Top.cnt = 0 /\ Go(f)) \/ (Top.cnt # 0 /\ Go(g))
    BY <1>7 DEF Crawl, Data, In
  <2>2. exc' = FALSE
    BY <1>2, <2>1
  <2>3. /\ f.mode = "match" /\ f.own = 0 /\ f.nb = Top.nb /\ f.pc = Top.pc /\ f.ow = Top.ow
        /\ f.cnt = Top.cnt /\ f.opn = Top.opn
        /\ g.mode = "crawl" /\ g.own = 0 /\ g.nb = Top.nb /\ g.pc = Top.pc
        /\ g.ow = Top.ow + 1 /\ g.cnt = Top.cnt - 1 /\ g.opn = Top.opn
    BY <1>1, <1>4, <2>1 DEF Frame
  <2> HIDE DEF f, g
  <2>4. /\ Top.cnt >= 0 /\ Code(Top.pc).inst \in FilterOps
        /\ Top.opn # "FILTER_KEY_EXIST" => Code(Top.ow + Top.cnt).inst # "GET_SUBPATH"
    BY <1>1, <2>1 DEF FrameKept, FilterModes
  <2>5. CASE Top.cnt = 0 /\ Go(f)
    <3>1. FrameKept(S, heap', f) /\ f.mode \in ActiveModes
      BY <1>1, <2>3, <2>4, <2>5 DEF FrameKept, FilterModes, ActiveModes
    <3> QED
      BY <2>1, <2>2, <2>5, <3>1, HeapKeptSame, GoKeeps
  <2>6. CASE Top.cnt # 0 /\ Go(g)
    <3>1. g.ow + g.cnt = Top.ow + Top.cnt /\ g.cnt >= 0
      BY <1>1, <2>3, <2>4, <2>6
    <3>2. FrameKept(S, heap', g) /\ g.mode \in ActiveModes
      BY <1>1, <2>3, <2>4, <3>1 DEF FrameKept, FilterModes, ActiveModes
    <3> QED
      BY <2>1, <2>2, <2>6, <3>2, HeapKeptSame, GoKeeps
  <2> QED
    BY <2>1, <2>5, <2>6
<1>8. CASE Match
  <2>1. heap' = heap /\ exc' = exc /\ Top.mode = "match"
    BY <1>8 DEF Match, Data, In
  <2>2. /\ Top.cnt = 0 /\ Code(Top.pc).inst \in FilterOps
        /\ Top.opn # "FILTER_KEY_EXIST" => Code(Top.ow + 0).inst # "GET_SUBPATH"
    BY <1>1, <2>1 DEF FrameKept, FilterModes
  <2>3. Top.ow + 0 = Top.ow
    BY <1>1
  <2>4. \/ \E match : Judge(Top.ow, match) \/ Judge(Top.ow + 1, match) \/ Judge(Top.ow + 2, match)
        \/ Crash
    <3>1. Top.opn # "FILTER_KEY_EXIST" => ConstantAt(Top.opn, Top.ow).inst # "GET_SUBPATH"
      BY <2>2, <2>3 DEF ConstantAt, RegexIsOpcode, ConstOperands, Getters
    <3> QED
      BY <1>8, <3>1 DEF Match
  <2>5. Top.ow + 2 \in Nat
    BY <1>1
  <2> QED
    BY <1>1, <1>2, <1>4, <2>1, <2>2, <2>4, <2>5, JudgeKeeps, CrashKeeps
<1>9. CASE AfterOperand
  BY <1>1, <1>9 DEF AfterOperand, In, FrameKept
<1>10. CASE FilterBack
  BY <1>10, AfterVisitKeeps DEF FilterBack, Data, In
<1> QED
  BY <1>5, <1>6, <1>7, <1>8, <1>9, <1>10 DEF Filtering

\* A member of a union is called.
LEMMA MemberKeeps ==
  ASSUME NEW S, Keeping(S), UNCHANGED call, heap' = heap, exc' = FALSE, Top.own = 0,
         NEW pc \in Nat, Member(pc)
  PROVE  ErrorStep(S)'
<1> DEFINE ci == IF Op(Top) = "remove" THEN Top.ci ELSE InfoSet(heap, Top.tmp, NoKey, 0)
           f  == [Top EXCEPT !.mode = "union", !.pc = pc, !.cnt = 0, !.rl = FALSE]
           callee == NewFrame(pc, Top.tmp, NULL, ci, Top.own)
<1>1. Top \in Frame /\ Top.nb \in Nat
  BY KeptTop
<1>2. Enter(f, callee)
  BY DEF Member
<1>3. ci \in ChildInfo
  <2>1. 0 \in Int /\ NoKey \in Text
    BY DEF Text
  <2>2. InfoSet(heap, Top.tmp, NoKey, 0) \in ChildInfo
    BY <2>1, InfoType
  <2> QED
    BY <1>1, <2>2, FrameFields
<1>4. Top.tmp \in ValueSet /\ Top.own \in Nat /\ NULL \in ValueSet /\ 0 \in Int
  BY <1>1, FrameFields DEF ValueSet
<1> HIDE DEF ci
<1>5. callee \in Frame
  BY <1>3, <1>4, NewFrameType
<1>6. callee.mode = "inst" /\ callee.own = 0 /\ callee.nb = 0
  BY DEF NewFrame
<1>7. f \in Frame
  BY <1>1, <1>4, Zenon DEF Frame, WaitingModes
<1>8. f.mode = "union" /\ f.own = 0 /\ f.nb = Top.nb
  BY <1>1 DEF Frame
<1> HIDE DEF f, callee
<1>9. FrameKept(S, heap, f)
  BY <1>1, <1>7, <1>8, KeptOwn
<1>10. FrameKept(S, heap, callee) /\ callee.mode \in ActiveModes
  BY <1>6, KeptWalking DEF ActiveModes
<1> QED
  BY <1>2, <1>5, <1>7, <1>9, <1>10, EnterKeeps

\* GET_UNION, UNION_JMP and UNION_END.
LEMMA UnionKeeps ==
  ASSUME NEW S, Keeping(S), UNCHANGED call, IInv', Union
  PROVE  ErrorStep(S)'
<1>1. /\ Top \in Frame /\ heap' = heap /\ exc' = exc
      /\ Top.pc \in Nat /\ Top.pc + 1 \in Nat /\ NextInst(prog, Top.pc) \in Nat
      /\ NextInst(prog, Top.pc) + 1 \in Nat
      /\ Top.nb \in Nat /\ Top.own \in Nat /\ Top.cnt \in Int
      /\ Top.mode \notin WaitingModes => exc = FALSE
  <2>1. /\ Top \in Frame /\ Top.pc \in Nat /\ Top.nb \in Nat /\ Top.own \in Nat
        /\ (Top.mode \notin WaitingModes => exc = FALSE)
    BY KeptTop
  <2>2. Top.pc + 1 \in Nat /\ Top.cnt \in Int
    BY <2>1, FrameFields
  <2>3. NextInst(prog, Top.pc) \in Nat /\ NextInst(prog, Top.pc) + 1 \in Nat
    BY <2>1 DEF NextInst
  <2>4. heap' = heap /\ exc' = exc
    BY DEF Union, GetUnion, AfterMember, NextMember, UnionJmp, SkipUnion, UnionEnd, Data
  <2> QED
    BY <2>1, <2>2, <2>3, <2>4
<1>2. Top.mode \in {"inst", "skip", "member"} => exc = FALSE
  BY <1>1 DEF WaitingModes, SubpathModes
<1>3. UnionEnd \/ Top.own = 0
  <2>1. \/ Top.mode \in {"union", "member", "skip"}
        \/ Here.inst \in Branching
        \/ UnionEnd
    BY DEF Union, GetUnion, AfterMember, NextMember, UnionJmp, SkipUnion, At_, In, Branching
  <2>2. CASE Top.own > 0
    BY <2>1, <2>2, StraightOn
  <2> QED
    BY <1>1, <2>2
<1>4. ASSUME NEW f \in Frame, Go(f), exc' = FALSE, f.own = 0, f.nb = Top.nb,
             f.mode \in {"inst", "skip", "member"}
      PROVE  ErrorStep(S)'
  <2>1. FrameKept(S, heap', f) /\ f.mode \in ActiveModes
    BY <1>1, <1>4, KeptOwn DEF ActiveModes
  <2> QED
    BY <1>1, <1>4, <2>1, HeapKeptSame, GoKeeps
<1>5. CASE GetUnion
  <2>1. Top.mode = "inst" /\ Member(Top.pc + 1) /\ Top.own = 0
    <3>1. Top.mode = "inst" /\ Member(Top.pc + 1) /\ Here.inst = "GET_UNION"
      BY <1>5 DEF GetUnion, At_, In
    <3>2. ~UnionEnd
      BY <3>1 DEF UnionEnd, At_
    <3> QED
      BY <1>3, <3>1, <3>2
  <2> QED
    BY <1>1, <1>2, <2>1, MemberKeeps
<1>6. CASE AfterMember
  <2>1. Top.mode = "union" /\ AfterVisit("UNION", "union", "member")
    BY <1>6 DEF AfterMember, In
  <2>2. Verdict(Top, ret, "UNION") # "again"
    <3>1. Top.own = 0
      <4>1. ~UnionEnd
        BY <2>1 DEF UnionEnd, At_, In
      <4> QED
        BY <1>3, <4>1
    <3>2. Op(Top) = call.op
      BY <3>1 DEF Op
    <3>3. call.op \in {"update_or_create", "update_or_create_callback", "callback"}
      BY KeptTop
    <3> QED
      BY <3>2, <3>3 DEF Verdict
  <2> QED
    BY <1>1, <2>1, <2>2, AfterVisitKeeps
<1>7. CASE NextMember
  <2> DEFINE q == NextInst(prog, Top.pc)
             f == [Top EXCEPT !.pc = q]
             up == [f EXCEPT !.cnt = Top.cnt + 1]
             down == [f EXCEPT !.cnt = Top.cnt - 1]
  <2>1. /\ Top.mode = "member"
        /\ Crash \/ Go(up) \/ Member(q + 1) \/ Out(f) \/ Go(down) \/ Go(f)
    BY <1>7 DEF NextMember, In
  <2>2. Top.own = 0 /\ exc' = FALSE
    <3>1. ~UnionEnd
      BY <2>1 DEF UnionEnd, At_, In
    <3> QED
      BY <1>1, <1>2, <1>3, <2>1, <3>1
  <2>3. f \in Frame
    BY <1>1, ModeNames, ModeType
  <2>4. f.mode = "member" /\ f.own = 0 /\ f.nb = Top.nb
    BY <1>1, <2>1, <2>2 DEF Frame
  <2> HIDE DEF f
  <2>5. up \in Frame /\ down \in Frame
    <3>1. Top.cnt + 1 \in Int /\ Top.cnt - 1 \in Int
      BY <1>1
    <3> QED
      BY <2>3, <3>1, Zenon DEF Frame
  <2>6. /\ up.mode = "member" /\ up.own = 0 /\ up.nb = Top.nb
        /\ down.mode = "member" /\ down.own = 0 /\ down.nb = Top.nb
    BY <2>3, <2>4 DEF Frame
  <2> HIDE DEF up, down, q
  <2>7. CASE Member(q + 1)
    BY <1>1, <2>2, <2>7, MemberKeeps DEF q
  <2>8. CASE Out(f)
    <3>1. f.nb >= 0
      BY <1>1, <2>4
    <3> QED
      BY <1>1, <2>2, <2>3, <2>4, <2>8, <3>1, OutKeeps
  <2> QED
    BY <1>4, <2>1, <2>2, <2>3, <2>4, <2>5, <2>6, <2>7, <2>8, CrashKeeps
<1>8. CASE UnionJmp
  <2> DEFINE f == [Top EXCEPT !.mode = "skip", !.cnt = 0]
  <2>1. Go(f) /\ Top.mode = "inst" /\ Here.inst = "UNION_JMP"
    BY <1>8 DEF UnionJmp, At_, In
  <2>2. Top.own = 0 /\ exc' = FALSE
    <3>1. ~UnionEnd
      BY <2>1 DEF UnionEnd, At_
    <3> QED
      BY <1>1, <1>2, <1>3, <2>1, <3>1
  <2>3. f \in Frame
    <3>1. "skip" \in WaitingModes \cup ActiveModes /\ 0 \in Int
      BY ModeNames
    <3> QED
      BY <1>1, <3>1, Zenon DEF Frame
  <2>4. f.mode = "skip" /\ f.own = 0 /\ f.nb = Top.nb
    BY <1>1, <2>2 DEF Frame
  <2> HIDE DEF f
  <2> QED
    BY <1>4, <2>1, <2>2, <2>3, <2>4
<1>9. CASE SkipUnion
  <2> DEFINE q == NextInst(prog, Top.pc)
             f1 == [Top EXCEPT !.mode = "inst", !.pc = Top.pc + 1]
             f2 == [Top EXCEPT !.pc = q, !.cnt = Top.cnt + 1]
             f3 == [Top EXCEPT !.pc = q + 1, !.cnt = Top.cnt - 1]
             f4 == [Top EXCEPT !.pc = q]
  <2>1. Top.mode = "skip" /\ (Go(f1) \/ Crash \/ Go(f2) \/ Go(f3) \/ Go(f4))
    BY <1>9 DEF SkipUnion, In
  <2>2. Top.own = 0 /\ exc' = FALSE
    <3>1. ~UnionEnd
      BY <2>1 DEF UnionEnd, At_, In
    <3> QED
      BY <1>1, <1>2, <1>3, <2>1, <3>1
  <2>3. f1 \in Frame /\ f2 \in Frame /\ f3 \in Frame /\ f4 \in Frame
    <3>1. q \in Nat /\ q + 1 \in Nat /\ Top.cnt + 1 \in Int /\ Top.cnt - 1 \in Int
      BY <1>1
    <3>2. "inst" \in WaitingModes \cup ActiveModes
      BY ModeNames
    <3> HIDE DEF q
    <3> QED
      BY <1>1, <3>1, <3>2, Zenon DEF Frame
  <2>4. \A f \in {f1, f2, f3, f4} : f.mode \in {"inst", "skip"} /\ f.own = 0 /\ f.nb = Top.nb
    BY <1>1, <2>1, <2>2 DEF Frame
  <2> HIDE DEF f1, f2, f3, f4
  <2> QED
    BY <1>4, <2>1, <2>2, <2>3, <2>4, CrashKeeps
<1>10. CASE UnionEnd
  <2> DEFINE f == [Top EXCEPT !.pc = Top.pc + 1]
  <2>1. Go(f) /\ Top.mode = "inst" /\ Here.inst = "UNION_END"
    BY <1>10 DEF UnionEnd, At_, In
  <2>2. f.mode = "inst" /\ f.own = Top.own /\ f.nb = Top.nb /\ f.pc = Top.pc + 1
    BY <1>1, <2>1 DEF Frame
  <2> HIDE DEF f
  <2>3. FrameKept(S, heap', f)
    BY <1>1, <2>1, <2>2, StraightOn, KeptWalking
  <2>4. f.mode \in ActiveModes
    BY <2>2 DEF ActiveModes
  <2> QED
    BY <1>1, <1>2, <2>1, <2>3, <2>4, HeapKeptSame, GoKeeps
<1> QED
  BY <1>5, <1>6, <1>7, <1>8, <1>9, <1>10 DEF Union

--------------------------------------------------------------------------------
(***************************************************************************)
(* The theorem.                                                            *)
(***************************************************************************)

\* The bare path of an update is one instruction, and one step.
LEMMA BareStep ==
  ASSUME IInv, status = "run", BareUpdate, exc = FALSE, Next, ~Begin, ~Finished,
         stack = <<NewFrame(1, call.root, NULL, NoInfo, 0)>>
  PROVE  status' = "done" /\ (exc' <=> ret'.int < 0)
<1> DEFINE f == NewFrame(1, call.root, NULL, NoInfo, 0)
<1>1. f.mode = "inst" /\ f.pc = 1 /\ f.own = 0
  BY DEF NewFrame
<1>2. Depth = 1 /\ Top = f
  <2> HIDE DEF f
  <2>1. stack = <<f>>
    BY DEF f
  <2> QED
    BY <2>1 DEF Depth, Top
<1> HIDE DEF f
<1>3. Top.mode = "inst" /\ Here.inst = "ROOT" /\ Op(Top) = "update_or_create"
  BY <1>1, <1>2 DEF Here, BareUpdate, Op
<1>4. Code(Top.pc + 1).inst \in Endish
  BY <1>1, <1>2 DEF BareUpdate
<1>5. Root
  BY <1>3
     DEF Next, Return, ReturnFound, ReturnRemove, ReturnUpdate, ReturnCallback, SwitchRoot,
         TypeCheck, Unimplemented, Executable, Getting, GetObj, GetArray, ScanForOr, GetSubpath,
         AfterSubpath, Looping, GetAll, AllElement, AllBack, GetRange, RangeElement,
         RangeBack, FindAll, DotElement, DotBack, Descend, DotReturn, Filtering, Filter,
         FilterElement, Crawl, Match, AfterOperand, FilterBack, Union, GetUnion,
         AfterMember, NextMember, UnionJmp, SkipUnion, UnionEnd, At_, In, Endish, FilterOps
<1>6. \/ Leave(Count(1)) /\ exc' = exc
      \/ Fail
  BY <1>3, <1>4, <1>5 DEF Root, CreateOps
<1>7. Leave(Count(1)) \/ (Leave(Count(-1)) /\ exc' = TRUE)
  BY <1>3, <1>6 DEF Fail, ErrorOf, FindOps
<1>8. ASSUME NEW r, Leave(r)
      PROVE  status' = "done" /\ ret' = r
  BY <1>2, <1>8 DEF Leave, LeaveFrom
<1>9. Count(1).int = 1 /\ Count(-1).int = -1
  BY DEF Count
<1> QED
  BY <1>3, <1>6, <1>7, <1>8, <1>9 DEF Fail, ErrorOf, FindOps

\* The call starts: a path that did not compile is an error.
LEMMA BeginErrors ==
  ASSUME NEW S, IInv, IInv', ErrorsKept(S), Begin
  PROVE  ErrorStep(S)'
<1>1. heap = call.doc /\ exc = FALSE /\ UNCHANGED <<call, heap>> /\ call \in Calls
  BY DEF Begin, IInv, NotBegun
<1> DEFINE f == NewFrame(1, call.root, NULL, NoInfo, 0)
<1>2. CASE stack' = <<f>> /\ status' = "run" /\ exc' = exc
  <2>1. f.mode = "inst" /\ f.own = 0 /\ f.nb = 0
    BY DEF NewFrame
  <2>2. Top' = f /\ Depth' = 1 /\ stack'[1] = f
    <3> HIDE DEF f
    <3>1. stack' = <<f>>
      BY <1>2
    <3> QED
      BY <3>1 DEF Top, Depth
  <2>3. call' = call
    BY <1>1
  <2>4. stack' = <<NewFrame(1, call'.root, NULL, NoInfo, 0)>>
    BY <1>2, <2>3
  <2> HIDE DEF f
  <2>5. f.mode \notin WaitingModes /\ f.mode # "subpath"
    BY <2>1 DEF WaitingModes, SubpathModes
  <2>6. CallerTold'
    BY <1>1, <1>2, <2>2, <2>5 DEF CallerTold
  <2>7. FreeIsEmpty(heap')
    BY <1>1, CallAssumption DEF FreeIsEmpty
  <2>8. FrameKept(S, heap', f)
    BY <2>1, KeptWalking
  <2>9. (\A d \in 1..Depth : FrameKept(S, heap, stack[d]))'
    <3>1. \A d \in 1..Depth' : FrameKept(S, heap', stack'[d])
      BY <2>2, <2>8
    <3> QED
      BY <2>3, <3>1 DEF FrameKept, Code, prog
  <2>10. ErrorOK(S)'
    BY <2>6, <2>7, <2>9 DEF ErrorOK, FreeIsEmpty
  <2> QED
    BY <1>1, <1>2, <2>4, <2>10 DEF ErrorStep
<1>3. CASE status' = "done" /\ exc' = TRUE /\ ret' = ErrorOf(call.op)
  <2>1. ErrorOf(call.op).int < 0
    BY DEF ErrorsKept, CreateOps, FindOps, ErrorOf, Count
  <2> QED
    BY <1>3, <2>1 DEF ErrorStep
<1> QED
  BY <1>2, <1>3 DEF Begin

LEMMA NextErrors ==
  ASSUME IInv, IInv', ErrorInv, [Next]_vars
  PROVE  ErrorInv'
<1>1. call' = call
  BY Running DEF Begin, Finished, vars
<1> SUFFICES ASSUME NEW S \in SUBSET Nat, ErrorsKept(S)'
             PROVE  ErrorStep(S)'
  BY DEF ErrorInv
<1>2. ErrorsKept(S)
  BY <1>1
     DEF ErrorsKept, StraightSubpaths, ConstantOperands, IsClause, NoUpdateFilter, RootStaysPut,
         Code, prog
<1>3. ErrorStep(S)
  BY <1>2 DEF ErrorInv
<1>4. CASE Begin
  BY <1>2, <1>4, BeginErrors
<1>5. CASE Finished \/ UNCHANGED vars
  BY <1>3, <1>5
     DEF Finished, vars, ErrorStep, ErrorOK, FrameKept, FreeIsEmpty, CallerTold, BareUpdate,
         Top, Depth, Code, prog
<1>6. CASE Next /\ ~Begin /\ ~Finished
  <2>1. status = "run" /\ call' = call
    BY <1>6, Running
  <2>2. CASE BareUpdate
    BY <1>3, <1>6, <2>1, <2>2, BareStep DEF ErrorStep
  <2>3. CASE ~BareUpdate
    <3>1. Keeping(S)
      BY <1>2, <1>3, <2>1, <2>3 DEF Keeping, ErrorStep
    <3> QED
      BY <1>6, <2>1, <3>1, ReturnKeeps, RootsKeep, GettingKeeps, AllAndRangeKeep,
         DescentKeeps, FilteringKeeps, UnionKeeps
         DEF Next, Looping
  <2> QED
    BY <2>2, <2>3
<1> QED
  BY <1>4, <1>5, <1>6

LEMMA InitErrors == Init => ErrorInv
  BY DEF Init, ErrorInv, ErrorStep

\* An error met anywhere below reaches the caller of the API as -1, and -1 is
\* never returned without one, for the operations that return a count and every
\* program whose sub-paths go straight to their value, whose filters compare
\* with constants and which, for update_or_create, has no filter and replaces
\* the root alone: where the engine drops an error, one of these is missing.
THEOREM NoErrorIsLost ==
  Spec => []((\E S \in SUBSET Nat : ErrorsKept(S)) => ErrorsReachTheCaller)
<1>1. ErrorInv => ((\E S \in SUBSET Nat : ErrorsKept(S)) => ErrorsReachTheCaller)
  BY DEF ErrorInv, ErrorStep, ErrorsReachTheCaller
<1> QED
  BY <1>1, InitIInv, NextIInv, InitErrors, NextErrors, PTL DEF Spec

================================================================================
