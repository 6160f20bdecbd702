------------------------- MODULE CsonpathChild_proofs --------------------------
(***************************************************************************)
(* The children of the containers that a call writes to: what child_info   *)
(* designates at the end of a path is the match, and what a loop that is   *)
(* started over has lost.                                                  *)
(***************************************************************************)
EXTENDS CsonpathDo_proofs

(***************************************************************************)
(* What child_info designates at the end of a path: for every program, the *)
(* operations that remove, write or call back do it to the match.          *)
(***************************************************************************)

\* The keys of an object are different, as a Python dictionary and a json-c
\* object guarantee.  (yyjson keeps both entries of {"a":1,"a":2}.)
UniqueIn(kids) == \A i, j \in DOMAIN kids : kids[i].key = kids[j].key => i = j
UniqueKeys(h)  == \A n \in Nodes : h[n].kind = "obj" => UniqueIn(h[n].kids)

(***************************************************************************)
(* What is known of a frame of the operation itself, when the document is  *)
(* h.  While instructions are executed, child_info designates the current  *)
(* value in ctx; a scan for an OR has no current value; while a filter     *)
(* looks at an entry, the loop variable is that entry; and on yyjson a     *)
(* range begins no later than at the second entry, where the index and the *)
(* element are still in step.                                              *)
(***************************************************************************)
WalkModes   == {"inst", "skip", "subpath"}
ClauseModes == {"crawl", "match", "operand"}
InRange(c, f) == c.be = "yyjson" /\ f.mode \in {"range", "range_back"} => f.ow <= 1
Designates(c, h, f) ==
  f.own = 0 =>
    /\ f.mode \in WalkModes /\ f.ctx # NULL /\ f.tmp # NULL => Refetch(h, f.ctx, f.ci) = f.tmp
    /\ f.mode = "scan" => f.tmp = NULL
    /\ f.mode \in ClauseModes /\ f.tmp # NULL /\ f.el # NULL =>
         Refetch(h, f.tmp, IdxInfo(f.i)) = f.el
    /\ InRange(c, f)

\* No range of the path begins behind the second entry, if yyjson walks it.
RangesInStep(c) ==
  c.be = "yyjson" =>
    \A q \in DOMAIN c.prog : c.prog[q].inst = "RANGE" => CellAt(c.prog, q + 1).num <= 1

MatchHyp == call.op \notin FindOps /\ UniqueKeys(call.doc) /\ RangesInStep(call)
MatchOK  == UniqueKeys(heap) /\ \A d \in 1..Depth : Designates(call, heap, stack[d])
MatchInv == status = "run" /\ MatchHyp => MatchOK

--------------------------------------------------------------------------------
(***************************************************************************)
(* The mutators keep the keys of an object different.                      *)
(***************************************************************************)

\* The keys of an object are those of its list of entries.
LEMMA UniqueUpdate ==
  ASSUME NEW h \in Heap, UniqueKeys(h), NEW n \in Nodes, NEW kids,
         h[n].kind = "obj" => UniqueIn(kids)
  PROVE  UniqueKeys([h EXCEPT ![n].kids = kids])
<1> DEFINE g == [h EXCEPT ![n].kids = kids]
<1>1. \A m \in Nodes : g[m].kind = h[m].kind
                       /\ g[m].kids = IF m = n THEN kids ELSE h[m].kids
  BY DEF Heap, Node
<1> HIDE DEF g
<1>2. UniqueKeys(g)
  BY <1>1 DEF UniqueKeys
<1> QED
  BY <1>2 DEF g

LEMMA UniqueRelease ==
  ASSUME NEW h \in Heap, UniqueKeys(h), NEW n, NEW pinned
  PROVE  UniqueKeys(Release(h, n, pinned))
<1> DEFINE g == Release(h, n, pinned)
<1>1. \A m \in Nodes : g[m].kids = h[m].kids
                       /\ (g[m].kind = h[m].kind \/ g[m].kind = "freed")
  BY ReleaseEffect
<1> HIDE DEF g
<1>2. UniqueKeys(g)
  BY <1>1 DEF UniqueKeys
<1> QED
  BY <1>2 DEF g

LEMMA UniqueAllocate ==
  ASSUME NEW h \in Heap, UniqueKeys(h), NEW kind \in Kinds, FreeNodes(h) # {}
  PROVE  UniqueKeys(Allocate(h, kind))
<1> DEFINE n == NewNode(h)
           g == [h EXCEPT ![n] = Blank(kind)]
<1>1. n \in Nodes
  BY AllocateType
<1> HIDE DEF n
<1>2. \A m \in Nodes : m # n => g[m] = h[m]
  BY <1>1 DEF Heap
<1>3. g[n] = Blank(kind)
  BY <1>1 DEF Heap
<1>4. UniqueIn(Blank(kind).kids)
  BY DEF UniqueIn, Blank
<1> HIDE DEF g
<1>5. UniqueKeys(g)
  BY <1>2, <1>3, <1>4 DEF UniqueKeys
<1> QED
  BY <1>5 DEF g, n, Allocate

\* A list of entries without one of them, with another value in one of them,
\* and with an entry for a new key.
LEMMA UniqueRemoveKid ==
  ASSUME NEW s \in Seq(Entry), UniqueIn(s), NEW i \in DOMAIN s
  PROVE  UniqueIn(RemoveKid(s, i))
<1>1. i \in 1..Len(s) /\ Len(s) \in Nat
  OBVIOUS
<1>2. DOMAIN RemoveKid(s, i) = 1..(Len(s) - 1)
  BY DEF RemoveKid
<1> SUFFICES ASSUME NEW j \in 1..(Len(s) - 1), NEW k \in 1..(Len(s) - 1),
                    RemoveKid(s, i)[j].key = RemoveKid(s, i)[k].key
             PROVE  j = k
  BY <1>2 DEF UniqueIn
<1> DEFINE from(m) == IF m < i THEN m ELSE m + 1
<1>3. RemoveKid(s, i)[j] = s[from(j)] /\ RemoveKid(s, i)[k] = s[from(k)]
  BY DEF RemoveKid
<1>4. from(j) \in DOMAIN s /\ from(k) \in DOMAIN s
  BY <1>1
<1>5. from(j) = from(k)
  <2> HIDE DEF from
  <2> QED
    BY <1>3, <1>4 DEF UniqueIn
<1> QED
  BY <1>1, <1>5

LEMMA UniqueSetAt ==
  ASSUME NEW s \in Seq(Entry), UniqueIn(s), NEW i \in DOMAIN s, NEW v \in ValueSet
  PROVE  UniqueIn([s EXCEPT ![i].at = v])
<1> DEFINE t == [s EXCEPT ![i].at = v]
<1>1. DOMAIN t = DOMAIN s
  OBVIOUS
<1>2. \A j \in DOMAIN s : t[j].key = s[j].key
  BY DEF Entry
<1> HIDE DEF t
<1>3. UniqueIn(t)
  BY <1>1, <1>2 DEF UniqueIn
<1> QED
  BY <1>3 DEF t

LEMMA UniqueAppend ==
  ASSUME NEW s \in Seq(Entry), UniqueIn(s), NEW e \in Entry,
         \A i \in DOMAIN s : s[i].key # e.key
  PROVE  UniqueIn(Append(s, e))
<1>1. /\ Len(Append(s, e)) = Len(s) + 1 /\ DOMAIN Append(s, e) = 1..(Len(s) + 1)
      /\ \A i \in 1..Len(s) : Append(s, e)[i] = s[i]
      /\ Append(s, e)[Len(s) + 1] = e
  BY AppendProperties
<1>2. DOMAIN s = 1..Len(s) /\ Len(s) \in Nat
  OBVIOUS
<1> SUFFICES ASSUME NEW i \in 1..(Len(s) + 1), NEW j \in 1..(Len(s) + 1),
                    Append(s, e)[i].key = Append(s, e)[j].key
             PROVE  i = j
  BY <1>1 DEF UniqueIn
<1>3. CASE i \in 1..Len(s) /\ j \in 1..Len(s)
  BY <1>1, <1>2, <1>3 DEF UniqueIn
<1>4. CASE ~(i \in 1..Len(s) /\ j \in 1..Len(s))
  BY <1>1, <1>2, <1>4
<1> QED
  BY <1>3, <1>4

\* CSONPATH_REMOVE_CHILD.
LEMMA UniqueRemoveChild ==
  ASSUME NEW b, NEW h \in Heap, UniqueKeys(h), NEW n, NEW ci \in ChildInfo, NEW pinned
  PROVE  UniqueKeys(RemoveChild(b, h, n, ci, pinned))
<1> DEFINE kids == h[n].kids
           hit  == CASE ci.type = "STR"     -> IF IsObj(h, n) THEN KeyIndex(h, n, ci.key)
                                                              ELSE {}
                     [] ci.type = "INTEGER" -> IF IsArray(h, n)
                                               THEN {ci.idx + 1} \cap DOMAIN kids ELSE {}
                     [] OTHER               -> {}
           i    == CHOOSE j \in hit : TRUE
           left == IF ci.type = "INTEGER" /\ b = "json_c"
                   THEN [kids EXCEPT ![i].at = NULL]
                   ELSE RemoveKid(kids, i)
<1>1. CASE n \notin Nodes \/ hit = {}
  BY <1>1 DEF RemoveChild
<1>2. CASE n \in Nodes /\ hit # {}
  <2>1. kids \in Seq(Entry)
    BY <1>2, KidsType
  <2>2. hit \subseteq DOMAIN kids
    BY DEF KeyIndex
  <2>3. i \in DOMAIN kids
    BY <1>2, <2>2
  <2>4. NULL \in ValueSet
    BY DEF ValueSet
  <2>5. h[n].kind = "obj" => UniqueIn(kids)
    BY <1>2 DEF UniqueKeys
  <2>6. left \in Seq(Entry) /\ (h[n].kind = "obj" => UniqueIn(left))
    <3> HIDE DEF i, kids
    <3> QED
      BY <2>1, <2>3, <2>4, <2>5, RemoveKidType, SetAtType, UniqueRemoveKid, UniqueSetAt
  <2>7. [h EXCEPT ![n].kids = left] \in Heap /\ UniqueKeys([h EXCEPT ![n].kids = left])
    <3> HIDE DEF left
    <3> QED
      BY <1>2, <2>6, KidsUpdate, UniqueUpdate
  <2>8. UniqueKeys(Release([h EXCEPT ![n].kids = left], kids[i].at, pinned))
    <3> HIDE DEF left, i, kids
    <3> QED
      BY <2>7, UniqueRelease
  <2> QED
    BY <1>2, <2>8 DEF RemoveChild
<1> QED
  BY <1>1, <1>2

\* CSONPATH_APPEND_AT, on a container of the right type.
LEMMA UniqueAppendAt ==
  ASSUME NEW h \in Heap, UniqueKeys(h), NEW n \in Nodes, NEW ci \in ChildInfo,
         NEW v \in ValueSet, NEW pinned,
         ci.type # "STR" => IsArray(h, n)
  PROVE  UniqueKeys(AppendAt(h, n, ci, v, pinned))
<1> DEFINE kids == h[n].kids
           hit  == KeyIndex(h, n, ci.key)
           i    == IF ci.type = "STR"
                   THEN IF hit # {} THEN CHOOSE j \in hit : TRUE ELSE Len(kids) + 1
                   ELSE ci.idx + 1
           new  == IF i \in DOMAIN kids THEN [kids EXCEPT ![i].at = v]
                   ELSE IF ci.type = "STR" THEN Append(kids, [key |-> ci.key, at |-> v])
                   ELSE [Padded(kids, ci.idx) EXCEPT ![i].at = v]
           old  == IF i \in DOMAIN kids THEN kids[i].at ELSE NULL
<1>1. CASE i > 0
  <2>1. kids \in Seq(Entry)
    BY KidsType
  <2>2. h[n].kind = "obj" => UniqueIn(kids) /\ ci.type = "STR"
    BY DEF UniqueKeys, IsArray, IsKind
  <2>3. [key |-> ci.key, at |-> v] \in Entry
    BY DEF ChildInfo, Entry
  <2>4. ci.type = "STR" /\ i \notin DOMAIN kids => \A j \in DOMAIN kids : kids[j].key # ci.key
    BY DEF KeyIndex
  <2>5. h[n].kind = "obj" => UniqueIn(new)
    <3> HIDE DEF i, kids
    <3> QED
      BY <2>1, <2>2, <2>3, <2>4, UniqueSetAt, UniqueAppend
  <2>6. [h EXCEPT ![n].kids = new] \in Heap
    <3>1. AppendAt(h, n, ci, v, {}) \in Heap
      BY AppendAtType
    <3>2. Release([h EXCEPT ![n].kids = new], old, Nodes) = [h EXCEPT ![n].kids = new]
      BY DEF Release
    <3>3. AppendAt(h, n, ci, v, Nodes) = Release([h EXCEPT ![n].kids = new], old, Nodes)
      BY <1>1 DEF AppendAt
    <3> QED
      BY <3>2, <3>3, AppendAtType
  <2>7. UniqueKeys([h EXCEPT ![n].kids = new])
    <3> HIDE DEF new
    <3> QED
      BY <2>5, UniqueUpdate
  <2>8. UniqueKeys(Release([h EXCEPT ![n].kids = new], old, pinned))
    <3> HIDE DEF new, old
    <3> QED
      BY <2>6, <2>7, UniqueRelease
  <2> QED
    BY <1>1, <2>8 DEF AppendAt
<1>2. CASE ~(i > 0)
  BY <1>2 DEF AppendAt
<1> QED
  BY <1>1, <1>2

--------------------------------------------------------------------------------
(***************************************************************************)
(* What is read where: child_info of a loop and of a getter designates     *)
(* what the loop or the getter goes on with.                               *)
(***************************************************************************)

\* Entry i of a container is what child_info finds again.
LEMMA RefetchEntry ==
  ASSUME NEW h \in Heap, UniqueKeys(h), NEW n \in Nodes, NEW i \in Nat, i < Size(h, n)
  PROVE  /\ IsObj(h, n)   => Refetch(h, n, KeyInfo(h[n].kids[i + 1].key)) = h[n].kids[i + 1].at
         /\ IsArray(h, n) => Refetch(h, n, IdxInfo(i)) = h[n].kids[i + 1].at
<1> DEFINE k == i + 1
<1>1. k \in 1..Size(h, n) /\ DOMAIN h[n].kids = 1..Size(h, n)
  BY KidsType
<1>2. ASSUME IsObj(h, n)
      PROVE  Get(h, n, h[n].kids[k].key) = h[n].kids[k].at
  <2> DEFINE hits == KeyIndex(h, n, h[n].kids[k].key)
  <2>1. UniqueIn(h[n].kids)
    BY <1>2 DEF UniqueKeys, IsObj, IsKind
  <2>2. hits = {k}
    BY <1>1, <2>1 DEF KeyIndex, UniqueIn
  <2>3. (CHOOSE j \in hits : TRUE) = k
    <3> HIDE DEF hits, k
    <3> QED
      BY <2>2
  <2> HIDE DEF k
  <2> QED
    BY <1>2, <2>2, <2>3 DEF Get
<1>3. ASSUME IsArray(h, n)
      PROVE  At(h, n, i) = h[n].kids[k].at
  BY <1>3 DEF At
<1> QED
  BY <1>2, <1>3 DEF Refetch, KeyInfo, IdxInfo

\* The entry a loop is at.
LEMMA ElementDesignated ==
  ASSUME IInv, UniqueKeys(heap), NEW f \in Frame, More(f), Element(f) # BAD, Element(f) # NULL,
         InRange(call, f)
  PROVE  Refetch(heap, f.tmp, CurrentInfo(f)) = Element(f)
<1>1. f.i \in Nat /\ heap \in Heap /\ f.tmp \in Nodes
  BY FrameFields, ElementType DEF IInv, TypeOK
<1>2. f.i < Size(heap, f.tmp) /\ Element(f) = heap[f.tmp].kids[f.i + 1].at
  BY EntryAtType DEF Element, Fetch, InRange, be
<1>3. IsObj(heap, f.tmp) \/ IsArray(heap, f.tmp)
  BY <1>1 DEF More
<1> QED
  BY <1>1, <1>2, <1>3, RefetchEntry DEF CurrentInfo

\* A key finds something in an object only, an index in an array only.
LEMMA RefetchKind ==
  ASSUME NEW h, NEW n
  PROVE  /\ \A key : Refetch(h, n, KeyInfo(key)) # NULL => IsObj(h, n)
         /\ \A idx : Refetch(h, n, IdxInfo(idx)) # NULL => IsArray(h, n)
  BY DEF Refetch, KeyInfo, IdxInfo, Get, At

\* CSONPATH_UPDATE_CHECK_EXIST keeps the keys different.
LEMMA CheckExistMatches ==
  ASSUME IInv, UniqueKeys(heap), NEW f \in Frame, NEW kind \in Kinds
  PROVE  LET e == CheckExist(f, kind) IN
         /\ UniqueKeys(e.h)
         /\ e.f.mode = f.mode
         /\ e.ok => e.f.tmp # NULL /\ (f.tmp # NULL => e.f = f)
                    /\ (f.tmp = NULL => e.f.ctx = e.f.tmp)
<1> DEFINE n == NewNode(heap)
           h == Allocate(heap, kind)
           g == [f EXCEPT !.tmp = n, !.ctx = n]
           e == CheckExist(f, kind)
<1>1. heap \in Heap /\ NULL \notin Nodes
  BY DocAssumption DEF IInv, TypeOK
<1>2. CASE e.h = heap /\ e.f = f /\ (e.ok => f.tmp # NULL)
  BY <1>2
<1>3. CASE /\ CanAppend(be, heap, f.ctx, f.ci) /\ FreeNodes(heap) # {} /\ f.tmp = NULL
           /\ e.h = AppendAt(h, f.ctx, f.ci, n, Pinned) /\ e.f = g
  <2>1. n \in FreeNodes(heap)
    BY <1>3 DEF NewNode
  <2>2. n \in Nodes /\ h \in Heap /\ n \in ValueSet /\ UniqueKeys(h)
    BY <1>1, <1>3, AllocateType, UniqueAllocate DEF ValueSet
  <2>3. f.ctx \in Nodes /\ f.ctx # n /\ (f.ci.type # "STR" => IsArray(heap, f.ctx))
    BY <1>3, <2>1 DEF CanAppend, IsObj, IsArray, IsKind, FreeNodes
  <2>4. h[f.ctx] = heap[f.ctx]
    BY <1>1, <2>3 DEF Allocate, Heap
  <2>5. f.ci.type # "STR" => IsArray(h, f.ctx)
    BY <2>3, <2>4 DEF IsArray, IsKind
  <2>6. f.ci \in ChildInfo
    BY FrameFields
  <2> HIDE DEF n, h
  <2>7. UniqueKeys(AppendAt(h, f.ctx, f.ci, n, Pinned))
    BY <2>2, <2>3, <2>5, <2>6, UniqueAppendAt
  <2>8. g.tmp = n /\ g.ctx = n /\ g.mode = f.mode
    BY DEF Frame
  <2> HIDE DEF g, e
  <2> QED
    BY <1>1, <1>3, <2>2, <2>7, <2>8 DEF e
<1> QED
  BY <1>2, <1>3 DEF CheckExist

--------------------------------------------------------------------------------
(***************************************************************************)
(* The frame on top goes on, calls, or returns.                            *)
(***************************************************************************)
Matching == IInv /\ MatchInv /\ MatchHyp /\ status = "run"

\* Only the operation's own frames write.
LEMMA WriterOwnsItself ==
  ASSUME Matching, Next
  PROVE  heap' = heap \/ Top.own = 0
<1>1. Top.own \in Nat
  BY TopType, FrameFields DEF Matching
<1> QED
  BY <1>1, FindStep DEF Op, FindOps

\* A frame that waits is not concerned by what is written above it.
LEMMA WaitingDesignates ==
  ASSUME Matching, heap' = heap \/ Top.own = 0, NEW d \in 1..(Depth - 1)
  PROVE  Designates(call, heap', stack[d])
<1>1. stack \in Seq(Frame) /\ Depth \in Nat \ {0} /\ Depth = Len(stack)
  BY TopType DEF Matching, Depth
<1>2. CASE heap' = heap
  BY <1>1, <1>2 DEF Matching, MatchInv, MatchOK
<1>3. CASE Top.own = 0
  <2>1. stack[d].mode \in WaitingModes
    BY <1>1 DEF Matching, IInv, SentinelOwnerWaits
  <2>2. stack[d].mode \notin SubpathModes
    BY <1>1, <1>3 DEF Matching, IInv, SubpathsOnTop, Top
  <2>3. Designates(call, heap, stack[d])
    BY <1>1 DEF Matching, MatchInv, MatchOK
  <2> QED
    BY <2>1, <2>2, <2>3
       DEF Designates, InRange, WaitingModes, SubpathModes, WalkModes, ClauseModes
<1> QED
  BY <1>2, <1>3

LEMMA GoMatches ==
  ASSUME Matching, call' = call, heap' = heap \/ Top.own = 0, UniqueKeys(heap'),
         NEW f, Go(f), Designates(call, heap', f)
  PROVE  MatchInv'
<1>1. Depth \in Nat \ {0}
  BY TopType DEF Matching
<1>2. Depth' = Depth /\ \A d \in 1..Depth : stack'[d] = IF d = Depth THEN f ELSE stack[d]
  BY GoEffect DEF Matching
<1>3. ASSUME NEW d \in 1..Depth
      PROVE  Designates(call, heap', stack'[d])
  <2>1. CASE d = Depth
    BY <1>2, <2>1
  <2>2. CASE d # Depth
    <3>1. d \in 1..(Depth - 1)
      BY <1>1, <2>2
    <3> QED
      BY <1>2, <2>2, <3>1, WaitingDesignates
  <2> QED
    BY <2>1, <2>2
<1>4. MatchOK'
  BY <1>2, <1>3 DEF MatchOK
<1> QED
  BY <1>4 DEF MatchInv

LEMMA EnterMatches ==
  ASSUME Matching, call' = call, heap' = heap,
         NEW f \in Frame, NEW callee \in Frame, Enter(f, callee),
         Designates(call, heap, f), Designates(call, heap, callee)
  PROVE  MatchInv'
<1>1. Depth \in Nat \ {0}
  BY TopType DEF Matching
<1>2. CASE status' = "crash"
  BY <1>2 DEF MatchInv
<1>3. CASE /\ Depth' = Depth + 1
           /\ \A d \in 1..(Depth + 1) :
                 stack'[d] = IF d = Depth THEN f ELSE IF d = Depth + 1 THEN callee
                                                      ELSE stack[d]
  <2>1. ASSUME NEW d \in 1..(Depth + 1)
        PROVE  Designates(call, heap', stack'[d])
    <3>1. CASE d \in {Depth, Depth + 1}
      BY <1>1, <1>3, <3>1
    <3>2. CASE d \notin {Depth, Depth + 1}
      <4>1. d \in 1..(Depth - 1)
        BY <1>1, <3>2
      <4> QED
        BY <1>3, <3>2, <4>1, WaitingDesignates
    <3> QED
      BY <3>1, <3>2
  <2>2. UniqueKeys(heap')
    BY DEF Matching, MatchInv, MatchOK
  <2>3. MatchOK'
    BY <1>3, <2>1, <2>2 DEF MatchOK
  <2> QED
    BY <2>3 DEF MatchInv
<1> QED
  BY <1>2, <1>3, EnterEffect DEF Matching

LEMMA LeaveMatches ==
  ASSUME Matching, call' = call, heap' = heap \/ Top.own = 0, UniqueKeys(heap'), NEW r,
         \/ Leave(r)
         \/ \E walker : \E v \in Nat : LeaveAt(walker, v, r)
         \/ \E cond \in BOOLEAN : LeaveFrom(Reloop(cond), r)
  PROVE  MatchInv'
<1>1. Depth' = Depth - 1 /\ \A d \in 1..(Depth - 1) : Alike(stack'[d], stack[d])
  BY ReturnEffect DEF Matching
<1>2. ASSUME NEW d \in 1..(Depth - 1)
      PROVE  Designates(call, heap', stack'[d])
  <2>1. Designates(call, heap', stack[d])
    BY WaitingDesignates
  <2> QED
    BY <1>1, <2>1 DEF Alike, Designates, InRange
<1>3. MatchOK'
  BY <1>1, <1>2 DEF MatchOK
<1> QED
  BY <1>3 DEF MatchInv

\* A crash, and a step in which no value moves.
LEMMA CrashMatches ==
  ASSUME Crash
  PROVE  MatchInv'
  BY DEF Crash, MatchInv

--------------------------------------------------------------------------------
(***************************************************************************)
(* The actions.                                                            *)
(***************************************************************************)

\* In the other modes nothing is said of a frame.
LEMMA ElsewhereDesignates ==
  ASSUME NEW c, NEW h, NEW f,
         \/ f.mode \in {"member", "all", "dot", "descend", "filter"}
         \/ f.mode \in {"all_back", "dot_back", "dot_return", "filter_back", "union"}
         \/ f.mode \in {"range", "range_back"} /\ (f.own = 0 => InRange(c, f))
         \/ f.own > 0 /\ f.own \in Nat
  PROVE  Designates(c, h, f)
  BY DEF Designates, InRange, WalkModes, ClauseModes

\* What a frame of the operation itself, and of a sub-path, is.
LEMMA MatchingTop ==
  ASSUME Matching
  PROVE  /\ Top \in Frame /\ Top.own \in Nat /\ UniqueKeys(heap) /\ heap \in Heap
         /\ Designates(call, heap, Top)
         /\ Top.own = 0 => Op(Top) = call.op
<1>1. Top \in Frame /\ Depth \in 1..Depth
  BY TopType DEF Matching
<1>2. Top.own \in Nat
  BY <1>1, FrameFields
<1> QED
  BY <1>1, <1>2 DEF Matching, MatchInv, MatchOK, Top, Op, IInv, TypeOK

\* A loop calls the rest of the path.
LEMMA VisitMatches ==
  ASSUME Matching, call' = call, heap' = heap, NEW f \in Frame,
         More(f), Element(f) # BAD, NEW pc \in Nat,
         NEW mode \in {"all_back", "range_back", "dot_back"}, Visit(f, mode, pc),
         f.own = 0 => InRange(call, f), mode = "range_back" => f.mode = "range"
  PROVE  MatchInv'
<1> DEFINE ci == CurrentInfo(f)
           el == Element(f)
           g  == [f EXCEPT !.mode = mode, !.ci = ci, !.rl = FALSE, !.el = el]
           callee == LoopChild(f, el, pc, ci)
<1>1. el \in ValueSet /\ ci \in ChildInfo
  BY ElementType DEF Matching
<1>2. f.tmp \in ValueSet /\ f.own \in Nat
  BY FrameFields
<1>3. f.own = 0 /\ el # NULL => Refetch(heap, f.tmp, ci) = el
  BY ElementDesignated, MatchingTop DEF Matching
<1>4. Enter(g, callee)
  BY DEF Visit
<1> HIDE DEF ci, el
<1>5. g \in Frame
  BY <1>1, Zenon DEF Frame, WaitingModes
<1>6. g.mode = mode /\ g.own = f.own /\ g.ow = f.ow
  BY DEF Frame
<1>7. Designates(call, heap, g)
  BY <1>6, ElsewhereDesignates DEF InRange
<1>8. /\ callee \in Frame /\ callee.own = f.own
      /\ callee.ctx = f.tmp /\ callee.tmp = el /\ callee.ci = ci /\ callee.mode = "inst"
  <2>1. callee \in Frame
    BY <1>1, <1>2, NewFrameType DEF LoopChild
  <2>2. /\ callee.ctx = f.tmp /\ callee.tmp = el /\ callee.ci = ci /\ callee.mode = "inst"
        /\ callee.own = f.own
    BY DEF LoopChild, NewFrame
  <2> QED
    BY <2>1, <2>2
<1> HIDE DEF g, callee
<1>9. Designates(call, heap, callee)
  BY <1>3, <1>8 DEF Designates, InRange, ClauseModes
<1> QED
  BY <1>4, <1>5, <1>7, <1>8, <1>9, EnterMatches

\* A loop is over.
LEMMA OutMatches ==
  ASSUME Matching, call' = call, heap' = heap, NEW f \in Frame, Out(f)
  PROVE  MatchInv'
<1>1. f.pc \in Nat
  BY FrameFields
<1>2. \/ LeaveAt(f.pc, f.pc, None)
      \/ Leave(Count(IF call.emptyArray \/ f.nb > 0 THEN 1 ELSE 0))
      \/ Leave(Count(f.nb))
  BY DEF Out
<1> QED
  BY <1>1, <1>2, MatchingTop, LeaveMatches

\* What a loop does with the result of its body.
LEMMA AfterVisitMatches ==
  ASSUME Matching, call' = call, heap' = heap, NEW macro,
         NEW loop \in {"all", "range", "dot", "filter", "union"},
         NEW next \in {"all", "range", "dot", "descend", "filter", "member"},
         AfterVisit(macro, loop, next),
         "range" \in {loop, next} => Top.mode = "range_back"
  PROVE  MatchInv'
<1> DEFINE nb  == Counted(Top, ret)
           end == IF macro = "RANGE" /\ Op(Top) = "remove" THEN Top.end - 1 ELSE Top.end
           f   == [Top EXCEPT !.nb = nb, !.end = end]
           v   == Verdict(Top, ret, macro)
<1>1. Top \in Frame /\ ret \in Result /\ UniqueKeys(heap)
  BY MatchingTop DEF Matching, IInv, TypeOK
<1>2. Top.pc \in Nat /\ Top.ow \in Nat /\ Top.end \in Int
  BY <1>1, FrameFields
<1>3. nb \in Int /\ end \in Int
  BY <1>1, <1>2, CountedType
<1>4. \/ LeaveAt(f.pc, IF macro = "FILTER" THEN f.ow ELSE f.pc, ret)
      \/ Go(Start(f, loop))
      \/ Go(NextEntry(f, loop))
      \/ Go([f EXCEPT !.mode = next])
  BY DEF AfterVisit
<1> HIDE DEF nb, end, v
<1>5. f \in Frame
  BY <1>1, <1>3, Zenon DEF Frame
<1>6. f.pc = Top.pc /\ f.ow = Top.ow /\ f.own = Top.own
  BY <1>1 DEF Frame
<1> HIDE DEF f
<1>0. Top.mode = "range_back" /\ f.own = 0 /\ call.be = "yyjson" => f.ow <= 1
  BY <1>6, MatchingTop DEF Designates, InRange
<1>7. CASE LeaveAt(f.pc, IF macro = "FILTER" THEN f.ow ELSE f.pc, ret)
  <2>1. (IF macro = "FILTER" THEN f.ow ELSE f.pc) \in Nat
    BY <1>2, <1>6
  <2> QED
    BY <1>1, <1>7, <2>1, LeaveMatches
<1>8. CASE Go(Start(f, loop))
  <2>1. Start(f, loop).mode = loop /\ Start(f, loop).ow = f.ow /\ Start(f, loop).own = f.own
    BY <1>5, StartFields
  <2>2. Designates(call, heap, Start(f, loop))
    BY <1>0, <2>1, ElsewhereDesignates DEF InRange
  <2> QED
    BY <1>1, <1>8, <2>2, GoMatches
<1>9. CASE Go(NextEntry(f, loop))
  <2>1. /\ NextEntry(f, loop).mode = loop /\ NextEntry(f, loop).ow = f.ow
        /\ NextEntry(f, loop).own = f.own
    BY <1>5, NextEntryFields
  <2>2. Designates(call, heap, NextEntry(f, loop))
    BY <1>0, <2>1, ElsewhereDesignates DEF InRange
  <2> QED
    BY <1>1, <1>9, <2>2, GoMatches
<1>10. CASE Go([f EXCEPT !.mode = next])
  <2>1. LET g == [f EXCEPT !.mode = next] IN g.mode = next /\ g.ow = f.ow /\ g.own = f.own
    BY <1>5 DEF Frame
  <2>2. Designates(call, heap, [f EXCEPT !.mode = next])
    BY <1>0, <2>1, ElsewhereDesignates DEF InRange
  <2> QED
    BY <1>1, <1>10, <2>2, GoMatches
<1> QED
  BY <1>4, <1>7, <1>8, <1>9, <1>10

\* CSONPATH_PRE_GET.
LEMMA PreGetMatches ==
  ASSUME Matching, Top.own = 0, NEW kind \in Kinds, NEW ci \in ChildInfo,
         \/ ci = KeyInfo(ci.key)
         \/ ci = IdxInfo(ci.idx)
  PROVE  LET pre == PreGet(Top, kind, ci)
             v   == Refetch(pre.h, pre.f.tmp, ci)
         IN  /\ UniqueKeys(pre.h)
             /\ v # NULL /\ pre.ok =>
                  /\ pre.f.ctx = pre.f.tmp
                  /\ call.op # "remove" => Refetch(pre.h, pre.f.ctx, pre.f.ci) = v
<1> DEFINE g == IF Top.tmp # NULL THEN [Top EXCEPT !.ctx = Top.tmp] ELSE Top
           e == CheckExist(g, kind)
           info == InfoSet(heap, g.ctx, ci.key, ci.idx)
           pre == PreGet(Top, kind, ci)
           v   == Refetch(pre.h, pre.f.tmp, ci)
<1>1. Top \in Frame /\ UniqueKeys(heap) /\ Op(Top) = call.op /\ NULL \notin Nodes
  BY MatchingTop, DocAssumption
<1>2. call.op \notin FindOps /\ call.op \in Ops
  BY CallAssumption DEF Matching, MatchHyp, IInv
<1>3. Top.tmp \in ValueSet
  BY <1>1, FrameFields
<1>4. [Top EXCEPT !.ctx = Top.tmp] \in Frame
  BY <1>1, <1>3, Zenon DEF Frame
<1>5. g \in Frame /\ g.tmp = Top.tmp /\ (Top.tmp # NULL => g.ctx = Top.tmp)
  BY <1>1, <1>4 DEF Frame
<1> DEFINE noted == [g EXCEPT !.ci = info]
           made  == [e EXCEPT !.f.ci = ci]
<1>6. pre = CASE Op(Top) = "callback" -> [ok |-> TRUE, h |-> heap, f |-> noted]
              [] Op(Top) \in CreateOps ->
                   IF Top.tmp # NULL /\ ~IsKind(heap, Top.tmp, kind)
                   THEN [ok |-> FALSE, h |-> heap, f |-> g]
                   ELSE made
              [] OTHER -> [ok |-> TRUE, h |-> heap, f |-> g]
  BY Zenon DEF PreGet
<1>7. DOMAIN e = {"ok", "h", "f"}
  BY DEF CheckExist
<1>8. /\ UniqueKeys(e.h)
      /\ e.ok => e.f.tmp # NULL /\ (g.tmp # NULL => e.f = g) /\ (g.tmp = NULL => e.f.ctx = e.f.tmp)
  BY <1>1, <1>5, CheckExistMatches DEF Matching
<1>9. e.f \in Frame
  BY <1>5, CheckExistType DEF Matching, Attempt
<1> HIDE DEF g, e, pre, noted, made
<1>10. CASE call.op = "callback"
  <2>1. pre.h = heap /\ pre.f = noted
    BY <1>1, <1>6, <1>10 DEF CreateOps
  <2>2. pre.f.tmp = g.tmp /\ pre.f.ctx = g.ctx /\ pre.f.ci = info
    <3> HIDE DEF info
    <3> QED
      BY <1>5, <2>1 DEF Frame, noted
  <2>3. ASSUME v # NULL
        PROVE  g.ctx = g.tmp /\ info = ci
    <3>1. v = Refetch(heap, g.tmp, ci)
      BY <2>1, <2>2
    <3>2. CASE ci = KeyInfo(ci.key)
      <4>1. IsObj(heap, g.tmp)
        BY <2>3, <3>1, <3>2, RefetchKind
      <4>2. g.ctx = g.tmp
        BY <1>1, <1>5, <4>1 DEF IsObj, IsKind
      <4> QED
        BY <3>2, <4>1, <4>2 DEF InfoSet
    <3>3. CASE ci = IdxInfo(ci.idx)
      <4>1. IsArray(heap, g.tmp)
        BY <2>3, <3>1, <3>3, RefetchKind
      <4>2. g.ctx = g.tmp /\ ~IsObj(heap, g.tmp)
        BY <1>1, <1>5, <4>1 DEF IsArray, IsObj, IsKind
      <4> QED
        BY <3>3, <4>2 DEF InfoSet
    <3> QED
      BY <3>2, <3>3
  <2> QED
    BY <1>1, <2>1, <2>2, <2>3 DEF pre
<1>11. CASE call.op \in CreateOps
  <2>1. call.op # "callback"
    BY <1>11 DEF CreateOps
  <2>2. CASE pre = [ok |-> FALSE, h |-> heap, f |-> g]
    BY <1>1, <2>2 DEF pre
  <2>3. CASE pre = made
    <3>1. pre.ok = e.ok /\ pre.h = e.h /\ pre.f = [e.f EXCEPT !.ci = ci]
      BY <1>7, <2>3 DEF made
    <3>2. pre.f.tmp = e.f.tmp /\ pre.f.ctx = e.f.ctx /\ pre.f.ci = ci
      BY <1>9, <3>1 DEF Frame
    <3>3. pre.ok => pre.f.ctx = pre.f.tmp
      BY <1>5, <1>8, <3>1, <3>2
    <3> QED
      BY <1>8, <3>1, <3>2, <3>3 DEF pre
  <2> QED
    BY <1>1, <1>6, <1>11, <2>1, <2>2, <2>3
<1>12. CASE call.op = "remove"
  <2>1. pre = [ok |-> TRUE, h |-> heap, f |-> g]
    BY <1>1, <1>6, <1>12 DEF CreateOps
  <2>2. v # NULL => g.tmp # NULL
    <3>1. v = Refetch(heap, g.tmp, ci)
      BY <2>1
    <3> QED
      BY <1>1, <3>1, RefetchKind DEF IsObj, IsArray, IsKind
  <2> QED
    BY <1>1, <1>5, <1>12, <2>1, <2>2 DEF pre
<1> QED
  BY <1>2, <1>10, <1>11, <1>12 DEF Ops, CallbackOps, CreateOps

\* A getter.
LEMMA GetterMatches ==
  ASSUME Matching, Next, call' = call, NEW kind \in Kinds, NEW ci \in ChildInfo, NEW at \in Nat,
         \/ ci = KeyInfo(ci.key)
         \/ ci = IdxInfo(ci.idx),
         Getter(Top, kind, ci, at)
  PROVE  MatchInv'
<1> DEFINE pre == PreGet(Top, kind, ci)
           v   == Refetch(pre.h, pre.f.tmp, ci)
           g   == [pre.f EXCEPT !.tmp = v, !.pc = at + 1, !.mode = "inst"]
<1>1. /\ Top \in Frame /\ heap \in Heap /\ UniqueKeys(heap) /\ Top.own \in Nat
      /\ Top.own = 0 => Op(Top) = call.op
      /\ heap' = heap \/ Top.own = 0
  BY MatchingTop, WriterOwnsItself
<1>2. CASE Fail /\ UNCHANGED <<heap, acc>>
  BY <1>1, <1>2, LeaveMatches DEF Fail
<1>3. CASE /\ pre.ok /\ heap' = pre.h
           /\ \/ v = NULL /\ Op(Top) \notin CreateOps /\ Go([g EXCEPT !.mode = "scan"])
              \/ v # NULL /\ Op(Top) = "remove" /\ Go([g EXCEPT !.ci = ci])
              \/ ~(v # NULL /\ Op(Top) = "remove") /\ Go(g)
  <2>1. pre.h \in Heap /\ pre.f \in Frame /\ pre.f.own = Top.own
    BY <1>1, PreGetType DEF Attempt, Matching
  <2>2. Top.own = 0 =>
          /\ UniqueKeys(pre.h)
          /\ v # NULL => /\ pre.f.ctx = pre.f.tmp
                         /\ call.op # "remove" => Refetch(pre.h, pre.f.ctx, pre.f.ci) = v
    BY <1>3, PreGetMatches
  <2>3. UniqueKeys(heap')
    BY <1>1, <1>3, <2>2
  <2>4. v = Refetch(pre.h, pre.f.tmp, ci)
    OBVIOUS
  <2> HIDE DEF pre, v
  <2>5. /\ g.tmp = v /\ g.mode = "inst" /\ g.own = Top.own
        /\ g.ctx = pre.f.ctx /\ g.ci = pre.f.ci
        /\ [g EXCEPT !.mode = "scan"].tmp = v /\ [g EXCEPT !.mode = "scan"].mode = "scan"
        /\ [g EXCEPT !.ci = ci].tmp = v /\ [g EXCEPT !.ci = ci].mode = "inst"
        /\ [g EXCEPT !.ci = ci].ctx = pre.f.ctx /\ [g EXCEPT !.ci = ci].ci = ci
        /\ [g EXCEPT !.ci = ci].own = Top.own /\ [g EXCEPT !.mode = "scan"].own = Top.own
    BY <2>1 DEF Frame
  <2> DEFINE scan == [g EXCEPT !.mode = "scan"]
             noted == [g EXCEPT !.ci = ci]
  <2> HIDE DEF g, scan, noted
  <2>6. CASE v = NULL /\ Go(scan)
    <3>1. Designates(call, heap', scan)
      BY <2>5, <2>6 DEF Designates, InRange, WalkModes, ClauseModes, scan
    <3> QED
      BY <1>1, <2>3, <2>6, <3>1, GoMatches
  <2>7. CASE v # NULL /\ Op(Top) = "remove" /\ Go(noted)
    <3>1. Designates(call, heap', noted)
      BY <1>3, <2>2, <2>4, <2>5, <2>7 DEF Designates, InRange, ClauseModes, noted
    <3> QED
      BY <1>1, <2>3, <2>7, <3>1, GoMatches
  <2>8. CASE ~(v # NULL /\ Op(Top) = "remove") /\ Go(g)
    <3>1. Designates(call, heap', g)
      BY <1>1, <1>3, <2>2, <2>5, <2>8 DEF Designates, InRange, ClauseModes
    <3> QED
      BY <1>1, <2>3, <2>8, <3>1, GoMatches
  <2> QED
    BY <1>3, <2>6, <2>7, <2>8 DEF g, scan, noted
<1> QED
  BY <1>2, <1>3 DEF Getter

\* The start of a loop.
LEMMA PreLoopMatches ==
  ASSUME Matching, Next, NEW kind \in Kinds, NEW loop \in {"all", "filter"},
         PreLoop(Top, kind, loop)
  PROVE  MatchInv'
<1> DEFINE e == IF Op(Top) = "update_or_create" THEN CheckExist(Top, kind)
                ELSE [ok |-> TRUE, h |-> heap, f |-> Top]
<1>1. Top \in Frame /\ UniqueKeys(heap) /\ (heap' = heap \/ Top.own = 0)
  BY MatchingTop, WriterOwnsItself
<1>2. UniqueKeys(e.h) /\ e.f \in Frame
  BY <1>1, CheckExistMatches, CheckExistType DEF Matching, Attempt
<1>3. /\ heap' = e.h /\ call' = call
      /\ Fail \/ Go(Start(e.f, loop))
  BY DEF PreLoop
<1> HIDE DEF e
<1>4. CASE Fail
  BY <1>1, <1>2, <1>3, <1>4, LeaveMatches DEF Fail
<1>5. CASE Go(Start(e.f, loop))
  <2>1. Start(e.f, loop).mode = loop
    BY <1>2, StartFields
  <2>2. Designates(call, heap', Start(e.f, loop))
    BY <2>1, ElsewhereDesignates
  <2> QED
    BY <1>1, <1>2, <1>3, <1>5, <2>2, GoMatches
<1> QED
  BY <1>3, <1>4, <1>5

\* The end of the path, or an OR.
LEMMA ReturnMatches ==
  ASSUME Matching, Next, Return
  PROVE  MatchInv'
<1>1. call' = call
  BY DEF Return, ReturnFound, ReturnRemove, ReturnUpdate, ReturnCallback
<1>2. /\ Top \in Frame /\ UniqueKeys(heap) /\ heap \in Heap /\ (heap' = heap \/ Top.own = 0)
      /\ Top.pc \in Nat /\ Top.ci \in ChildInfo
  BY MatchingTop, WriterOwnsItself, FrameFields
<1>3. \/ heap' = heap
      \/ heap' = RemoveChild(be, heap, Top.ctx, Top.ci, Pinned)
      \/ /\ CanAppend(be, heap, Top.ctx, Top.ci)
         /\ heap' = AppendAt(heap, Top.ctx, Top.ci, call.upd, Pinned)
  BY DEF Return, ReturnFound, ReturnRemove, ReturnUpdate, ReturnCallback
<1>4. UniqueKeys(heap')
  <2>1. CanAppend(be, heap, Top.ctx, Top.ci) =>
          Top.ctx \in Nodes /\ (Top.ci.type # "STR" => IsArray(heap, Top.ctx))
    BY DEF CanAppend, IsObj, IsArray, IsKind
  <2>2. call.upd \in ValueSet
    BY RunTypes DEF Matching
  <2> QED
    BY <1>2, <1>3, <2>1, <2>2, UniqueRemoveChild, UniqueAppendAt
<1>5. CASE \/ ReturnFound
           \/ ReturnRemove
           \/ ReturnCallback
  <2>1. \/ \E r : Leave(r) \/ (\E walker : \E v \in Nat : LeaveAt(walker, v, r))
        \/ \E r : \E cond \in BOOLEAN : LeaveFrom(Reloop(cond), r)
        \/ Crash
    <3>1. CASE ReturnFound
      BY <1>2, <3>1 DEF ReturnFound
    <3>2. CASE ReturnRemove
      <4> DEFINE cond == Top.ctx = Top.inctx /\ NeedForeachRedo(be, heap, Top.ctx)
      <4>1. \/ LeaveFrom(Reloop(cond), None)
            \/ LeaveFrom(Reloop(cond), Count(1))
            \/ Crash
        BY <3>2 DEF ReturnRemove
      <4>2. cond \in BOOLEAN
        OBVIOUS
      <4> HIDE DEF cond
      <4> QED
        BY <4>1, <4>2
    <3>3. CASE ReturnCallback
      <4> DEFINE cond == Op(Top) = "update_or_create_callback" /\ Top.tmp = Top.val
      <4>1. LeaveFrom(Reloop(cond), Count(1)) \/ LeaveFrom(Reloop(cond), Count(-1))
        BY <3>3 DEF ReturnCallback
      <4>2. cond \in BOOLEAN
        OBVIOUS
      <4> HIDE DEF cond
      <4> QED
        BY <4>1, <4>2
    <3> QED
      BY <1>5, <3>1, <3>2, <3>3
  <2> QED
    BY <1>1, <1>2, <1>4, <2>1, LeaveMatches, CrashMatches
<1>6. CASE ReturnUpdate
  <2>1. \/ Leave(None)
        \/ LeaveFrom(Reloop(TRUE), Count(1))
        \/ LeaveFrom(Reloop(TRUE), Count(-1))
    BY <1>6 DEF ReturnUpdate
  <2>2. \E r : Leave(r) \/ \E cond \in BOOLEAN : LeaveFrom(Reloop(cond), r)
    <3>1. TRUE \in BOOLEAN
      OBVIOUS
    <3> QED
      BY <2>1, <3>1, Zenon
  <2> QED
    BY <1>1, <1>2, <1>4, <2>2, LeaveMatches
<1> QED
  BY <1>5, <1>6 DEF Return

\* ROOT and SWITCH_ROOT.
LEMMA UniqueSyncRoot ==
  ASSUME Matching, CanSync
  PROVE  UniqueKeys(SyncRoot)
<1> DEFINE cleared == [heap EXCEPT ![call.root].kids = <<>>]
<1>1. heap \in Heap /\ UniqueKeys(heap) /\ call.root \in Nodes /\ call.upd \in Nodes
  BY MatchingTop, RunTypes DEF Matching
<1>2. UniqueIn(<<>>) /\ <<>> \in Seq(Entry)
  BY DEF UniqueIn
<1>3. cleared \in Heap /\ UniqueKeys(cleared)
  BY <1>1, <1>2, UniqueUpdate, KidsUpdate
<1>4. cleared[call.root].kind = "obj" => cleared[call.upd].kind = "obj"
  BY <1>1 DEF CanSync, IsObj, IsArray, IsKind, Heap, Node
<1> HIDE DEF cleared
<1>5. cleared[call.root].kind = "obj" => UniqueIn(cleared[call.upd].kids)
  BY <1>1, <1>3, <1>4 DEF UniqueKeys
<1>6. UniqueKeys([cleared EXCEPT ![call.root].kids = cleared[call.upd].kids])
  BY <1>1, <1>3, <1>5, UniqueUpdate
<1> QED
  BY <1>6 DEF SyncRoot, cleared

LEMMA RootsMatch ==
  ASSUME Matching, Next, Root \/ SwitchRoot
  PROVE  MatchInv'
<1>1. Top \in Frame /\ UniqueKeys(heap) /\ (heap' = heap \/ Top.own = 0) /\ call' = call
  BY MatchingTop, WriterOwnsItself DEF Root, SwitchRoot
<1>2. \/ heap' = SyncRoot /\ CanSync /\ Leave(Count(1))
      \/ Fail /\ heap' = heap
      \/ \E root : Go(AtRoot(Top, root)) /\ heap' = heap
  BY DEF Root, SwitchRoot
<1>3. ASSUME NEW root, Go(AtRoot(Top, root)), heap' = heap
      PROVE  MatchInv'
  <2> DEFINE f == AtRoot(Top, root)
  <2>1. f.ctx = NULL /\ f.mode = Top.mode /\ f.own = Top.own
    BY <1>1 DEF AtRoot, Frame
  <2>2. Top.mode = "inst"
    BY DEF Root, SwitchRoot, At_, In
  <2> HIDE DEF f
  <2>3. Designates(call, heap', f)
    BY <2>1, <2>2 DEF Designates, InRange, ClauseModes
  <2> QED
    BY <1>1, <1>3, <2>3, GoMatches DEF f
<1> QED
  BY <1>1, <1>2, <1>3, UniqueSyncRoot, LeaveMatches DEF Fail

\* The getters, the scan for an OR, the sub-path and the type test.
LEMMA GettingMatches ==
  ASSUME Matching, Next, Getting \/ TypeCheck \/ Unimplemented
  PROVE  MatchInv'
<1>1. /\ Top \in Frame /\ UniqueKeys(heap) /\ (heap' = heap \/ Top.own = 0) /\ call' = call
      /\ heap \in Heap /\ Designates(call, heap, Top)
  BY MatchingTop, WriterOwnsItself
     DEF Getting, GetObj, GetArray, ScanForOr, GetSubpath, AfterSubpath, TypeCheck, Unimplemented
<1>2. /\ Top.pc \in Nat /\ Top.sent \in Nat /\ Top.own \in Nat
      /\ Here.key \in Text /\ Here.num \in Nat /\ Here.num \in Int
  BY <1>1, FrameFields, RunTypes, CodeType DEF Here, Matching
<1>3. "obj" \in Kinds /\ "arr" \in Kinds
  BY DEF Kinds
<1>4. ASSUME NEW key
      PROVE  KeyInfo(key) = KeyInfo(KeyInfo(key).key)
  BY DEF KeyInfo
<1>5. ASSUME NEW idx
      PROVE  IdxInfo(idx) = IdxInfo(IdxInfo(idx).idx)
  BY DEF IdxInfo
<1>6. ASSUME NEW f, Go(f), heap' = heap, Top.mode \in WalkModes \/ Top.tmp = NULL,
             f.mode \in WalkModes \cup {"scan"}, f.mode = "scan" => Top.mode = "scan",
             f.tmp = Top.tmp, f.ctx = Top.ctx, f.ci = Top.ci, f.own = Top.own
      PROVE  MatchInv'
  <2>1. Designates(call, heap', f)
    BY <1>1, <1>6 DEF Designates, InRange, WalkModes, ClauseModes
  <2> QED
    BY <1>1, <1>6, <2>1, GoMatches
<1>7. CASE GetObj
  <2>1. Getter(Top, "obj", KeyInfo(Here.key), Top.pc)
    BY <1>7 DEF GetObj
  <2> QED
    BY <1>1, <1>2, <1>3, <1>4, <2>1, InfoType, GetterMatches
<1>8. CASE GetArray
  <2>1. Getter(Top, "arr", IdxInfo(Here.num), Top.pc)
    BY <1>8 DEF GetArray
  <2> QED
    BY <1>1, <1>2, <1>3, <1>5, <2>1, InfoType, GetterMatches
<1>9. CASE ScanForOr
  <2>1. /\ heap' = heap /\ Top.mode = "scan"
        /\ \/ Leave(None)
           \/ Go([Top EXCEPT !.mode = "inst", !.pc = Top.pc + 1])
           \/ Crash
           \/ Go([Top EXCEPT !.pc = NextInst(prog, Top.pc)])
    BY <1>9 DEF ScanForOr, Data, In
  <2>2. Top.own = 0 => Top.tmp = NULL
    BY <1>1, <2>1 DEF Designates, InRange
  <2>3. ASSUME NEW f, Go(f), f.tmp = Top.tmp, f.own = Top.own,
               f.mode \in {"inst", "scan"}
        PROVE  MatchInv'
    <3>1. Designates(call, heap', f)
      BY <2>2, <2>3 DEF Designates, InRange, ClauseModes
    <3> QED
      BY <1>1, <2>1, <2>3, <3>1, GoMatches
  <2>4. CASE Go([Top EXCEPT !.mode = "inst", !.pc = Top.pc + 1])
    <3> DEFINE f == [Top EXCEPT !.mode = "inst", !.pc = Top.pc + 1]
    <3>1. f.tmp = Top.tmp /\ f.own = Top.own /\ f.mode = "inst"
      BY <1>1 DEF Frame
    <3> HIDE DEF f
    <3> QED
      BY <2>3, <2>4, <3>1 DEF f
  <2>5. CASE Go([Top EXCEPT !.pc = NextInst(prog, Top.pc)])
    <3> DEFINE f == [Top EXCEPT !.pc = NextInst(prog, Top.pc)]
    <3>1. f.tmp = Top.tmp /\ f.own = Top.own /\ f.mode = "scan"
      BY <1>1, <2>1 DEF Frame
    <3> HIDE DEF f
    <3> QED
      BY <2>3, <2>5, <3>1 DEF f
  <2> QED
    BY <1>1, <2>1, <2>4, <2>5, LeaveMatches, CrashMatches
<1>10. CASE GetSubpath
  <2> DEFINE f == [Top EXCEPT !.mode = "subpath", !.sent = Top.pc]
             callee == NewFrame(Top.pc + 1, call.root, NULL, NoInfo, Depth)
  <2>1. Enter(f, callee) /\ Top.mode = "inst" /\ heap' = heap
    BY <1>10 DEF GetSubpath, Data, At_, In
  <2>2. /\ f.mode = "subpath" /\ f.tmp = Top.tmp /\ f.ctx = Top.ctx /\ f.ci = Top.ci
        /\ f.own = Top.own
    BY <1>1 DEF Frame
  <2>3. f \in Frame
    BY <1>1, <1>2, Zenon DEF Frame, WaitingModes, SubpathModes
  <2>4. Depth \in Nat \ {0} /\ callee.own = Depth
    BY TopType DEF Matching, NewFrame
  <2>5. callee \in Frame
    <3>1. Top.pc + 1 \in Nat
      BY <1>2
    <3> QED
      BY <2>4, <3>1, RunTypes, InfoType, NewFrameType DEF Matching
  <2> HIDE DEF f, callee
  <2>6. Designates(call, heap, f)
    BY <1>1, <2>1, <2>2 DEF Designates, InRange, WalkModes, ClauseModes
  <2>7. Designates(call, heap, callee)
    BY <2>4, ElsewhereDesignates
  <2> QED
    BY <1>1, <2>1, <2>3, <2>5, <2>6, <2>7, EnterMatches
<1>11. CASE AfterSubpath
  <2>1. \/ /\ IsNum(be, heap, ret.val)
           /\ Getter(Top, "arr", IdxInfo(heap[ret.val].num), Top.sent)
        \/ /\ IsStr(heap, ret.val)
           /\ Getter(Top, "obj", KeyInfo(heap[ret.val].str), Top.sent)
        \/ Fail /\ UNCHANGED <<heap, acc>>
    BY <1>11 DEF AfterSubpath
  <2>2. ASSUME ret.val \in Nodes
        PROVE  /\ IdxInfo(heap[ret.val].num) \in ChildInfo
               /\ KeyInfo(heap[ret.val].str) \in ChildInfo
    <3>1. heap[ret.val].num \in Int /\ heap[ret.val].str \in Text
      BY <1>1, <2>2 DEF Heap, Node
    <3> QED
      BY <3>1, InfoType
  <2>3. IsNum(be, heap, ret.val) \/ IsStr(heap, ret.val) => ret.val \in Nodes
    BY DEF IsNum, IsBool, IsStr, IsKind
  <2> QED
    BY <1>1, <1>2, <1>3, <1>4, <1>5, <2>1, <2>2, <2>3, GetterMatches, LeaveMatches DEF Fail
<1>12. CASE TypeCheck
  <2> DEFINE f == [Top EXCEPT !.pc = Top.pc + 1]
  <2>1. heap' = heap /\ Top.mode = "inst" /\ (Go(f) \/ Leave(None))
    BY <1>12 DEF TypeCheck, Data, At_, In
  <2>2. /\ f.mode = Top.mode /\ f.tmp = Top.tmp /\ f.ctx = Top.ctx /\ f.ci = Top.ci
        /\ f.own = Top.own
    BY <1>1 DEF Frame
  <2> HIDE DEF f
  <2>3. f.mode \in WalkModes /\ f.mode # "scan"
    BY <2>1, <2>2 DEF WalkModes
  <2> QED
    BY <1>1, <1>6, <2>1, <2>2, <2>3, LeaveMatches
<1>13. CASE Unimplemented
  BY <1>1, <1>13, LeaveMatches DEF Unimplemented, Fail
<1> QED
  BY <1>7, <1>8, <1>9, <1>10, <1>11, <1>12, <1>13 DEF Getting

\* GET_ALL and RANGE.
LEMMA AllAndRangeMatch ==
  ASSUME Matching, Next, \/ GetAll \/ AllElement \/ AllBack
                         \/ GetRange \/ RangeElement \/ RangeBack
  PROVE  MatchInv'
<1>1. /\ Top \in Frame /\ UniqueKeys(heap) /\ (heap' = heap \/ Top.own = 0) /\ call' = call
      /\ Top.pc \in Nat /\ Top.pc + 1 \in Nat /\ Top.i \in Nat /\ Top.ow \in Nat
  BY MatchingTop, WriterOwnsItself, FrameFields
     DEF GetAll, AllElement, AllBack, GetRange, RangeElement, RangeBack, PreLoop
<1>2. CASE GetAll
  <2>1. GuessContainer(Top.pc) \in Kinds
    BY DEF GuessContainer, Kinds
  <2> QED
    BY <1>2, <2>1, PreLoopMatches DEF GetAll
<1>3. CASE AllElement
  <2>1. /\ heap' = heap
        /\ \/ Out(Top)
           \/ More(Top) /\ Element(Top) # BAD /\ Visit(Top, "all_back", Top.pc + 1)
    BY <1>3 DEF AllElement
  <2>2. InRange(call, Top)
    BY <1>3 DEF AllElement, In, InRange
  <2> QED
    BY <1>1, <2>1, <2>2, OutMatches, VisitMatches
<1>4. CASE AllBack
  BY <1>1, <1>4, AfterVisitMatches DEF AllBack, Data
<1>5. CASE GetRange
  <2> DEFINE end == IF Code(Top.pc + 2).num = 0 THEN Unbounded ELSE Code(Top.pc + 2).num
             s == Start(Top, "range")
             f == [s EXCEPT !.pc = Top.pc + 3, !.end = end, !.ow = Code(Top.pc + 1).num]
  <2>1. heap' = heap /\ (Leave(None) \/ Go(f))
    BY <1>5 DEF GetRange, Data
  <2>2. s \in Frame /\ s.mode = "range"
    BY <1>1, ModeNames, StartType, StartFields DEF Matching
  <2> HIDE DEF end, s
  <2>3. f.mode = "range" /\ f.ow = Code(Top.pc + 1).num
    BY <2>2 DEF Frame
  <2> HIDE DEF f
  <2>4. InRange(call, f)
    <3>1. Here.inst = "RANGE"
      BY <1>5 DEF GetRange, At_
    <3>2. Top.pc \in DOMAIN prog /\ prog[Top.pc].inst = "RANGE"
      BY <3>1 DEF Here, Code, CellAt, Outside, Cell
    <3> QED
      BY <2>3, <3>2 DEF Matching, MatchHyp, RangesInStep, InRange, Code, prog
  <2>5. Designates(call, heap', f)
    BY <2>3, <2>4, ElsewhereDesignates
  <2> QED
    BY <1>1, <2>1, <2>5, LeaveMatches, GoMatches
<1>6. CASE RangeElement
  <2> DEFINE i == IF Top.i < Top.ow THEN Top.ow ELSE Top.i
             f == [Top EXCEPT !.i = i]
  <2>1. /\ heap' = heap
        /\ Out(f) \/ Crash \/ (More(f) /\ Element(f) # BAD /\ Visit(f, "range_back", f.pc))
    BY <1>6 DEF RangeElement, Data
  <2>2. i \in Nat
    BY <1>1
  <2> HIDE DEF i
  <2>3. f \in Frame
    BY <1>1, <2>2, Zenon DEF Frame
  <2>4. f.pc \in Nat
    BY <2>3, FrameFields
  <2>5. f.mode = "range" /\ (f.own = 0 => InRange(call, f))
    <3>1. Top.mode = "range"
      BY <1>6 DEF RangeElement, In
    <3>2. f.mode = Top.mode /\ f.own = Top.own /\ f.ow = Top.ow
      BY <1>1 DEF Frame
    <3> HIDE DEF f
    <3> QED
      BY <1>1, <3>1, <3>2, MatchingTop DEF Designates, InRange
  <2> HIDE DEF f
  <2> QED
    BY <1>1, <2>1, <2>3, <2>4, <2>5, OutMatches, CrashMatches, VisitMatches
<1>7. CASE RangeBack
  BY <1>1, <1>7, AfterVisitMatches DEF RangeBack, Data, In
<1> QED
  BY <1>2, <1>3, <1>4, <1>5, <1>6, <1>7

\* FIND_ALL and csonpath_<op>_dotdot.
LEMMA DescentMatches ==
  ASSUME Matching, Next, FindAll \/ DotElement \/ DotBack \/ Descend \/ DotReturn
  PROVE  MatchInv'
<1>1. /\ Top \in Frame /\ UniqueKeys(heap) /\ heap \in Heap /\ heap' = heap /\ call' = call
      /\ Top.pc \in Nat /\ Top.pc + 1 \in Nat /\ Top.ci \in ChildInfo
  BY MatchingTop, FrameFields DEF FindAll, DotElement, DotBack, Descend, DotReturn, Data
<1>2. ASSUME NEW f, Go(f), f.mode \in {"dot", "descend"}
      PROVE  MatchInv'
  BY <1>1, <1>2, ElsewhereDesignates, GoMatches
<1>3. CASE FindAll
  <2> DEFINE f == [Top EXCEPT !.fn = "dotdot"]
  <2>1. Go(Start(f, "dot")) \/ Leave(None)
    BY <1>3 DEF FindAll
  <2>2. f \in Frame
    BY <1>1, Zenon DEF Frame
  <2> HIDE DEF f
  <2>3. Start(f, "dot").mode = "dot"
    BY <2>2, StartFields
  <2> QED
    BY <1>1, <1>2, <2>1, <2>3, LeaveMatches
<1>4. CASE DotElement
  <2> DEFINE ci == CurrentInfo(Top)
             el == Element(Top)
             f  == [Top EXCEPT !.ci = ci, !.rl = FALSE, !.el = el]
             g  == [f EXCEPT !.mode = "descend"]
  <2>1. \/ Out(Top)
        \/ Crash
        \/ More(Top) /\ el # BAD /\ Visit(Top, "dot_back", Top.pc + 1)
        \/ Go(g)
    BY <1>4 DEF DotElement
  <2>2. g.mode = "descend"
    BY <1>1 DEF Frame
  <2> HIDE DEF g
  <2>3. InRange(call, Top)
    BY <1>4 DEF DotElement, In, InRange
  <2> QED
    BY <1>1, <1>2, <2>1, <2>2, <2>3, OutMatches, CrashMatches, VisitMatches
<1>5. CASE DotBack
  BY <1>1, <1>5, AfterVisitMatches DEF DotBack
<1>6. CASE Descend
  <2> DEFINE el == IF Op(Top) \in CreateOps THEN Refetch(heap, Top.tmp, Top.ci) ELSE Top.el
             f  == [Top EXCEPT !.el = el]
             child == LoopChild(f, el, f.pc, f.ci)
             named == [child EXCEPT !.fn = "dotdot"]
             callee == Start(named, "dot")
             waiting == [f EXCEPT !.mode = "dot_return"]
  <2>1. Crash \/ Enter(waiting, callee) \/ Go(NextEntry(f, "dot"))
    BY <1>6 DEF Descend
  <2>2. el \in ValueSet
    BY <1>1, FrameFields, RefetchType
  <2> HIDE DEF el
  <2>3. f \in Frame
    BY <1>1, <2>2, Zenon DEF Frame
  <2> HIDE DEF f
  <2>4. child \in Frame
    BY <2>2, <2>3, FrameFields, NewFrameType DEF LoopChild
  <2> HIDE DEF child
  <2>5. named \in Frame
    BY <2>4, Zenon DEF Frame
  <2> HIDE DEF named
  <2>6. callee \in Frame /\ callee.mode = "dot"
    BY <2>5, ModeNames, StartType, StartFields DEF Matching
  <2>7. waiting \in Frame
    BY <2>3, Zenon DEF Frame, WaitingModes
  <2>8. waiting.mode = "dot_return"
    BY <2>3 DEF Frame
  <2> HIDE DEF callee, waiting
  <2>9. Designates(call, heap, waiting) /\ Designates(call, heap, callee)
    BY <2>6, <2>8, ElsewhereDesignates
  <2>10. NextEntry(f, "dot").mode = "dot"
    BY <2>3, NextEntryFields
  <2> QED
    BY <1>1, <1>2, <2>1, <2>6, <2>7, <2>9, <2>10, CrashMatches, EnterMatches
<1>7. CASE DotReturn
  BY <1>1, <1>7, AfterVisitMatches DEF DotReturn
<1> QED
  BY <1>3, <1>4, <1>5, <1>6, <1>7

\* A clause of a filter starts on the entry the loop is at.
LEMMA StartClauseMatches ==
  ASSUME Matching, heap' = heap, call' = call, NEW el \in ValueSet, NEW op,
         Top.own = 0 /\ Top.tmp # NULL /\ el # NULL =>
           Refetch(heap, Top.tmp, IdxInfo(Top.i)) = el,
         Go(StartClause(Top, el, op))
  PROVE  MatchInv'
<1> DEFINE f == StartClause(Top, el, op)
<1>1. Top \in Frame /\ UniqueKeys(heap)
  BY MatchingTop
<1>2. f.mode = "crawl" /\ f.tmp = Top.tmp /\ f.el = el /\ f.i = Top.i /\ f.own = Top.own
  BY <1>1 DEF StartClause, Frame
<1> HIDE DEF f
<1>3. Designates(call, heap', f)
  BY <1>2 DEF Designates, InRange, WalkModes
<1> QED
  BY <1>1, <1>3, GoMatches DEF f

\* The comparison is made.
LEMMA JudgeMatches ==
  ASSUME Matching, heap' = heap, call' = call, NEW ow \in Nat, NEW match,
         Top.mode \in {"match", "operand"}, Judge(ow, match)
  PROVE  MatchInv'
<1> DEFINE f == [Top EXCEPT !.ow = ow, !.mode = "filter_back", !.rl = FALSE]
           callee == LoopChild(f, f.el, ow, IdxInfo(f.i))
<1>1. /\ Top \in Frame /\ UniqueKeys(heap) /\ Designates(call, heap, Top)
      /\ Top.el \in ValueSet /\ ow + 1 \in Nat
  BY MatchingTop, FrameFields
<1>2. Top.own = 0 /\ Top.tmp # NULL /\ Top.el # NULL =>
        Refetch(heap, Top.tmp, IdxInfo(Top.i)) = Top.el
  BY <1>1 DEF Designates, InRange, ClauseModes
<1>3. \/ Go(NextEntry(Top, "filter"))
      \/ Go(StartClause(Top, Top.el, ow + 1))
      \/ Enter(f, callee)
  BY DEF Judge
<1>4. CASE Go(NextEntry(Top, "filter"))
  <2>1. NextEntry(Top, "filter").mode = "filter"
    BY <1>1, NextEntryFields
  <2>2. Designates(call, heap', NextEntry(Top, "filter"))
    BY <2>1, ElsewhereDesignates
  <2> QED
    BY <1>1, <1>4, <2>2, GoMatches
<1>5. CASE Go(StartClause(Top, Top.el, ow + 1))
  BY <1>1, <1>2, <1>5, StartClauseMatches
<1>6. CASE Enter(f, callee)
  <2>1. f \in Frame
    BY <1>1, Zenon DEF Frame, WaitingModes
  <2>2. f.own = Top.own /\ f.mode = "filter_back" /\ f.tmp = Top.tmp /\ f.el = Top.el /\ f.i = Top.i
    BY <1>1 DEF Frame
  <2> HIDE DEF f
  <2>3. f.tmp \in ValueSet /\ f.el \in ValueSet /\ f.own \in Nat /\ IdxInfo(f.i) \in ChildInfo
    BY <2>1, FrameFields, InfoType
  <2>4. callee \in Frame
    BY <2>3, NewFrameType DEF LoopChild
  <2>5. /\ callee.ctx = f.tmp /\ callee.tmp = f.el /\ callee.ci = IdxInfo(f.i)
        /\ callee.mode = "inst" /\ callee.own = f.own
    BY DEF LoopChild, NewFrame
  <2> HIDE DEF callee
  <2>6. Designates(call, heap, f) /\ Designates(call, heap, callee)
    BY <1>2, <2>2, <2>5, ElsewhereDesignates DEF Designates, InRange, ClauseModes
  <2> QED
    BY <1>6, <2>1, <2>4, <2>6, EnterMatches
<1> QED
  BY <1>3, <1>4, <1>5, <1>6

\* FILTER_KEY_*.
LEMMA FilteringMatches ==
  ASSUME Matching, Next, Filtering
  PROVE  MatchInv'
<1>1. /\ Top \in Frame /\ UniqueKeys(heap) /\ heap \in Heap /\ call' = call
      /\ Designates(call, heap, Top)
      /\ Top.pc \in Nat /\ Top.ow \in Nat /\ Top.sent \in Nat /\ Top.i \in Nat
      /\ Top.ow + 1 \in Nat /\ Top.ow + 2 \in Nat /\ Top.sent + 1 \in Nat
  BY MatchingTop, FrameFields
     DEF Filtering, Filter, FilterElement, Crawl, Match, AfterOperand, FilterBack, PreLoop
<1>2. CASE Filter
  <2>1. "obj" \in Kinds
    BY DEF Kinds
  <2> QED
    BY <1>2, <2>1, PreLoopMatches DEF Filter
<1>3. CASE FilterElement
  <2>1. /\ heap' = heap
        /\ \/ Out(Top)
           \/ Crash
           \/ /\ IsArray(heap, Top.tmp) /\ IsObj(heap, Element(Top))
              /\ Go(StartClause(Top, Element(Top), Top.pc))
           \/ Go(NextEntry(Top, "filter"))
    BY <1>3 DEF FilterElement, Data
  <2>2. ASSUME IsArray(heap, Top.tmp), IsObj(heap, Element(Top)),
               Go(StartClause(Top, Element(Top), Top.pc))
        PROVE  MatchInv'
    <3>1. Element(Top) \in Nodes /\ Element(Top) \in ValueSet /\ Top.tmp \in Nodes
      BY <2>2 DEF IsObj, IsArray, IsKind, ValueSet
    <3>2. /\ Top.i < Size(heap, Top.tmp)
          /\ Element(Top) = heap[Top.tmp].kids[Top.i + 1].at
      BY <1>1, <1>3, <3>1, DocAssumption, EntryAtType DEF FilterElement, In, Element, Fetch
    <3>3. Refetch(heap, Top.tmp, IdxInfo(Top.i)) = Element(Top)
      BY <1>1, <2>2, <3>1, <3>2, RefetchEntry
    <3> QED
      BY <1>1, <2>1, <2>2, <3>1, <3>3, StartClauseMatches
  <2>3. CASE Go(NextEntry(Top, "filter"))
    <3>1. NextEntry(Top, "filter").mode = "filter"
      BY <1>1, NextEntryFields
    <3>2. Designates(call, heap', NextEntry(Top, "filter"))
      BY <3>1, ElsewhereDesignates
    <3> QED
      BY <1>1, <2>1, <2>3, <3>2, GoMatches
  <2> QED
    BY <1>1, <2>1, <2>2, <2>3, OutMatches, CrashMatches
<1>4. CASE Crawl
  <2> DEFINE f == [Top EXCEPT !.mode = "match"]
             g == [Top EXCEPT !.el2 = Get(heap, Top.el2, Code(Top.ow).key),
                              !.ow = Top.ow + 1, !.cnt = Top.cnt - 1]
  <2>1. heap' = heap /\ Top.mode = "crawl" /\ (Go(f) \/ Go(g))
    BY <1>4 DEF Crawl, Data, In
  <2>2. /\ f.mode = "match" /\ f.tmp = Top.tmp /\ f.el = Top.el /\ f.i = Top.i /\ f.own = Top.own
        /\ g.mode = "crawl" /\ g.tmp = Top.tmp /\ g.el = Top.el /\ g.i = Top.i /\ g.own = Top.own
    BY <1>1, <2>1 DEF Frame
  <2> HIDE DEF f, g
  <2>3. Designates(call, heap', f) /\ Designates(call, heap', g)
    BY <1>1, <2>1, <2>2 DEF Designates, InRange, ClauseModes, WalkModes
  <2> QED
    BY <1>1, <2>1, <2>3, GoMatches
<1>5. CASE Match
  <2> DEFINE f == [Top EXCEPT !.mode = "operand", !.sent = Top.ow]
             callee == NewFrame(Top.ow + 1, call.root, NULL, NoInfo, Depth)
  <2>1. /\ heap' = heap /\ Top.mode = "match"
        /\ \/ \E match : Judge(Top.ow, match)
           \/ \E match : Judge(Top.ow + 1, match)
           \/ \E match : Judge(Top.ow + 2, match)
           \/ Crash
           \/ Enter(f, callee)
    BY <1>5 DEF Match, Data, In
  <2>2. /\ f.mode = "operand" /\ f.tmp = Top.tmp /\ f.el = Top.el /\ f.i = Top.i
        /\ f.own = Top.own
    BY <1>1 DEF Frame
  <2>3. f \in Frame
    BY <1>1, Zenon DEF Frame, WaitingModes, SubpathModes
  <2>4. Depth \in Nat \ {0} /\ callee.own = Depth
    BY TopType DEF Matching, NewFrame
  <2>5. callee \in Frame
    BY <1>1, <2>4, RunTypes, InfoType, NewFrameType DEF Matching
  <2> HIDE DEF f, callee
  <2>6. Designates(call, heap, f)
    BY <1>1, <2>1, <2>2 DEF Designates, InRange, WalkModes, ClauseModes
  <2>7. Designates(call, heap, callee)
    BY <2>4, ElsewhereDesignates
  <2> QED
    BY <1>1, <2>1, <2>3, <2>5, <2>6, <2>7, JudgeMatches, CrashMatches, EnterMatches
<1>6. CASE AfterOperand
  <2>1. heap' = heap /\ Top.mode = "operand" /\ \E match : Judge(Top.sent + 1, match)
    BY <1>6 DEF AfterOperand, Data, In
  <2> QED
    BY <1>1, <2>1, JudgeMatches
<1>7. CASE FilterBack
  BY <1>1, <1>7, AfterVisitMatches DEF FilterBack, Data
<1> QED
  BY <1>2, <1>3, <1>4, <1>5, <1>6, <1>7 DEF Filtering

\* A member of a union is called: there is no ctx.
LEMMA MemberMatches ==
  ASSUME Matching, heap' = heap, call' = call, NEW pc \in Nat, Member(pc)
  PROVE  MatchInv'
<1> DEFINE ci == IF Op(Top) = "remove" THEN Top.ci ELSE InfoSet(heap, Top.tmp, NoKey, 0)
           f  == [Top EXCEPT !.mode = "union", !.pc = pc, !.cnt = 0, !.rl = FALSE]
           callee == NewFrame(pc, Top.tmp, NULL, ci, Top.own)
<1>1. Top \in Frame
  BY MatchingTop
<1>2. Enter(f, callee)
  BY DEF Member
<1>3. ci \in ChildInfo
  <2>1. 0 \in Int /\ NoKey \in Text
    BY DEF Text
  <2>2. InfoSet(heap, Top.tmp, NoKey, 0) \in ChildInfo
    BY <2>1, InfoType
  <2> QED
    BY <1>1, <2>2, FrameFields
<1>4. Top.tmp \in ValueSet /\ Top.own \in Nat /\ NULL \in ValueSet /\ 0 \in Int
  BY <1>1, FrameFields DEF ValueSet
<1> HIDE DEF ci
<1>5. callee \in Frame
  BY <1>3, <1>4, NewFrameType
<1>6. callee.ctx = NULL /\ callee.mode = "inst"
  BY DEF NewFrame
<1>7. f \in Frame
  BY <1>1, <1>4, Zenon DEF Frame, WaitingModes
<1>8. f.mode = "union"
  BY <1>1 DEF Frame
<1> HIDE DEF f, callee
<1>9. Designates(call, heap, f) /\ Designates(call, heap, callee)
  BY <1>6, <1>8, ElsewhereDesignates DEF Designates, InRange, ClauseModes
<1> QED
  BY <1>2, <1>5, <1>7, <1>9, EnterMatches

\* GET_UNION, UNION_JMP and UNION_END.
LEMMA UnionMatches ==
  ASSUME Matching, Next, Union
  PROVE  MatchInv'
<1>1. /\ Top \in Frame /\ UniqueKeys(heap) /\ heap' = heap /\ call' = call
      /\ Designates(call, heap, Top)
      /\ Top.pc \in Nat /\ Top.pc + 1 \in Nat /\ NextInst(prog, Top.pc) \in Nat
      /\ NextInst(prog, Top.pc) + 1 \in Nat
  <2>1. Top \in Frame /\ UniqueKeys(heap) /\ Designates(call, heap, Top) /\ Top.pc \in Nat
    BY MatchingTop, FrameFields
  <2> QED
    BY <2>1 DEF NextInst, Union, GetUnion, AfterMember, NextMember, UnionJmp, SkipUnion,
                UnionEnd, Data
<1>2. ASSUME NEW f, Go(f), Top.mode \in WalkModes, f.mode \in WalkModes,
             f.tmp = Top.tmp, f.ctx = Top.ctx, f.ci = Top.ci, f.own = Top.own
      PROVE  MatchInv'
  <2>1. Designates(call, heap', f)
    BY <1>1, <1>2 DEF Designates, InRange, WalkModes, ClauseModes
  <2> QED
    BY <1>1, <1>2, <2>1, GoMatches
<1>3. CASE GetUnion
  BY <1>1, <1>3, MemberMatches DEF GetUnion
<1>4. CASE AfterMember
  BY <1>1, <1>4, AfterVisitMatches DEF AfterMember
<1>5. CASE NextMember
  <2> DEFINE q == NextInst(prog, Top.pc)
             f == [Top EXCEPT !.pc = q]
             up == [f EXCEPT !.cnt = Top.cnt + 1]
             down == [f EXCEPT !.cnt = Top.cnt - 1]
  <2>1. /\ Top.mode = "member"
        /\ Crash \/ Go(up) \/ Member(q + 1) \/ Out(f) \/ Go(down) \/ Go(f)
    BY <1>5 DEF NextMember, In
  <2>2. f \in Frame
    BY <1>1, ModeNames, ModeType
  <2>3. f.mode = "member" /\ up.mode = "member" /\ down.mode = "member"
    BY <1>1, <2>1 DEF Frame
  <2> HIDE DEF f, up, down
  <2>4. Designates(call, heap', f) /\ Designates(call, heap', up) /\ Designates(call, heap', down)
    BY <2>3, ElsewhereDesignates
  <2> QED
    BY <1>1, <2>1, <2>2, <2>4, CrashMatches, GoMatches, MemberMatches, OutMatches
<1>6. CASE UnionJmp
  <2> DEFINE f == [Top EXCEPT !.mode = "skip", !.cnt = 0]
  <2>1. Go(f) /\ Top.mode \in WalkModes
    BY <1>6 DEF UnionJmp, At_, In, WalkModes
  <2>2. /\ f.mode \in WalkModes /\ f.tmp = Top.tmp /\ f.ctx = Top.ctx /\ f.ci = Top.ci
        /\ f.own = Top.own
    BY <1>1 DEF Frame, WalkModes
  <2> HIDE DEF f
  <2> QED
    BY <1>2, <2>1, <2>2
<1>7. CASE SkipUnion
  <2> DEFINE q == NextInst(prog, Top.pc)
             f1 == [Top EXCEPT !.mode = "inst", !.pc = Top.pc + 1]
             f2 == [Top EXCEPT !.pc = q, !.cnt = Top.cnt + 1]
             f3 == [Top EXCEPT !.pc = q + 1, !.cnt = Top.cnt - 1]
             f4 == [Top EXCEPT !.pc = q]
  <2>1. Top.mode \in WalkModes /\ (Go(f1) \/ Crash \/ Go(f2) \/ Go(f3) \/ Go(f4))
    BY <1>7 DEF SkipUnion, In, WalkModes
  <2>2. \A f \in {f1, f2, f3, f4} :
          /\ f.mode \in WalkModes /\ f.tmp = Top.tmp /\ f.ctx = Top.ctx /\ f.ci = Top.ci
          /\ f.own = Top.own
    BY <1>1, <2>1 DEF Frame, WalkModes
  <2> HIDE DEF f1, f2, f3, f4
  <2> QED
    BY <1>2, <2>1, <2>2, CrashMatches
<1>8. CASE UnionEnd
  <2> DEFINE f == [Top EXCEPT !.pc = Top.pc + 1]
  <2>1. Go(f) /\ Top.mode \in WalkModes
    BY <1>8 DEF UnionEnd, At_, In, WalkModes
  <2>2. /\ f.mode \in WalkModes /\ f.tmp = Top.tmp /\ f.ctx = Top.ctx /\ f.ci = Top.ci
        /\ f.own = Top.own
    BY <1>1, <2>1 DEF Frame
  <2> HIDE DEF f
  <2> QED
    BY <1>2, <2>1, <2>2
<1> QED
  BY <1>3, <1>4, <1>5, <1>6, <1>7, <1>8 DEF Union

--------------------------------------------------------------------------------
(***************************************************************************)
(* The theorem.                                                            *)
(***************************************************************************)

\* The call starts: there is no ctx.
LEMMA BeginMatches ==
  ASSUME IInv, Begin
  PROVE  MatchInv'
<1>1. heap = call.doc /\ UNCHANGED <<call, heap>>
  BY DEF Begin, IInv, NotBegun
<1> DEFINE f == NewFrame(1, call.root, NULL, NoInfo, 0)
<1>2. CASE stack' = <<f>>
  <2>1. f.ctx = NULL /\ f.mode = "inst"
    BY DEF NewFrame
  <2> HIDE DEF f
  <2>2. Depth' = 1 /\ stack'[1] = f
    BY <1>2 DEF Depth
  <2>3. Designates(call, heap, f)
    BY <2>1 DEF Designates, InRange, ClauseModes
  <2> QED
    BY <1>1, <1>2, <2>2, <2>3 DEF MatchInv, MatchOK, MatchHyp
<1>3. CASE status' # "run"
  BY <1>3 DEF MatchInv
<1> QED
  BY <1>1, <1>2, <1>3 DEF Begin

LEMMA NextMatches ==
  ASSUME IInv, MatchInv, [Next]_vars
  PROVE  MatchInv'
<1>1. CASE Begin
  BY <1>1, BeginMatches
<1>2. CASE Finished \/ UNCHANGED vars
  BY <1>2 DEF Finished, vars, MatchInv, MatchOK, MatchHyp, Depth
<1>3. CASE Next /\ ~Begin /\ ~Finished
  <2>1. status = "run" /\ call' = call
    BY <1>3, Running
  <2>2. CASE MatchHyp
    <3>1. Matching
      BY <2>1, <2>2 DEF Matching
    <3> QED
      BY <1>3, <3>1, ReturnMatches, RootsMatch, GettingMatches, AllAndRangeMatch,
         DescentMatches, FilteringMatches, UnionMatches
         DEF Next, Looping
  <2>3. CASE ~MatchHyp
    BY <2>1, <2>3 DEF MatchInv, MatchHyp
  <2> QED
    BY <2>2, <2>3
<1> QED
  BY <1>1, <1>2, <1>3

LEMMA InitMatches == Init => MatchInv
  BY DEF Init, MatchInv

\* Whatever the program, the operation and the backend are, if the keys of the
\* document's objects are different, what is removed, replaced or handed to a
\* callback at the end of the path is the match: child_info designates it.  On
\* yyjson the path has no range that begins behind the second entry: there the
\* code hands over an entry with the index of a later one (csonpath_do.h:326).
THEOREM TheMatchIsDesignated ==
  Spec => [](UniqueKeys(call.doc) /\ RangesInStep(call) => InfoDesignatesMatch)
<1>1. IInv /\ MatchInv => (UniqueKeys(call.doc) /\ RangesInStep(call) => InfoDesignatesMatch)
  <2> SUFFICES ASSUME IInv, MatchInv, UniqueKeys(call.doc), RangesInStep(call), At_(Endish),
                      Op(Top) \notin FindOps, Top.ctx # NULL, Top.tmp # NULL
               PROVE  Refetch(heap, Top.ctx, Top.ci) = Top.tmp
    BY DEF InfoDesignatesMatch
  <2>1. status = "run" /\ Top.mode = "inst"
    BY DEF At_, In
  <2>2. Top.own = 0 /\ call.op \notin FindOps
    <3>1. Top.own \in Nat
      BY <2>1, TopType, FrameFields
    <3> QED
      BY <3>1 DEF Op, FindOps
  <2>3. Matching
    BY <2>1, <2>2 DEF Matching, MatchHyp
  <2> QED
    BY <2>1, <2>2, <2>3, MatchingTop DEF Designates, InRange, WalkModes
<1> QED
  BY <1>1, InitIInv, NextIInv, InitMatches, NextMatches, PTL DEF Spec

--------------------------------------------------------------------------------
(***************************************************************************)
(* The loops that are started over (goto again, range_again, filter_again):*)
(* a loop that starts over has lost an entry.                              *)
(***************************************************************************)

RootOps == {"ROOT", "SWITCH_ROOT"}

\* What the compiler emits after "|": an alternative starts at a root.
OrThenRoot(p) == \A pc \in DOMAIN p : p[pc].inst = "OR" => CellAt(p, pc + 1).inst \in RootOps
FilterFree(p) == \A pc \in DOMAIN p : p[pc].inst \notin FilterOps

\* The operations that create start a filter over whenever they have written:
\* theirs is a program without a filter.
RestartHyp == OrThenRoot(prog) /\ (call.op \in CreateOps => FilterFree(prog))

(***************************************************************************)
(* What is known of a frame of the operation itself, in the call c, when   *)
(* the document is h.  Shrinking: the container of a loop has not grown    *)
(* since the loop started, and has shrunk if the loop is to be started     *)
(* over.  AtChild: while it walks on from a loop's entry, child_info       *)
(* designates an entry of the container it came from, where there is       *)
(* something to lose.  After an OR it does not, until the root has been    *)
(* taken.  Placed: the frame g is called by the frame f.                   *)
(***************************************************************************)
BackModes   == {"all_back", "range_back", "dot_back", "dot_return"}
EntryModes  == BackModes \cup {"all", "range", "dot", "descend"}
FilterModes == {"filter", "crawl", "match", "operand", "filter_back"}

Has(h, n, ci) ==
  \/ ci.type = "STR" /\ IsObj(h, n) /\ KeyIndex(h, n, ci.key) # {}
  \/ ci.type = "INTEGER" /\ IsArray(h, n) /\ ci.idx + 1 \in DOMAIN h[n].kids

Shrinking(c, h, f) ==
  /\ c.op \in CreateOps => f.mode \notin FilterModes
  /\ c.op = "remove" /\ f.own = 0 =>
       /\ f.mode \in BackModes \cup {"descend"} => f.tmp \in Nodes
       /\ f.mode \in EntryModes /\ f.tmp \in Nodes => Size(h, f.tmp) <= f.n
       /\ f.mode \in EntryModes /\ f.rl => f.tmp \in Nodes /\ Size(h, f.tmp) < f.n

Going(c, f) == \/ f.mode \in {"skip", "subpath"}
               \/ f.mode = "inst" /\ CellAt(c.prog, f.pc).inst \notin RootOps
AtChild(c, h, f) ==
  Going(c, f) /\ f.ctx # NULL /\ NeedForeachRedo(c.be, h, f.ctx) => Has(h, f.ctx, f.ci)

Placed(c, h, f, g) ==
  c.op = "remove" /\ g.own = 0 /\ f.mode \in BackModes =>
    g.inctx = f.tmp /\ AtChild(c, h, g)

RestartOK ==
  /\ \A d \in 1..Depth : Shrinking(call, heap, stack[d])
  /\ \A d \in 1..(Depth - 1) : Placed(call, heap, stack[d], stack[d + 1])
RestartInv == status = "run" /\ RestartHyp => RestartOK

--------------------------------------------------------------------------------
(***************************************************************************)
(* CSONPATH_REMOVE_CHILD makes no container longer, and the one it takes   *)
(* an entry from shorter, unless it is a json-c array.                     *)
(***************************************************************************)
NoLonger(h, g) == \A n \in Nodes : Size(g, n) <= Size(h, n)

LEMMA ReleaseSizes ==
  ASSUME NEW h \in Heap, NEW n, NEW pinned
  PROVE  \A m \in Nodes : Size(Release(h, n, pinned), m) = Size(h, m)
<1> DEFINE g == Release(h, n, pinned)
<1>1. \A m \in Nodes : g[m].kids = h[m].kids
  BY ReleaseEffect
<1> HIDE DEF g
<1>2. \A m \in Nodes : Size(g, m) = Size(h, m)
  BY <1>1 DEF Size
<1> QED
  BY <1>2 DEF g

LEMMA RemoveShortens ==
  ASSUME NEW b, NEW h \in Heap, NEW n, NEW ci \in ChildInfo, NEW pinned
  PROVE  LET g == RemoveChild(b, h, n, ci, pinned) IN
         /\ NoLonger(h, g)
         /\ Has(h, n, ci) /\ (b = "python" \/ (b = "json_c" /\ IsObj(h, n))) =>
              n \in Nodes /\ Size(g, n) < Size(h, n)
<1> DEFINE kids == h[n].kids
           hit  == CASE ci.type = "STR"     -> IF IsObj(h, n) THEN KeyIndex(h, n, ci.key)
                                                              ELSE {}
                     [] ci.type = "INTEGER" -> IF IsArray(h, n)
                                               THEN {ci.idx + 1} \cap DOMAIN kids ELSE {}
                     [] OTHER               -> {}
           i    == CHOOSE j \in hit : TRUE
           left == IF ci.type = "INTEGER" /\ b = "json_c"
                   THEN [kids EXCEPT ![i].at = NULL]
                   ELSE RemoveKid(kids, i)
           cut  == [h EXCEPT ![n].kids = left]
           g    == RemoveChild(b, h, n, ci, pinned)
<1>1. Has(h, n, ci) => n \in Nodes /\ hit # {}
  BY DEF Has, IsObj, IsArray, IsKind
<1>2. \A m \in Nodes : Size(h, m) \in Nat
  BY KidsType
<1>3. CASE n \notin Nodes \/ hit = {}
  <2>1. g = h
    BY <1>3 DEF RemoveChild
  <2> HIDE DEF g, hit
  <2>2. NoLonger(h, g) /\ ~Has(h, n, ci)
    BY <1>1, <1>2, <1>3, <2>1 DEF NoLonger
  <2> QED
    BY <2>2 DEF g
<1>4. CASE n \in Nodes /\ hit # {}
  <2>1. kids \in Seq(Entry) /\ Size(h, n) = Len(kids) /\ Len(kids) \in Nat
    BY <1>4, KidsType DEF Size
  <2>2. hit \subseteq DOMAIN kids
    BY DEF KeyIndex
  <2>3. i \in DOMAIN kids
    BY <1>4, <2>2
  <2>4. NULL \in ValueSet
    BY DEF ValueSet
  <2>5. /\ left \in Seq(Entry) /\ Len(left) <= Len(kids)
        /\ ci.type # "INTEGER" \/ b # "json_c" => Len(left) < Len(kids)
    <3> HIDE DEF i, kids
    <3>1. RemoveKid(kids, i) \in Seq(Entry) /\ Len(RemoveKid(kids, i)) = Len(kids) - 1
      <4>1. RemoveKid(kids, i) \in Seq(Entry)
        BY <2>1, <2>3, RemoveKidType
      <4>2. DOMAIN RemoveKid(kids, i) = 1..(Len(kids) - 1)
        BY DEF RemoveKid
      <4>3. Len(kids) - 1 \in Nat
        BY <2>1, <2>3
      <4> QED
        BY <4>1, <4>2, <4>3
    <3>2. [kids EXCEPT ![i].at = NULL] \in Seq(Entry)
      BY <2>1, <2>4, SetAtType
    <3>3. Len([kids EXCEPT ![i].at = NULL]) = Len(kids)
      BY <2>1
    <3> QED
      BY <2>1, <3>1, <3>2, <3>3
  <2> HIDE DEF left
  <2>6. cut \in Heap /\ \A m \in Nodes : Size(cut, m) = IF m = n THEN Len(left) ELSE Size(h, m)
    BY <1>4, <2>5, KidsUpdate DEF Size, Heap, Node
  <2>7. g = Release(cut, kids[i].at, pinned)
    BY <1>4 DEF RemoveChild, left
  <2> HIDE DEF g, cut, i, hit
  <2>8. \A m \in Nodes : Size(g, m) = IF m = n THEN Len(left) ELSE Size(h, m)
    BY <2>6, <2>7, ReleaseSizes
  <2>9. NoLonger(h, g)
    BY <1>2, <1>4, <2>1, <2>5, <2>8 DEF NoLonger
  <2>10. ASSUME Has(h, n, ci), b = "python" \/ (b = "json_c" /\ IsObj(h, n))
         PROVE  ci.type # "INTEGER" \/ b # "json_c"
    BY <2>10 DEF Has, IsObj, IsArray, IsKind
  <2> QED
    BY <1>4, <2>1, <2>5, <2>8, <2>9, <2>10 DEF g
<1> QED
  BY <1>3, <1>4

\* What is found again in a container is one of its entries.
LEMMA FoundIsThere ==
  ASSUME NEW h \in Heap, NEW n, NEW ci \in ChildInfo, Refetch(h, n, ci) # NULL
  PROVE  n \in Nodes /\ Has(h, n, ci)
<1>1. CASE ci.type = "STR"
  <2>1. IsObj(h, n) /\ KeyIndex(h, n, ci.key) # {}
    BY <1>1 DEF Refetch, Get
  <2> QED
    BY <1>1, <2>1 DEF Has, IsObj, IsKind
<1>2. CASE ci.type = "INTEGER"
  <2>1. IsArray(h, n) /\ 0 <= ci.idx /\ ci.idx < Size(h, n)
    BY <1>2 DEF Refetch, At
  <2>2. n \in Nodes /\ ci.idx \in Int
    BY <2>1 DEF IsArray, IsKind, ChildInfo
  <2>3. ci.idx + 1 \in DOMAIN h[n].kids
    BY <2>1, <2>2, KidsType
  <2> QED
    BY <1>2, <2>1, <2>2, <2>3 DEF Has
<1>3. CASE ci.type \notin {"STR", "INTEGER"}
  BY <1>3 DEF Refetch
<1> QED
  BY <1>1, <1>2, <1>3

\* Where there is something to lose, the entry a loop is at is there.
LEMMA ElementIsThere ==
  ASSUME IInv, call.op = "remove", NEW f \in Frame, More(f), Element(f) # BAD,
         NeedForeachRedo(be, heap, f.tmp)
  PROVE  Has(heap, f.tmp, CurrentInfo(f))
<1>1. f.i \in Nat /\ heap \in Heap /\ f.tmp \in Nodes
  BY FrameFields, ElementType DEF IInv, TypeOK
<1>2. Size(heap, f.tmp) \in Nat /\ DOMAIN heap[f.tmp].kids = 1..Size(heap, f.tmp)
  BY <1>1, KidsType
<1>3. CASE IsObj(heap, f.tmp)
  <2>1. f.i < Size(heap, f.tmp)
    BY <1>3 DEF More, IsArray, IsObj, IsKind
  <2>2. f.i + 1 \in DOMAIN heap[f.tmp].kids
    BY <1>1, <1>2, <2>1
  <2>3. f.i + 1 \in KeyIndex(heap, f.tmp, heap[f.tmp].kids[f.i + 1].key)
    BY <2>2 DEF KeyIndex
  <2> QED
    BY <1>3, <2>3 DEF Has, CurrentInfo, KeyInfo
<1>4. CASE ~IsObj(heap, f.tmp)
  <2>1. be = "python" /\ IsArray(heap, f.tmp)
    BY <1>1, <1>4 DEF NeedForeachRedo, More
  <2>2. f.i < Size(heap, f.tmp)
    BY <2>1, EntryAtType DEF Element, Fetch
  <2>3. f.i + 1 \in DOMAIN heap[f.tmp].kids
    BY <1>1, <1>2, <2>2
  <2> QED
    BY <1>4, <2>1, <2>3 DEF Has, CurrentInfo, IdxInfo
<1> QED
  BY <1>3, <1>4

--------------------------------------------------------------------------------
(***************************************************************************)
(* The frame on top goes on, calls, or returns.                            *)
(***************************************************************************)
Restarting == IInv /\ RestartInv /\ RestartHyp /\ status = "run"

\* Of a remove only the end of the path writes.
LEMMA RemoveQuiet ==
  ASSUME Next, call.op = "remove", ~ReturnRemove
  PROVE  heap' = heap
<1>1. /\ Op(Top) # "update_or_create" /\ Op(Top) # "callback"
      /\ Op(Top) \notin CallbackOps /\ Op(Top) \notin CreateOps
  BY DEF Op, CallbackOps, CreateOps
<1>2. ASSUME NEW kind, NEW ci, NEW at, Getter(Top, kind, ci, at)
      PROVE  heap' = heap
  <2>1. PreGet(Top, kind, ci).h = heap
    BY <1>1 DEF PreGet
  <2> QED
    BY <1>2, <2>1 DEF Getter
<1>3. ASSUME NEW kind, NEW loop, PreLoop(Top, kind, loop)
      PROVE  heap' = heap
  BY <1>1, <1>3 DEF PreLoop
<1>4. CASE Begin \/ Finished
  BY <1>4 DEF Begin, Finished, vars
<1>5. CASE Return
  BY <1>1, <1>5 DEF Return, ReturnFound, ReturnUpdate, ReturnCallback
<1>6. CASE Root \/ SwitchRoot \/ TypeCheck \/ Unimplemented
  BY <1>1, <1>6 DEF Root, SwitchRoot, TypeCheck, Unimplemented, Data
<1>7. CASE Getting
  BY <1>2, <1>7 DEF Getting, GetObj, GetArray, ScanForOr, GetSubpath, AfterSubpath, Data
<1>8. CASE GetAll \/ Filter
  BY <1>3, <1>8 DEF GetAll, Filter
<1>9. CASE AllElement \/ AllBack \/ GetRange \/ RangeElement \/ RangeBack
  BY <1>9 DEF AllElement, AllBack, GetRange, RangeElement, RangeBack, Data
<1>10. CASE FindAll \/ DotElement \/ DotBack \/ Descend \/ DotReturn
  BY <1>10 DEF FindAll, DotElement, DotBack, Descend, DotReturn, Data
<1>11. CASE FilterElement \/ Crawl \/ Match \/ AfterOperand \/ FilterBack
  BY <1>11 DEF FilterElement, Crawl, Match, AfterOperand, FilterBack, Data
<1>12. CASE Union
  BY <1>12 DEF Union, GetUnion, AfterMember, NextMember, UnionJmp, SkipUnion, UnionEnd, Data
<1> QED
  BY <1>4, <1>5, <1>6, <1>7, <1>8, <1>9, <1>10, <1>11, <1>12 DEF Next, Looping, Filtering

\* What the frame on top, and the one below it, are known to be.
LEMMA RestartingTop ==
  ASSUME Restarting
  PROVE  /\ stack \in Seq(Frame) /\ Depth \in Nat \ {0} /\ Depth = Len(stack)
         /\ Top \in Frame /\ Top = stack[Depth] /\ Top.own \in Nat
         /\ heap \in Heap /\ call \in Calls /\ NULL \notin Nodes
         /\ Shrinking(call, heap, Top)
         /\ \A d \in 1..Depth : Shrinking(call, heap, stack[d])
         /\ \A d \in 1..(Depth - 1) : Placed(call, heap, stack[d], stack[d + 1])
<1>1. stack \in Seq(Frame) /\ Depth \in Nat \ {0} /\ Depth = Len(stack)
      /\ Top \in Frame /\ Depth \in 1..Depth
  BY TopType DEF Restarting, Depth
<1>2. Top.own \in Nat
  BY <1>1, FrameFields
<1> QED
  BY <1>1, <1>2, DocAssumption DEF Restarting, RestartInv, RestartOK, Top, IInv, TypeOK

\* Nothing is said of the document for another operation.
LEMMA Steady ==
  ASSUME call.op = "remove" => heap' = heap
  PROVE  /\ \A f : Shrinking(call, heap, f) => Shrinking(call, heap', f)
         /\ \A f, g : Placed(call, heap, f, g) => Placed(call, heap', f, g)
  BY DEF Shrinking, Placed

\* The frame f takes the place of the frame on top.
Follows(f) ==
  /\ f.own = Top.own
  /\ call.op = "remove" /\ Top.own = 0 =>
       f.inctx = Top.inctx /\ (AtChild(call, heap, Top) => AtChild(call, heap, f))

LEMMA FollowsPlaced ==
  ASSUME Restarting, NEW f, Follows(f), NEW d \in 1..(Depth - 1), d + 1 = Depth
  PROVE  Placed(call, heap, stack[d], f)
<1>1. Placed(call, heap, stack[d], Top)
  BY RestartingTop
<1> QED
  BY <1>1 DEF Follows, Placed

LEMMA GoRestarts ==
  ASSUME Restarting, call' = call, call.op = "remove" => heap' = heap,
         NEW f, Go(f), Shrinking(call, heap, f), Follows(f)
  PROVE  RestartInv'
<1>1. /\ Depth \in Nat \ {0}
      /\ \A d \in 1..Depth : Shrinking(call, heap, stack[d])
      /\ \A d \in 1..(Depth - 1) : Placed(call, heap, stack[d], stack[d + 1])
  BY RestartingTop
<1>2. Depth' = Depth /\ \A d \in 1..Depth : stack'[d] = IF d = Depth THEN f ELSE stack[d]
  BY GoEffect DEF Restarting
<1>3. ASSUME NEW d \in 1..Depth
      PROVE  Shrinking(call, heap, stack'[d])
  BY <1>1, <1>2
<1>4. ASSUME NEW d \in 1..(Depth - 1)
      PROVE  Placed(call, heap, stack'[d], stack'[d + 1])
  <2>1. stack'[d] = stack[d] /\ d + 1 \in 1..Depth
    BY <1>1, <1>2
  <2>2. CASE d + 1 = Depth
    BY <1>2, <2>1, <2>2, FollowsPlaced
  <2>3. CASE d + 1 # Depth
    BY <1>1, <1>2, <2>1, <2>3
  <2> QED
    BY <2>2, <2>3
<1>5. RestartOK'
  BY <1>2, <1>3, <1>4, Steady DEF RestartOK
<1> QED
  BY <1>5 DEF RestartInv

LEMMA EnterRestarts ==
  ASSUME Restarting, call' = call, heap' = heap,
         NEW f \in Frame, NEW callee \in Frame, Enter(f, callee),
         Shrinking(call, heap, f), Follows(f),
         Shrinking(call, heap, callee), Placed(call, heap, f, callee)
  PROVE  RestartInv'
<1>1. /\ Depth \in Nat \ {0}
      /\ \A d \in 1..Depth : Shrinking(call, heap, stack[d])
      /\ \A d \in 1..(Depth - 1) : Placed(call, heap, stack[d], stack[d + 1])
  BY RestartingTop
<1>2. CASE status' = "crash"
  BY <1>2 DEF RestartInv
<1>3. CASE /\ Depth' = Depth + 1
           /\ \A d \in 1..(Depth + 1) :
                 stack'[d] = IF d = Depth THEN f ELSE IF d = Depth + 1 THEN callee
                                                      ELSE stack[d]
  <2>1. ASSUME NEW d \in 1..(Depth + 1)
        PROVE  Shrinking(call, heap, stack'[d])
    <3>1. d \notin {Depth, Depth + 1} => d \in 1..Depth
      BY <1>1
    <3> QED
      BY <1>1, <1>3, <3>1
  <2>2. ASSUME NEW d \in 1..Depth
        PROVE  Placed(call, heap, stack'[d], stack'[d + 1])
    <3>1. d \in 1..(Depth + 1) /\ d + 1 \in 1..(Depth + 1)
      BY <1>1
    <3>2. CASE d = Depth
      <4>1. stack'[d] = f /\ stack'[d + 1] = callee
        BY <1>1, <1>3, <3>1, <3>2
      <4> QED
        BY <4>1
    <3>3. CASE d + 1 = Depth
      <4>1. stack'[d] = stack[d] /\ stack'[d + 1] = f /\ d \in 1..(Depth - 1)
        BY <1>1, <1>3, <3>1, <3>3
      <4> QED
        BY <3>3, <4>1, FollowsPlaced
    <3>4. CASE d # Depth /\ d + 1 # Depth
      <4>1. stack'[d] = stack[d] /\ stack'[d + 1] = stack[d + 1] /\ d \in 1..(Depth - 1)
        BY <1>1, <1>3, <3>1, <3>4
      <4> QED
        BY <1>1, <4>1
    <3> QED
      BY <3>2, <3>3, <3>4
  <2>3. Depth' - 1 = Depth
    BY <1>1, <1>3
  <2>4. RestartOK'
    BY <1>3, <2>1, <2>2, <2>3 DEF RestartOK
  <2> QED
    BY <2>4 DEF RestartInv
<1> QED
  BY <1>2, <1>3, EnterEffect DEF Restarting

\* A return that does not ask for a new round, or one of another operation.
LEMMA LeaveRestarts ==
  ASSUME Restarting, call' = call, call.op = "remove" => heap' = heap, NEW r,
         \/ Leave(r)
         \/ \E walker : \E v \in Nat : LeaveAt(walker, v, r)
         \/ call.op # "remove" /\ \E cond \in BOOLEAN : LeaveFrom(Reloop(cond), r)
  PROVE  RestartInv'
<1>1. /\ Depth \in Nat \ {0} /\ Top \in Frame /\ IInv /\ status = "run"
      /\ \A d \in 1..Depth : Shrinking(call, heap, stack[d])
      /\ \A d \in 1..(Depth - 1) : Placed(call, heap, stack[d], stack[d + 1])
  BY RestartingTop DEF Restarting
<1>2. \E s : /\ SameShape(s) /\ LeaveFrom(s, r)
             /\ \A d \in 1..Depth : /\ Alike(s[d], stack[d])
                                    /\ call.op = "remove" => s[d].rl = stack[d].rl
  <2>1. CASE Leave(r)
    BY <1>1, <2>1, ShapeKept DEF Leave, Alike
  <2>2. ASSUME NEW walker, NEW v \in Nat, LeaveAt(walker, v, r)
        PROVE  \E s : /\ SameShape(s) /\ LeaveFrom(s, r)
                      /\ \A d \in 1..Depth : /\ Alike(s[d], stack[d])
                                             /\ call.op = "remove" => s[d].rl = stack[d].rl
    BY <1>1, <2>2, SentinelEffect DEF LeaveAt
  <2>3. ASSUME NEW cond \in BOOLEAN, LeaveFrom(Reloop(cond), r), call.op # "remove"
        PROVE  \E s : /\ SameShape(s) /\ LeaveFrom(s, r)
                      /\ \A d \in 1..Depth : /\ Alike(s[d], stack[d])
                                             /\ call.op = "remove" => s[d].rl = stack[d].rl
    BY <1>1, <2>3, ReloopEffect
  <2> QED
    BY <2>1, <2>2, <2>3
<1>3. PICK s : /\ SameShape(s) /\ LeaveFrom(s, r)
               /\ \A d \in 1..Depth : /\ Alike(s[d], stack[d])
                                      /\ call.op = "remove" => s[d].rl = stack[d].rl
  BY <1>2
<1>4. Depth' = Depth - 1 /\ \A d \in 1..(Depth - 1) : stack'[d] = s[d]
  BY <1>1, <1>3, LeaveEffect
<1>5. ASSUME NEW d \in 1..(Depth - 1)
      PROVE  Shrinking(call, heap, stack'[d])
  <2>1. d \in 1..Depth
    BY <1>1
  <2>2. Alike(stack'[d], stack[d]) /\ (call.op = "remove" => stack'[d].rl = stack[d].rl)
    BY <1>3, <1>4, <2>1
  <2>3. Shrinking(call, heap, stack[d])
    BY <1>1, <2>1
  <2> QED
    BY <2>2, <2>3 DEF Alike, Shrinking
<1>6. ASSUME NEW d \in 1..(Depth - 2)
      PROVE  Placed(call, heap, stack'[d], stack'[d + 1])
  <2>1. d \in 1..(Depth - 1) /\ d + 1 \in 1..(Depth - 1) /\ d \in 1..Depth /\ d + 1 \in 1..Depth
    BY <1>1
  <2>2. Alike(stack'[d], stack[d]) /\ Alike(stack'[d + 1], stack[d + 1])
    BY <1>3, <1>4, <2>1
  <2>3. Placed(call, heap, stack[d], stack[d + 1])
    BY <1>1, <2>1
  <2> QED
    BY <2>2, <2>3 DEF Alike, Placed, AtChild, Going
<1>7. Depth' - 1 = Depth - 2
  BY <1>1, <1>4
<1>8. RestartOK'
  BY <1>4, <1>5, <1>6, <1>7, Steady DEF RestartOK
<1> QED
  BY <1>8 DEF RestartInv

\* A crash.
LEMMA CrashRestarts ==
  ASSUME Crash
  PROVE  RestartInv'
  BY DEF Crash, RestartInv

--------------------------------------------------------------------------------
(***************************************************************************)
(* The entry is removed: the loop that asked for it is told, and the other *)
(* loops' containers are no longer than they were.                         *)
(***************************************************************************)
LEMMA ReturnRemoveRestarts ==
  ASSUME Restarting, ReturnRemove
  PROVE  RestartInv'
<1> DEFINE cond == Top.ctx = Top.inctx /\ NeedForeachRedo(be, heap, Top.ctx)
           s    == Reloop(cond)
           cut  == RemoveChild(be, heap, Top.ctx, Top.ci, Pinned)
<1>1. /\ Depth \in Nat \ {0} /\ Depth = Len(stack) /\ Top \in Frame /\ IInv /\ status = "run"
      /\ heap \in Heap /\ Top = stack[Depth] /\ Top.own \in Nat /\ call \in Calls
      /\ stack \in Seq(Frame) /\ NULL \notin Nodes
      /\ \A d \in 1..Depth : Shrinking(call, heap, stack[d])
      /\ \A d \in 1..(Depth - 1) : Placed(call, heap, stack[d], stack[d + 1])
  BY RestartingTop DEF Restarting
<1>2. /\ Top.own = 0 /\ call.op = "remove" /\ call' = call
      /\ Top.mode = "inst" /\ Here.inst \in Endish
  BY <1>1 DEF ReturnRemove, Op, At_, In
<1>3. be \in {"python", "json_c"}
  BY <1>1, <1>2, CallAssumption DEF be, Writable, FindOps
<1>4. Top.ci \in ChildInfo
  BY <1>1, FrameFields
<1>5. /\ heap' = heap \/ heap' = cut
      /\ Top.ci.type # "NONE" /\ Top.ctx # NULL => heap' = cut
  BY DEF ReturnRemove
<1>6. (\E r : LeaveFrom(s, r)) \/ Crash
  BY DEF ReturnRemove
<1>7. CASE Crash
  BY <1>7, CrashRestarts
<1>8. ASSUME NEW r, LeaveFrom(s, r)
      PROVE  RestartInv'
  <2>1. cond \in BOOLEAN
    OBVIOUS
  <2>2. /\ NoLonger(heap, cut)
        /\ Has(heap, Top.ctx, Top.ci) /\ (be = "python" \/ (be = "json_c" /\ IsObj(heap, Top.ctx)))
             => Top.ctx \in Nodes /\ Size(cut, Top.ctx) < Size(heap, Top.ctx)
    BY <1>1, <1>4, RemoveShortens
  <2>3. cond => NeedForeachRedo(be, heap, Top.ctx) /\ Top.ctx = Top.inctx
    OBVIOUS
  <2> HIDE DEF cond, cut
  <2>4. /\ SameShape(s)
        /\ \A d \in 1..Depth :
             /\ Alike(s[d], stack[d])
             /\ s[d].rl = IF cond /\ d = Depth - 1 THEN TRUE ELSE stack[d].rl
    BY <1>1, <2>1, ReloopEffect
  <2> HIDE DEF s
  <2>5. Depth' = Depth - 1 /\ \A d \in 1..(Depth - 1) : stack'[d] = s[d]
    BY <1>1, <1>8, <2>4, LeaveEffect
  <2>6. \A n \in Nodes : Size(heap, n) \in Nat /\ Size(heap', n) \in Int
                         /\ Size(heap', n) <= Size(heap, n)
    <3>1. cut \in Heap
      BY <1>1, <1>4, RemoveChildType DEF cut
    <3>2. \A n \in Nodes : Size(heap, n) \in Nat /\ Size(cut, n) \in Nat
      BY <1>1, <3>1, KidsType
    <3> QED
      BY <1>5, <2>2, <3>2 DEF NoLonger
  <2>7. \A d \in 1..(Depth - 1) :
          /\ stack[d].mode \in WaitingModes \ SubpathModes
          /\ stack[d].mode \in EntryModes => stack[d].mode \in BackModes
    <3>1. \A d \in 1..(Depth - 1) : stack[d].mode \in WaitingModes
      BY <1>1 DEF IInv, SentinelOwnerWaits
    <3>2. \A d \in 1..(Depth - 1) : stack[d].mode \notin SubpathModes
      BY <1>1, <1>2 DEF IInv, SubpathsOnTop
    <3> QED
      BY <3>1, <3>2 DEF WaitingModes, SubpathModes, EntryModes, BackModes
  <2>8. ASSUME NEW d \in 1..(Depth - 1), cond, d = Depth - 1, stack[d].mode \in EntryModes,
               stack[d].own = 0
        PROVE  stack[d].tmp \in Nodes /\ Size(heap', stack[d].tmp) < stack[d].n
    <3>1. /\ stack[d].mode \in BackModes /\ d \in 1..Depth /\ d + 1 = Depth
      BY <1>1, <2>7, <2>8
    <3>2. Top.inctx = stack[d].tmp /\ AtChild(call, heap, Top)
      BY <1>1, <1>2, <3>1 DEF Placed
    <3>3. stack[d].tmp \in Nodes /\ Size(heap, stack[d].tmp) <= stack[d].n
      BY <1>1, <1>2, <2>8, <3>1 DEF Shrinking
    <3>4. CellAt(call.prog, Top.pc).inst \notin RootOps
      BY <1>2 DEF Here, Code, prog, RootOps, Endish
    <3>5. Top.ctx = stack[d].tmp /\ NeedForeachRedo(be, heap, Top.ctx)
      BY <2>3, <2>8, <3>2
    <3>6. Has(heap, Top.ctx, Top.ci)
      BY <1>1, <1>2, <3>2, <3>3, <3>4, <3>5 DEF AtChild, Going, be
    <3>7. heap' = cut
      BY <1>1, <1>5, <3>3, <3>5, <3>6 DEF Has
    <3>8. Size(cut, Top.ctx) < Size(heap, Top.ctx)
      BY <1>3, <2>2, <3>5, <3>6 DEF NeedForeachRedo
    <3>9. stack[d].n \in Nat /\ Size(heap, Top.ctx) \in Nat /\ Size(heap', Top.ctx) \in Int
      BY <1>1, <2>6, <3>1, <3>3, <3>5, FrameFields
    <3> QED
      BY <3>3, <3>5, <3>7, <3>8, <3>9
  <2>9. ASSUME NEW d \in 1..(Depth - 1)
        PROVE  Shrinking(call, heap', stack'[d])
    <3>1. d \in 1..Depth /\ stack[d] \in Frame
      BY <1>1
    <3>2. stack[d].n \in Nat
      BY <3>1, FrameFields
    <3>3. /\ Alike(stack'[d], stack[d])
          /\ stack'[d].rl = IF cond /\ d = Depth - 1 THEN TRUE ELSE stack[d].rl
      BY <2>4, <2>5, <3>1
    <3>4. Shrinking(call, heap, stack[d])
      BY <1>1, <3>1
    <3>5. call.op \in CreateOps => stack'[d].mode \notin FilterModes
      BY <3>3, <3>4 DEF Shrinking, Alike
    <3>6. ASSUME stack[d].own = 0
          PROVE  /\ stack[d].mode \in BackModes \cup {"descend"} => stack[d].tmp \in Nodes
                 /\ stack[d].mode \in EntryModes /\ stack[d].tmp \in Nodes =>
                      Size(heap', stack[d].tmp) <= stack[d].n
                 /\ stack[d].mode \in EntryModes /\ stack'[d].rl =>
                      stack[d].tmp \in Nodes /\ Size(heap', stack[d].tmp) < stack[d].n
      <4>1. /\ stack[d].mode \in BackModes \cup {"descend"} => stack[d].tmp \in Nodes
            /\ stack[d].mode \in EntryModes /\ stack[d].tmp \in Nodes =>
                 Size(heap, stack[d].tmp) <= stack[d].n
            /\ stack[d].mode \in EntryModes /\ stack[d].rl =>
                 stack[d].tmp \in Nodes /\ Size(heap, stack[d].tmp) < stack[d].n
        BY <1>2, <3>4, <3>6 DEF Shrinking
      <4>2. CASE cond /\ d = Depth - 1
        BY <2>6, <2>8, <3>2, <3>6, <4>1, <4>2
      <4>3. CASE ~(cond /\ d = Depth - 1)
        BY <2>6, <3>2, <3>3, <4>1, <4>3
      <4> QED
        BY <4>2, <4>3
    <3> QED
      BY <3>3, <3>5, <3>6 DEF Shrinking, Alike
  <2>10. ASSUME NEW d \in 1..(Depth - 2)
         PROVE  Placed(call, heap', stack'[d], stack'[d + 1])
    <3>1. d \in 1..(Depth - 1) /\ d + 1 \in 1..(Depth - 1) /\ d \in 1..Depth /\ d + 1 \in 1..Depth
      BY <1>1
    <3>2. Alike(stack'[d], stack[d]) /\ Alike(stack'[d + 1], stack[d + 1])
      BY <2>4, <2>5, <3>1
    <3>3. Placed(call, heap, stack[d], stack[d + 1])
      BY <1>1, <3>1
    <3>4. ~Going(call, stack'[d + 1])
      BY <2>7, <3>1, <3>2 DEF Alike, Going, WaitingModes, SubpathModes
    <3> QED
      BY <3>2, <3>3, <3>4 DEF Alike, Placed, AtChild
  <2>11. Depth' - 1 = Depth - 2
    BY <1>1, <2>5
  <2>12. RestartOK'
    BY <1>2, <2>5, <2>9, <2>10, <2>11 DEF RestartOK
  <2> QED
    BY <2>12 DEF RestartInv
<1> QED
  BY <1>6, <1>7, <1>8

--------------------------------------------------------------------------------
(***************************************************************************)
(* The actions.                                                            *)
(***************************************************************************)

\* In the modes of neither a loop nor a walk little is said of a frame.
LEMMA ElsewhereShrinks ==
  ASSUME NEW c, NEW h, NEW f,
         \/ f.mode \in {"inst", "scan", "skip", "subpath", "union", "member"}
         \/ f.mode \in FilterModes /\ c.op \notin CreateOps
  PROVE  Shrinking(c, h, f)
  BY DEF Shrinking, EntryModes, BackModes, FilterModes

LEMMA ElsewhereFollows ==
  ASSUME NEW f, f.own = Top.own, f.inctx = Top.inctx,
         f.mode \notin {"inst", "skip", "subpath"}
  PROVE  Follows(f)
  BY DEF Follows, AtChild, Going

\* A frame that is no loop over entries has no callee of that kind, and a
\* sub-path's frame is not the operation's.
LEMMA ElsewherePlaced ==
  ASSUME NEW c, NEW h, NEW f, NEW g, f.mode \notin BackModes \/ (g.own > 0 /\ g.own \in Nat)
  PROVE  Placed(c, h, f, g)
  BY DEF Placed

\* The frame that a loop over entries is, once it has started.
LEMMA LoopShrinks ==
  ASSUME Restarting, NEW f \in Frame, NEW g \in Frame, g.tmp = f.tmp, g.own = f.own,
         Shrinking(call, heap, f), f.mode \in EntryModes,
         g.mode \in EntryModes, g.mode \in BackModes \cup {"descend"} => f.tmp \in Nodes,
         g.n = f.n, g.rl = f.rl \/ g.rl = FALSE
  PROVE  Shrinking(call, heap, g)
  BY DEF Shrinking, EntryModes, BackModes, FilterModes

LEMMA StartShrinks ==
  ASSUME Restarting, NEW f \in Frame, NEW loop,
         \/ loop \in {"all", "range", "dot"}
         \/ loop = "filter" /\ call.op \notin CreateOps
         \/ loop = "union"
  PROVE  Shrinking(call, heap, Start(f, loop))
<1> DEFINE g == Start(f, loop)
<1>1. /\ g.mode = loop /\ g.rl = FALSE /\ g.tmp = f.tmp
      /\ f.tmp \in Nodes => g.n = Size(heap, f.tmp)
  BY StartFields
<1>2. \A n \in Nodes : Size(heap, n) \in Nat
  BY RestartingTop, KidsType
<1> HIDE DEF g
<1>3. Shrinking(call, heap, g)
  BY <1>1, <1>2 DEF Shrinking, EntryModes, BackModes, FilterModes
<1> QED
  BY <1>3 DEF g

\* A loop calls the rest of the path on an entry.
LEMMA VisitRestarts ==
  ASSUME Restarting, call' = call, heap' = heap, NEW f \in Frame, f.own = Top.own,
         f.inctx = Top.inctx, Shrinking(call, heap, f), f.mode \in {"all", "range", "dot"},
         More(f), Element(f) # BAD, NEW pc \in Nat,
         NEW mode \in {"all_back", "range_back", "dot_back"}, Visit(f, mode, pc)
  PROVE  RestartInv'
<1> DEFINE ci == CurrentInfo(f)
           el == Element(f)
           g  == [f EXCEPT !.mode = mode, !.ci = ci, !.rl = FALSE, !.el = el]
           callee == LoopChild(f, el, pc, ci)
<1>1. el \in ValueSet /\ ci \in ChildInfo /\ f.tmp \in Nodes
  BY ElementType DEF Restarting
<1>2. f.tmp \in ValueSet /\ f.own \in Nat
  BY FrameFields
<1>3. call.op = "remove" /\ NeedForeachRedo(be, heap, f.tmp) => Has(heap, f.tmp, ci)
  BY ElementIsThere DEF Restarting
<1>4. Enter(g, callee)
  BY DEF Visit
<1> HIDE DEF ci, el
<1>5. g \in Frame
  BY <1>1, Zenon DEF Frame, WaitingModes
<1>6. /\ g.mode = mode /\ g.tmp = f.tmp /\ g.own = f.own /\ g.inctx = f.inctx
      /\ g.n = f.n /\ g.rl = FALSE
  BY DEF Frame
<1>7. callee \in Frame /\ callee.ctx = f.tmp /\ callee.inctx = f.tmp /\ callee.ci = ci
      /\ callee.mode = "inst"
  <2>1. callee \in Frame
    BY <1>1, <1>2, NewFrameType DEF LoopChild
  <2>2. callee.ctx = f.tmp /\ callee.inctx = f.tmp /\ callee.ci = ci /\ callee.mode = "inst"
    BY DEF LoopChild, NewFrame
  <2> QED
    BY <2>1, <2>2
<1> HIDE DEF g, callee
<1>8. Shrinking(call, heap, g)
  BY <1>1, <1>5, <1>6, LoopShrinks DEF EntryModes, BackModes
<1>9. Follows(g)
  BY <1>6, ElsewhereFollows
<1>10. Shrinking(call, heap, callee)
  BY <1>7, ElsewhereShrinks
<1>11. Placed(call, heap, g, callee)
  BY <1>3, <1>6, <1>7 DEF Placed, AtChild, be
<1> QED
  BY <1>4, <1>5, <1>7, <1>8, <1>9, <1>10, <1>11, EnterRestarts

\* A loop is over.
LEMMA OutRestarts ==
  ASSUME Restarting, call' = call, heap' = heap, NEW f \in Frame, Out(f)
  PROVE  RestartInv'
<1>1. f.pc \in Nat
  BY FrameFields
<1>2. \/ LeaveAt(f.pc, f.pc, None)
      \/ Leave(Count(IF call.emptyArray \/ f.nb > 0 THEN 1 ELSE 0))
      \/ Leave(Count(f.nb))
  BY DEF Out
<1> QED
  BY <1>1, <1>2, LeaveRestarts

\* What a loop does with the result of its body.
LEMMA AfterVisitRestarts ==
  ASSUME Restarting, call' = call, heap' = heap, NEW macro, NEW loop, NEW next,
         \/ /\ Top.mode \in BackModes
            /\ loop \in {"all", "range", "dot"} /\ next \in {"all", "range", "dot", "descend"}
         \/ loop = "union" /\ next = "member"
         \/ loop = "filter" /\ next = "filter" /\ call.op \notin CreateOps,
         AfterVisit(macro, loop, next)
  PROVE  RestartInv'
<1> DEFINE nb  == Counted(Top, ret)
           end == IF macro = "RANGE" /\ Op(Top) = "remove" THEN Top.end - 1 ELSE Top.end
           f   == [Top EXCEPT !.nb = nb, !.end = end]
           v   == Verdict(Top, ret, macro)
<1>1. Top \in Frame /\ ret \in Result /\ Shrinking(call, heap, Top)
  BY RestartingTop DEF Restarting, IInv, TypeOK
<1>2. Top.pc \in Nat /\ Top.ow \in Nat /\ Top.end \in Int
  BY <1>1, FrameFields
<1>3. nb \in Int /\ end \in Int
  BY <1>1, <1>2, CountedType
<1>4. \/ LeaveAt(f.pc, IF macro = "FILTER" THEN f.ow ELSE f.pc, ret)
      \/ Go(Start(f, loop))
      \/ Go(NextEntry(f, loop)) /\ next = loop
      \/ Go([f EXCEPT !.mode = next])
  BY DEF AfterVisit
<1> HIDE DEF nb, end, v
<1>5. f \in Frame
  BY <1>1, <1>3, Zenon DEF Frame
<1>6. /\ f.pc = Top.pc /\ f.ow = Top.ow /\ f.tmp = Top.tmp /\ f.own = Top.own
      /\ f.inctx = Top.inctx /\ f.n = Top.n /\ f.rl = Top.rl /\ f.mode = Top.mode
  BY <1>1 DEF Frame
<1> HIDE DEF f
<1>7. ASSUME NEW g \in Frame, Go(g), g.mode \in {loop, next}, g.tmp = Top.tmp, g.own = Top.own,
             g.inctx = Top.inctx, g.n = Top.n, g.rl = Top.rl
      PROVE  RestartInv'
  <2>1. CASE Top.mode \in BackModes /\ g.mode \in {"all", "range", "dot", "descend"}
    <3>1. call.op = "remove" /\ Top.own = 0 => Top.tmp \in Nodes
      BY <1>1, <2>1 DEF Shrinking
    <3>2. Shrinking(call, heap, g)
      BY <1>1, <1>7, <2>1, <3>1 DEF Shrinking, EntryModes, BackModes, FilterModes
    <3>3. Follows(g)
      BY <1>7, <2>1, ElsewhereFollows
    <3> QED
      BY <1>7, <3>2, <3>3, GoRestarts
  <2>2. CASE g.mode \in {"union", "member"} \/ (g.mode = "filter" /\ call.op \notin CreateOps)
    <3>1. Shrinking(call, heap, g)
      BY <2>2, ElsewhereShrinks DEF FilterModes
    <3>2. Follows(g)
      BY <1>7, <2>2, ElsewhereFollows
    <3> QED
      BY <1>7, <3>1, <3>2, GoRestarts
  <2> QED
    BY <1>7, <2>1, <2>2
<1>8. CASE LeaveAt(f.pc, IF macro = "FILTER" THEN f.ow ELSE f.pc, ret)
  <2>1. (IF macro = "FILTER" THEN f.ow ELSE f.pc) \in Nat
    BY <1>2, <1>6
  <2> QED
    BY <1>8, <2>1, LeaveRestarts
<1>9. CASE Go(Start(f, loop))
  <2>1. Start(f, loop).mode = loop /\ Start(f, loop).own = f.own /\ Start(f, loop).inctx = f.inctx
    BY <1>5, StartFields
  <2>2. Shrinking(call, heap, Start(f, loop))
    BY <1>5, StartShrinks
  <2>3. Follows(Start(f, loop))
    BY <1>6, <2>1, ElsewhereFollows
  <2> QED
    BY <1>9, <2>2, <2>3, GoRestarts
<1>10. CASE Go(NextEntry(f, loop)) /\ next = loop
  <2> DEFINE g == NextEntry(f, loop)
  <2>1. /\ g.mode = loop /\ g.tmp = f.tmp /\ g.own = f.own /\ g.inctx = f.inctx /\ g.n = f.n
        /\ g.rl = f.rl
    BY <1>5, NextEntryFields
  <2>2. loop \in Modes
    BY ModeNames
  <2>3. g \in Frame
    BY <1>5, <2>2, NextEntryType
  <2> HIDE DEF g
  <2> QED
    BY <1>6, <1>7, <1>10, <2>1, <2>3 DEF g
<1>11. CASE Go([f EXCEPT !.mode = next])
  <2> DEFINE g == [f EXCEPT !.mode = next]
  <2>1. /\ g.mode = next /\ g.tmp = f.tmp /\ g.own = f.own /\ g.inctx = f.inctx /\ g.n = f.n
        /\ g.rl = f.rl
    BY <1>5 DEF Frame
  <2>2. next \in Modes
    BY ModeNames
  <2>3. g \in Frame
    BY <1>5, <2>2, Zenon DEF Frame, Modes
  <2> HIDE DEF g
  <2> QED
    BY <1>6, <1>7, <1>11, <2>1, <2>3 DEF g
<1> QED
  BY <1>4, <1>8, <1>9, <1>10, <1>11

\* A getter that finds something is at an entry of the container it was at.
LEMMA GetterRestarts ==
  ASSUME Restarting, call' = call, call.op = "remove" => heap' = heap,
         NEW kind \in Kinds, NEW ci \in ChildInfo, NEW at \in Nat,
         Getter(Top, kind, ci, at)
  PROVE  RestartInv'
<1> DEFINE pre == PreGet(Top, kind, ci)
           v   == Refetch(pre.h, pre.f.tmp, ci)
           g   == [pre.f EXCEPT !.tmp = v, !.pc = at + 1, !.mode = "inst"]
           scan  == [g EXCEPT !.mode = "scan"]
           noted == [g EXCEPT !.ci = ci]
           moved == IF Top.tmp # NULL THEN [Top EXCEPT !.ctx = Top.tmp] ELSE Top
<1>1. Top \in Frame /\ heap \in Heap /\ NULL \notin Nodes /\ Top.tmp \in ValueSet
  BY RestartingTop, FrameFields
<1>2. CASE Fail /\ UNCHANGED <<heap, acc>>
  BY <1>2, LeaveRestarts DEF Fail
<1>3. CASE \/ v = NULL /\ Op(Top) \notin CreateOps /\ Go(scan)
           \/ v # NULL /\ Op(Top) = "remove" /\ Go(noted)
           \/ ~(v # NULL /\ Op(Top) = "remove") /\ ~(v = NULL /\ Op(Top) \notin CreateOps) /\ Go(g)
  <2>1. pre.f \in Frame /\ pre.f.own = Top.own
    BY <1>1, PreGetType DEF Attempt, Restarting
  <2>2. ASSUME call.op = "remove", Top.own = 0
        PROVE  /\ pre.f.inctx = Top.inctx
               /\ v # NULL => pre.f.ctx \in Nodes /\ Has(heap, pre.f.ctx, ci)
    <3>1. pre.f = moved /\ pre.h = heap
      BY <2>2 DEF PreGet, Op, CreateOps
    <3>2. moved.inctx = Top.inctx /\ moved.tmp = Top.tmp
          /\ (Top.tmp # NULL => moved.ctx = Top.tmp)
      BY <1>1 DEF Frame
    <3>3. ASSUME v # NULL
          PROVE  Top.tmp \in Nodes /\ Has(heap, Top.tmp, ci)
      <4>1. v = Refetch(heap, Top.tmp, ci)
        BY <3>1, <3>2
      <4> QED
        BY <1>1, <3>3, <4>1, FoundIsThere
    <3> HIDE DEF moved, pre, v
    <3> QED
      BY <1>1, <3>1, <3>2, <3>3
  <2> HIDE DEF pre, v
  <2>3. /\ g.mode = "inst" /\ g.own = Top.own /\ g.inctx = pre.f.inctx
        /\ scan.mode = "scan" /\ scan.own = Top.own /\ scan.inctx = pre.f.inctx
        /\ noted.mode = "inst" /\ noted.own = Top.own /\ noted.inctx = pre.f.inctx
        /\ noted.ctx = pre.f.ctx /\ noted.ci = ci
    BY <2>1 DEF Frame
  <2> HIDE DEF g, scan, noted
  <2>4. CASE v = NULL /\ Op(Top) \notin CreateOps /\ Go(scan)
    <3>1. Follows(scan)
      BY <2>2, <2>3 DEF Follows, AtChild, Going
    <3>2. Shrinking(call, heap, scan)
      BY <2>3, ElsewhereShrinks
    <3> QED
      BY <2>4, <3>1, <3>2, GoRestarts
  <2>5. CASE v # NULL /\ Op(Top) = "remove" /\ Go(noted)
    <3>1. Follows(noted)
      BY <2>2, <2>3, <2>5 DEF Follows, AtChild
    <3>2. Shrinking(call, heap, noted)
      BY <2>3, ElsewhereShrinks
    <3> QED
      BY <2>5, <3>1, <3>2, GoRestarts
  <2>6. CASE ~(v # NULL /\ Op(Top) = "remove") /\ ~(v = NULL /\ Op(Top) \notin CreateOps) /\ Go(g)
    <3>1. call.op = "remove" => Top.own # 0
      BY <2>6 DEF Op, CreateOps
    <3>2. Follows(g)
      BY <2>3, <3>1 DEF Follows
    <3>3. Shrinking(call, heap, g)
      BY <2>3, ElsewhereShrinks
    <3> QED
      BY <2>6, <3>2, <3>3, GoRestarts
  <2> QED
    BY <1>3, <2>4, <2>5, <2>6
<1> QED
  BY <1>2, <1>3 DEF Getter

\* The start of a loop.
LEMMA PreLoopRestarts ==
  ASSUME Restarting, call.op = "remove" => heap' = heap, NEW kind \in Kinds, NEW loop,
         loop = "all" \/ (loop = "filter" /\ call.op \notin CreateOps),
         PreLoop(Top, kind, loop)
  PROVE  RestartInv'
<1> DEFINE e == IF Op(Top) = "update_or_create" THEN CheckExist(Top, kind)
                ELSE [ok |-> TRUE, h |-> heap, f |-> Top]
<1>1. Top \in Frame
  BY RestartingTop
<1>2. e.f \in Frame /\ e.f.own = Top.own
  BY <1>1, CheckExistType DEF Restarting, Attempt
<1>3. call.op = "remove" => e.f = Top
  BY DEF Op
<1>4. call' = call /\ (Fail \/ Go(Start(e.f, loop)))
  BY DEF PreLoop
<1> HIDE DEF e
<1>5. CASE Fail
  BY <1>4, <1>5, LeaveRestarts DEF Fail
<1>6. CASE Go(Start(e.f, loop))
  <2>1. Start(e.f, loop).mode = loop /\ Start(e.f, loop).own = e.f.own
        /\ Start(e.f, loop).inctx = e.f.inctx
    BY <1>2, StartFields
  <2>2. Shrinking(call, heap, Start(e.f, loop))
    BY <1>2, StartShrinks
  <2>3. Follows(Start(e.f, loop))
    BY <1>2, <1>3, <2>1 DEF Follows, AtChild, Going
  <2> QED
    BY <1>4, <1>6, <2>2, <2>3, GoRestarts
<1> QED
  BY <1>4, <1>5, <1>6

\* The end of the path, or an OR, where nothing is removed.
LEMMA ReturnRestarts ==
  ASSUME Restarting, Next, Return, ~ReturnRemove
  PROVE  RestartInv'
<1>1. call' = call /\ (call.op = "remove" => heap' = heap) /\ Top \in Frame /\ Top.pc \in Nat
  BY RemoveQuiet, RestartingTop, FrameFields
     DEF Return, ReturnFound, ReturnUpdate, ReturnCallback
<1>2. CASE ReturnFound
  BY <1>1, <1>2, LeaveRestarts DEF ReturnFound
<1>3. CASE ReturnCallback
  <2> DEFINE cond == Op(Top) = "update_or_create_callback" /\ Top.tmp = Top.val
  <2>1. /\ call.op # "remove"
        /\ LeaveFrom(Reloop(cond), Count(1)) \/ LeaveFrom(Reloop(cond), Count(-1))
    BY <1>3 DEF ReturnCallback, Op, CallbackOps
  <2>2. cond \in BOOLEAN
    OBVIOUS
  <2> HIDE DEF cond
  <2> QED
    BY <1>1, <2>1, <2>2, LeaveRestarts
<1>4. CASE ReturnUpdate
  <2>1. /\ call.op # "remove"
        /\ Leave(None) \/ LeaveFrom(Reloop(TRUE), Count(1)) \/ LeaveFrom(Reloop(TRUE), Count(-1))
    BY <1>4 DEF ReturnUpdate, Op
  <2>2. \E r : Leave(r) \/ \E cond \in BOOLEAN : LeaveFrom(Reloop(cond), r)
    <3>1. TRUE \in BOOLEAN
      OBVIOUS
    <3> QED
      BY <2>1, <3>1, Zenon
  <2> QED
    BY <1>1, <2>1, <2>2, LeaveRestarts
<1> QED
  BY <1>2, <1>3, <1>4 DEF Return

\* ROOT and SWITCH_ROOT: there is no ctx.
LEMMA RootsRestart ==
  ASSUME Restarting, Next, Root \/ SwitchRoot
  PROVE  RestartInv'
<1>1. /\ Top \in Frame /\ call' = call /\ (call.op = "remove" => heap' = heap)
      /\ Top.mode = "inst"
  BY RestartingTop DEF Root, SwitchRoot, Op, CreateOps, At_, In
<1>2. \/ Leave(Count(1))
      \/ Fail
      \/ \E root : Go(AtRoot(Top, root))
  BY DEF Root, SwitchRoot
<1>3. ASSUME NEW root, Go(AtRoot(Top, root))
      PROVE  RestartInv'
  <2> DEFINE f == AtRoot(Top, root)
  <2>1. f.ctx = NULL /\ f.mode = "inst" /\ f.own = Top.own /\ f.inctx = Top.inctx
    BY <1>1 DEF AtRoot, Frame
  <2> HIDE DEF f
  <2>2. Follows(f)
    BY <2>1 DEF Follows, AtChild
  <2>3. Shrinking(call, heap, f)
    BY <2>1, ElsewhereShrinks
  <2> QED
    BY <1>1, <1>3, <2>2, <2>3, GoRestarts DEF f
<1> QED
  BY <1>1, <1>2, <1>3, LeaveRestarts DEF Fail

\* The frame goes on with the same value in the same place.
LEMMA WalkRestarts ==
  ASSUME Restarting, call' = call, call.op = "remove" => heap' = heap, NEW f, Go(f),
         f.own = Top.own, f.inctx = Top.inctx, f.ctx = Top.ctx, f.ci = Top.ci,
         f.mode \in {"inst", "skip", "subpath"}, Going(call, Top)
  PROVE  RestartInv'
<1>1. Follows(f)
  BY DEF Follows, AtChild
<1>2. Shrinking(call, heap, f)
  BY ElsewhereShrinks
<1> QED
  BY <1>1, <1>2, GoRestarts

\* Getters, sub-paths, type checks.
LEMMA GettingRestarts ==
  ASSUME Restarting, Next, Getting \/ TypeCheck \/ Unimplemented
  PROVE  RestartInv'
<1>1. /\ Top \in Frame /\ heap \in Heap /\ call' = call
      /\ call.op = "remove" => heap' = heap
  <2>1. ~ReturnRemove \/ Unimplemented
    BY DEF Getting, GetObj, GetArray, ScanForOr, GetSubpath, AfterSubpath, TypeCheck,
           ReturnRemove, At_, In, Endish
  <2> QED
    BY <2>1, RestartingTop, RemoveQuiet
       DEF Getting, GetObj, GetArray, ScanForOr, GetSubpath, AfterSubpath, TypeCheck, Unimplemented
<1>2. /\ Top.pc \in Nat /\ Top.sent \in Nat /\ Top.own \in Nat
      /\ Here.key \in Text /\ Here.num \in Nat /\ Here.num \in Int
  BY <1>1, FrameFields, RunTypes, CodeType DEF Here, Restarting
<1>3. "obj" \in Kinds /\ "arr" \in Kinds
  BY DEF Kinds
<1>4. CASE GetObj
  <2>1. Getter(Top, "obj", KeyInfo(Here.key), Top.pc)
    BY <1>4 DEF GetObj
  <2> QED
    BY <1>1, <1>2, <1>3, <2>1, InfoType, GetterRestarts
<1>5. CASE GetArray
  <2>1. Getter(Top, "arr", IdxInfo(Here.num), Top.pc)
    BY <1>5 DEF GetArray
  <2> QED
    BY <1>1, <1>2, <1>3, <2>1, InfoType, GetterRestarts
<1>6. CASE ScanForOr
  <2> DEFINE f == [Top EXCEPT !.mode = "inst", !.pc = Top.pc + 1]
             g == [Top EXCEPT !.pc = NextInst(prog, Top.pc)]
  <2>1. /\ heap' = heap /\ Top.mode = "scan"
        /\ Leave(None) \/ (Here.inst = "OR" /\ Go(f)) \/ Crash \/ Go(g)
    BY <1>6 DEF ScanForOr, Data, In
  <2>2. /\ f.mode = "inst" /\ f.own = Top.own /\ f.inctx = Top.inctx /\ f.pc = Top.pc + 1
        /\ g.mode = "scan" /\ g.own = Top.own /\ g.inctx = Top.inctx
    BY <1>1, <2>1 DEF Frame
  <2> HIDE DEF f, g
  <2>3. CASE Here.inst = "OR" /\ Go(f)
    <3>1. Top.pc \in DOMAIN prog /\ prog[Top.pc].inst = "OR"
      BY <2>3 DEF Here, Code, CellAt, Outside, Cell
    <3>2. CellAt(call.prog, f.pc).inst \in RootOps
      BY <2>2, <3>1 DEF Restarting, RestartHyp, OrThenRoot, prog
    <3>3. Follows(f)
      BY <2>2, <3>2 DEF Follows, AtChild, Going
    <3>4. Shrinking(call, heap, f)
      BY <2>2, ElsewhereShrinks
    <3> QED
      BY <1>1, <2>3, <3>3, <3>4, GoRestarts
  <2>4. CASE Go(g)
    <3>1. Follows(g)
      BY <2>2, ElsewhereFollows
    <3>2. Shrinking(call, heap, g)
      BY <2>2, ElsewhereShrinks
    <3> QED
      BY <1>1, <2>4, <3>1, <3>2, GoRestarts
  <2> QED
    BY <1>1, <2>1, <2>3, <2>4, LeaveRestarts, CrashRestarts
<1>7. CASE GetSubpath
  <2> DEFINE f == [Top EXCEPT !.mode = "subpath", !.sent = Top.pc]
             callee == NewFrame(Top.pc + 1, call.root, NULL, NoInfo, Depth)
  <2>1. /\ Enter(f, callee) /\ Top.mode = "inst" /\ Here.inst = "GET_SUBPATH"
        /\ heap' = heap
    BY <1>7 DEF GetSubpath, Data, At_, In
  <2>2. /\ f.mode = "subpath" /\ f.ctx = Top.ctx /\ f.ci = Top.ci
        /\ f.own = Top.own /\ f.inctx = Top.inctx
    BY <1>1 DEF Frame
  <2>3. f \in Frame
    BY <1>1, <1>2, Zenon DEF Frame, WaitingModes, SubpathModes
  <2>4. Depth \in Nat \ {0} /\ callee.own = Depth /\ callee.mode = "inst"
    BY TopType DEF Restarting, NewFrame
  <2>5. callee \in Frame
    <3>1. Top.pc + 1 \in Nat
      BY <1>2
    <3> QED
      BY <2>4, <3>1, RunTypes, InfoType, NewFrameType DEF Restarting
  <2> HIDE DEF f, callee
  <2>6. Going(call, Top)
    BY <2>1 DEF Going, Here, Code, prog, RootOps
  <2>7. Follows(f)
    BY <2>2, <2>6 DEF Follows, AtChild
  <2>8. Shrinking(call, heap, f) /\ Shrinking(call, heap, callee)
    BY <2>2, <2>4, ElsewhereShrinks
  <2>9. Placed(call, heap, f, callee)
    BY <2>4, ElsewherePlaced
  <2> QED
    BY <1>1, <2>1, <2>3, <2>5, <2>7, <2>8, <2>9, EnterRestarts
<1>8. CASE AfterSubpath
  <2>1. \/ /\ IsNum(be, heap, ret.val)
           /\ Getter(Top, "arr", IdxInfo(heap[ret.val].num), Top.sent)
        \/ /\ IsStr(heap, ret.val)
           /\ Getter(Top, "obj", KeyInfo(heap[ret.val].str), Top.sent)
        \/ Fail /\ UNCHANGED <<heap, acc>>
    BY <1>8 DEF AfterSubpath
  <2>2. ASSUME ret.val \in Nodes
        PROVE  /\ IdxInfo(heap[ret.val].num) \in ChildInfo
               /\ KeyInfo(heap[ret.val].str) \in ChildInfo
    <3>1. heap[ret.val].num \in Int /\ heap[ret.val].str \in Text
      BY <1>1, <2>2 DEF Heap, Node
    <3> QED
      BY <3>1, InfoType
  <2>3. IsNum(be, heap, ret.val) \/ IsStr(heap, ret.val) => ret.val \in Nodes
    BY DEF IsNum, IsBool, IsStr, IsKind
  <2> QED
    BY <1>1, <1>2, <1>3, <2>1, <2>2, <2>3, GetterRestarts, LeaveRestarts DEF Fail
<1>9. CASE TypeCheck
  <2> DEFINE f == [Top EXCEPT !.pc = Top.pc + 1]
  <2>1. /\ Top.mode = "inst" /\ Here.inst = "TYPECHECK" /\ (Go(f) \/ Leave(None))
    BY <1>9 DEF TypeCheck, At_, In
  <2>2. /\ f.mode = Top.mode /\ f.ctx = Top.ctx /\ f.ci = Top.ci
        /\ f.own = Top.own /\ f.inctx = Top.inctx
    BY <1>1 DEF Frame
  <2> HIDE DEF f
  <2>3. Going(call, Top)
    BY <2>1 DEF Going, Here, Code, prog, RootOps
  <2> QED
    BY <1>1, <2>1, <2>2, <2>3, WalkRestarts, LeaveRestarts
<1>10. CASE Unimplemented
  BY <1>1, <1>10, LeaveRestarts DEF Unimplemented, Fail
<1> QED
  BY <1>4, <1>5, <1>6, <1>7, <1>8, <1>9, <1>10 DEF Getting

\* GET_ALL and RANGE.
LEMMA AllAndRangeRestart ==
  ASSUME Restarting, Next, \/ GetAll \/ AllElement \/ AllBack
                           \/ GetRange \/ RangeElement \/ RangeBack
  PROVE  RestartInv'
<1>1. /\ Top \in Frame /\ call' = call /\ (call.op = "remove" => heap' = heap)
      /\ Top.pc \in Nat /\ Top.pc + 1 \in Nat /\ Top.i \in Nat /\ Top.ow \in Nat
      /\ Shrinking(call, heap, Top)
  <2>1. ~ReturnRemove
    BY DEF GetAll, AllElement, AllBack, GetRange, RangeElement, RangeBack, ReturnRemove,
           At_, In, Endish
  <2> QED
    BY <2>1, RestartingTop, RemoveQuiet, FrameFields
       DEF GetAll, AllElement, AllBack, GetRange, RangeElement, RangeBack, PreLoop
<1>2. CASE GetAll
  <2>1. GuessContainer(Top.pc) \in Kinds
    BY DEF GuessContainer, Kinds
  <2> QED
    BY <1>1, <1>2, <2>1, PreLoopRestarts DEF GetAll
<1>3. CASE AllElement
  <2>1. /\ heap' = heap /\ Top.mode = "all"
        /\ \/ Out(Top)
           \/ More(Top) /\ Element(Top) # BAD /\ Visit(Top, "all_back", Top.pc + 1)
    BY <1>3 DEF AllElement, In
  <2> QED
    BY <1>1, <2>1, OutRestarts, VisitRestarts
<1>4. CASE AllBack
  BY <1>1, <1>4, AfterVisitRestarts DEF AllBack, Data, In, BackModes
<1>5. CASE GetRange
  <2> DEFINE end == IF Code(Top.pc + 2).num = 0 THEN Unbounded ELSE Code(Top.pc + 2).num
             s == Start(Top, "range")
             f == [s EXCEPT !.pc = Top.pc + 3, !.end = end, !.ow = Code(Top.pc + 1).num]
  <2>1. heap' = heap /\ (Leave(None) \/ Go(f))
    BY <1>5 DEF GetRange, Data
  <2>2. /\ s \in Frame /\ s.mode = "range" /\ s.own = Top.own /\ s.inctx = Top.inctx
        /\ Shrinking(call, heap, s)
    BY <1>1, ModeNames, StartType, StartFields, StartShrinks DEF Restarting
  <2> HIDE DEF end, s
  <2>3. /\ f.mode = "range" /\ f.own = Top.own /\ f.inctx = Top.inctx
        /\ f.tmp = s.tmp /\ f.n = s.n /\ f.rl = s.rl
    BY <2>2 DEF Frame
  <2> HIDE DEF f
  <2>4. Shrinking(call, heap, f)
    BY <2>2, <2>3 DEF Shrinking
  <2>5. Follows(f)
    BY <2>3, ElsewhereFollows
  <2> QED
    BY <1>1, <2>1, <2>4, <2>5, LeaveRestarts, GoRestarts
<1>6. CASE RangeElement
  <2> DEFINE i == IF Top.i < Top.ow THEN Top.ow ELSE Top.i
             f == [Top EXCEPT !.i = i]
  <2>1. /\ heap' = heap /\ Top.mode = "range"
        /\ Out(f) \/ Crash \/ (More(f) /\ Element(f) # BAD /\ Visit(f, "range_back", f.pc))
    BY <1>6 DEF RangeElement, Data, In
  <2>2. i \in Nat
    BY <1>1
  <2> HIDE DEF i
  <2>3. f \in Frame
    BY <1>1, <2>2, Zenon DEF Frame
  <2>4. f.pc \in Nat
    BY <2>3, FrameFields
  <2>5. /\ f.mode = "range" /\ f.own = Top.own /\ f.inctx = Top.inctx
        /\ f.tmp = Top.tmp /\ f.n = Top.n /\ f.rl = Top.rl
    BY <1>1, <2>1 DEF Frame
  <2> HIDE DEF f
  <2>6. Shrinking(call, heap, f)
    BY <1>1, <2>1, <2>5 DEF Shrinking
  <2> QED
    BY <1>1, <2>1, <2>3, <2>4, <2>5, <2>6, OutRestarts, CrashRestarts, VisitRestarts
<1>7. CASE RangeBack
  BY <1>1, <1>7, AfterVisitRestarts DEF RangeBack, Data, In, BackModes
<1> QED
  BY <1>2, <1>3, <1>4, <1>5, <1>6, <1>7

\* FIND_ALL and csonpath_<op>_dotdot.
LEMMA DescentRestarts ==
  ASSUME Restarting, Next, FindAll \/ DotElement \/ DotBack \/ Descend \/ DotReturn
  PROVE  RestartInv'
<1>1. /\ Top \in Frame /\ heap \in Heap /\ heap' = heap /\ call' = call
      /\ Top.pc \in Nat /\ Top.pc + 1 \in Nat /\ Top.ci \in ChildInfo
      /\ Shrinking(call, heap, Top)
  BY RestartingTop, FrameFields DEF FindAll, DotElement, DotBack, Descend, DotReturn, Data
<1>2. CASE FindAll
  <2> DEFINE f == [Top EXCEPT !.fn = "dotdot"]
  <2>1. Go(Start(f, "dot")) \/ Leave(None)
    BY <1>2 DEF FindAll
  <2>2. f \in Frame
    BY <1>1, Zenon DEF Frame
  <2>3. f.own = Top.own /\ f.inctx = Top.inctx
    BY <1>1 DEF Frame
  <2> HIDE DEF f
  <2>4. /\ Start(f, "dot").mode = "dot" /\ Start(f, "dot").own = f.own
        /\ Start(f, "dot").inctx = f.inctx
    BY <2>2, StartFields
  <2>5. Shrinking(call, heap, Start(f, "dot"))
    BY <2>2, StartShrinks
  <2>6. Follows(Start(f, "dot"))
    BY <2>3, <2>4, ElsewhereFollows
  <2> QED
    BY <1>1, <2>1, <2>5, <2>6, LeaveRestarts, GoRestarts
<1>3. CASE DotElement
  <2> DEFINE ci == CurrentInfo(Top)
             el == Element(Top)
             f  == [Top EXCEPT !.ci = ci, !.rl = FALSE, !.el = el]
             g  == [f EXCEPT !.mode = "descend"]
  <2>1. /\ Top.mode = "dot"
        /\ \/ Out(Top)
           \/ Crash
           \/ More(Top) /\ el # BAD /\ Visit(Top, "dot_back", Top.pc + 1)
           \/ More(Top) /\ el # BAD /\ Go(g)
    BY <1>3 DEF DotElement, In
  <2>2. CASE More(Top) /\ el # BAD /\ Go(g)
    <3>1. el \in ValueSet /\ ci \in ChildInfo /\ Top.tmp \in Nodes
      BY <1>1, <2>2, ElementType DEF Restarting
    <3> HIDE DEF ci, el
    <3>2. f \in Frame
      BY <1>1, <3>1, Zenon DEF Frame
    <3>3. "descend" \in WaitingModes \cup ActiveModes
      BY DEF ActiveModes
    <3>4. g \in Frame
      <4> HIDE DEF f
      <4> QED
        BY <3>2, <3>3, Zenon DEF Frame
    <3>5. /\ g.mode = "descend" /\ g.own = Top.own /\ g.inctx = Top.inctx /\ g.tmp = Top.tmp
          /\ g.n = Top.n /\ g.rl = FALSE
      BY <1>1 DEF Frame
    <3> HIDE DEF g
    <3>6. Shrinking(call, heap, g)
      BY <1>1, <2>1, <3>1, <3>4, <3>5, LoopShrinks DEF EntryModes, BackModes
    <3>7. Follows(g)
      BY <3>5, ElsewhereFollows
    <3> QED
      BY <1>1, <2>2, <3>6, <3>7, GoRestarts
  <2>3. CASE More(Top) /\ el # BAD /\ Visit(Top, "dot_back", Top.pc + 1)
    BY <1>1, <2>1, <2>3, VisitRestarts
  <2> QED
    BY <1>1, <2>1, <2>2, <2>3, OutRestarts, CrashRestarts
<1>4. CASE DotBack
  BY <1>1, <1>4, AfterVisitRestarts DEF DotBack, In, BackModes
<1>5. CASE Descend
  <2> DEFINE el == IF Op(Top) \in CreateOps THEN Refetch(heap, Top.tmp, Top.ci) ELSE Top.el
             f  == [Top EXCEPT !.el = el]
             child == LoopChild(f, el, f.pc, f.ci)
             named == [child EXCEPT !.fn = "dotdot"]
             callee == Start(named, "dot")
             waiting == [f EXCEPT !.mode = "dot_return"]
  <2>1. Top.mode = "descend" /\ (Crash \/ Enter(waiting, callee) \/ Go(NextEntry(f, "dot")))
    BY <1>5 DEF Descend, In
  <2>2. el \in ValueSet
    BY <1>1, FrameFields, RefetchType
  <2> HIDE DEF el
  <2>3. f \in Frame
    BY <1>1, <2>2, Zenon DEF Frame
  <2>4. /\ f.mode = "descend" /\ f.own = Top.own /\ f.inctx = Top.inctx /\ f.tmp = Top.tmp
        /\ f.n = Top.n /\ f.rl = Top.rl
    BY <1>1, <2>1 DEF Frame
  <2> HIDE DEF f
  <2>5. child \in Frame /\ child.inctx = f.tmp
    <3>1. child \in Frame
      BY <2>2, <2>3, FrameFields, NewFrameType DEF LoopChild
    <3> QED
      BY <3>1 DEF LoopChild, NewFrame
  <2> HIDE DEF child
  <2>6. named \in Frame
    BY <2>5, Zenon DEF Frame
  <2>7. named.inctx = f.tmp
    BY <2>5 DEF Frame
  <2> HIDE DEF named
  <2>8. callee \in Frame /\ callee.mode = "dot" /\ callee.inctx = f.tmp
    BY <2>6, <2>7, ModeNames, StartType, StartFields DEF Restarting
  <2>9. Shrinking(call, heap, callee)
    BY <2>6, StartShrinks
  <2>10. waiting \in Frame
    BY <2>3, Zenon DEF Frame, WaitingModes
  <2>11. /\ waiting.mode = "dot_return" /\ waiting.own = Top.own /\ waiting.inctx = Top.inctx
         /\ waiting.tmp = f.tmp /\ waiting.n = Top.n /\ waiting.rl = Top.rl
    BY <2>3, <2>4 DEF Frame
  <2> HIDE DEF callee, waiting
  <2>12. Shrinking(call, heap, waiting)
    BY <1>1, <2>1, <2>4, <2>11 DEF Shrinking, EntryModes, BackModes, FilterModes
  <2>13. Follows(waiting)
    BY <2>11, ElsewhereFollows
  <2>14. Placed(call, heap, waiting, callee)
    BY <2>8, <2>11 DEF Placed, AtChild, Going
  <2>15. ASSUME Go(NextEntry(f, "dot"))
         PROVE  RestartInv'
    <3> DEFINE g == NextEntry(f, "dot")
    <3>1. /\ g.mode = "dot" /\ g.tmp = f.tmp /\ g.own = f.own /\ g.inctx = f.inctx
          /\ g.n = f.n /\ g.rl = f.rl
      BY <2>3, NextEntryFields
    <3> HIDE DEF g
    <3>2. Shrinking(call, heap, g)
      BY <1>1, <2>1, <2>4, <3>1 DEF Shrinking, EntryModes, BackModes, FilterModes
    <3>3. Follows(g)
      BY <2>4, <3>1, ElsewhereFollows
    <3> QED
      BY <1>1, <2>15, <3>2, <3>3, GoRestarts DEF g
  <2> QED
    BY <1>1, <2>1, <2>8, <2>9, <2>10, <2>12, <2>13, <2>14, <2>15, CrashRestarts, EnterRestarts
<1>6. CASE DotReturn
  BY <1>1, <1>6, AfterVisitRestarts DEF DotReturn, In, BackModes
<1> QED
  BY <1>2, <1>3, <1>4, <1>5, <1>6

\* A clause of a filter starts.
LEMMA StartClauseRestarts ==
  ASSUME Restarting, heap' = heap, call' = call, call.op \notin CreateOps, NEW el, NEW op,
         Go(StartClause(Top, el, op))
  PROVE  RestartInv'
<1> DEFINE f == StartClause(Top, el, op)
<1>1. Top \in Frame
  BY RestartingTop
<1>2. f.mode = "crawl" /\ f.own = Top.own /\ f.inctx = Top.inctx
  BY <1>1 DEF StartClause, Frame
<1> HIDE DEF f
<1>3. Shrinking(call, heap, f)
  BY <1>2, ElsewhereShrinks DEF FilterModes
<1>4. Follows(f)
  BY <1>2, ElsewhereFollows
<1> QED
  BY <1>3, <1>4, GoRestarts DEF f

\* The comparison is made.
LEMMA JudgeRestarts ==
  ASSUME Restarting, heap' = heap, call' = call, call.op \notin CreateOps,
         NEW ow \in Nat, NEW match, Judge(ow, match)
  PROVE  RestartInv'
<1> DEFINE f == [Top EXCEPT !.ow = ow, !.mode = "filter_back", !.rl = FALSE]
           callee == LoopChild(f, f.el, ow, IdxInfo(f.i))
<1>1. Top \in Frame
  BY RestartingTop
<1>2. \/ Go(NextEntry(Top, "filter"))
      \/ Go(StartClause(Top, Top.el, ow + 1))
      \/ Enter(f, callee)
  BY DEF Judge
<1>3. CASE Go(NextEntry(Top, "filter"))
  <2>1. /\ NextEntry(Top, "filter").mode = "filter" /\ NextEntry(Top, "filter").own = Top.own
        /\ NextEntry(Top, "filter").inctx = Top.inctx
    BY <1>1, NextEntryFields
  <2>2. Shrinking(call, heap, NextEntry(Top, "filter"))
    BY <2>1, ElsewhereShrinks DEF FilterModes
  <2>3. Follows(NextEntry(Top, "filter"))
    BY <2>1, ElsewhereFollows
  <2> QED
    BY <1>3, <2>2, <2>3, GoRestarts
<1>4. CASE Go(StartClause(Top, Top.el, ow + 1))
  BY <1>4, StartClauseRestarts
<1>5. CASE Enter(f, callee)
  <2>1. f \in Frame
    BY <1>1, Zenon DEF Frame, WaitingModes
  <2>2. f.own = Top.own /\ f.mode = "filter_back" /\ f.inctx = Top.inctx
    BY <1>1 DEF Frame
  <2> HIDE DEF f
  <2>3. f.tmp \in ValueSet /\ f.el \in ValueSet /\ f.own \in Nat /\ IdxInfo(f.i) \in ChildInfo
    BY <2>1, FrameFields, InfoType
  <2>4. callee \in Frame
    BY <2>3, NewFrameType DEF LoopChild
  <2>5. callee.mode = "inst"
    BY DEF LoopChild, NewFrame
  <2> HIDE DEF callee
  <2>6. Shrinking(call, heap, f) /\ Shrinking(call, heap, callee)
    BY <2>2, <2>5, ElsewhereShrinks DEF FilterModes
  <2>7. Follows(f)
    BY <2>2, ElsewhereFollows
  <2>8. Placed(call, heap, f, callee)
    BY <2>2, ElsewherePlaced DEF BackModes
  <2> QED
    BY <1>5, <2>1, <2>4, <2>6, <2>7, <2>8, EnterRestarts
<1> QED
  BY <1>2, <1>3, <1>4, <1>5

\* FILTER_KEY_*: the operation does not create.
LEMMA FilteringRestarts ==
  ASSUME Restarting, Next, Filtering
  PROVE  RestartInv'
<1>1. /\ Top \in Frame /\ heap \in Heap /\ call' = call
      /\ Top.pc \in Nat /\ Top.ow \in Nat /\ Top.sent \in Nat /\ Top.i \in Nat
      /\ Top.ow + 1 \in Nat /\ Top.ow + 2 \in Nat /\ Top.sent + 1 \in Nat
      /\ call.op = "remove" => heap' = heap
  <2>1. ~ReturnRemove
    BY DEF Filtering, Filter, FilterElement, Crawl, Match, AfterOperand, FilterBack,
           ReturnRemove, At_, In, Endish, FilterOps
  <2> QED
    BY <2>1, RestartingTop, FrameFields, RemoveQuiet
       DEF Filtering, Filter, FilterElement, Crawl, Match, AfterOperand, FilterBack, PreLoop
<1>2. call.op \notin CreateOps
  <2>1. CASE Top.mode \in FilterModes
    BY <2>1, RestartingTop DEF Shrinking
  <2>2. CASE At_(FilterOps)
    <3>1. Top.pc \in DOMAIN prog /\ prog[Top.pc].inst \in FilterOps
      BY <2>2 DEF At_, Here, Code, CellAt, Outside, Cell, FilterOps
    <3> QED
      BY <3>1 DEF Restarting, RestartHyp, FilterFree
  <2> QED
    BY <2>1, <2>2 DEF Filtering, Filter, FilterElement, Crawl, Match, AfterOperand, FilterBack,
                      In, FilterModes
<1>3. CASE Filter
  <2>1. "obj" \in Kinds
    BY DEF Kinds
  <2> QED
    BY <1>1, <1>2, <1>3, <2>1, PreLoopRestarts DEF Filter
<1>4. CASE FilterElement
  <2>1. /\ heap' = heap
        /\ \/ Out(Top)
           \/ Crash
           \/ Go(StartClause(Top, Element(Top), Top.pc))
           \/ Go(NextEntry(Top, "filter"))
    BY <1>4 DEF FilterElement, Data
  <2>2. CASE Go(NextEntry(Top, "filter"))
    <3>1. /\ NextEntry(Top, "filter").mode = "filter" /\ NextEntry(Top, "filter").own = Top.own
          /\ NextEntry(Top, "filter").inctx = Top.inctx
      BY <1>1, NextEntryFields
    <3>2. Shrinking(call, heap, NextEntry(Top, "filter"))
      BY <1>2, <3>1, ElsewhereShrinks DEF FilterModes
    <3>3. Follows(NextEntry(Top, "filter"))
      BY <3>1, ElsewhereFollows
    <3> QED
      BY <1>1, <2>1, <2>2, <3>2, <3>3, GoRestarts
  <2> QED
    BY <1>1, <1>2, <2>1, <2>2, OutRestarts, CrashRestarts, StartClauseRestarts
<1>5. CASE Crawl
  <2> DEFINE f == [Top EXCEPT !.mode = "match"]
             g == [Top EXCEPT !.el2 = Get(heap, Top.el2, Code(Top.ow).key),
                              !.ow = Top.ow + 1, !.cnt = Top.cnt - 1]
  <2>1. heap' = heap /\ Top.mode = "crawl" /\ (Go(f) \/ Go(g))
    BY <1>5 DEF Crawl, Data, In
  <2>2. /\ f.mode = "match" /\ f.own = Top.own /\ f.inctx = Top.inctx
        /\ g.mode = "crawl" /\ g.own = Top.own /\ g.inctx = Top.inctx
    BY <1>1, <2>1 DEF Frame
  <2> HIDE DEF f, g
  <2>3. Shrinking(call, heap, f) /\ Shrinking(call, heap, g)
    BY <1>2, <2>2, ElsewhereShrinks DEF FilterModes
  <2>4. Follows(f) /\ Follows(g)
    BY <2>2, ElsewhereFollows
  <2> QED
    BY <1>1, <2>1, <2>3, <2>4, GoRestarts
<1>6. CASE Match
  <2> DEFINE f == [Top EXCEPT !.mode = "operand", !.sent = Top.ow]
             callee == NewFrame(Top.ow + 1, call.root, NULL, NoInfo, Depth)
  <2>1. /\ heap' = heap
        /\ \/ \E match : Judge(Top.ow, match)
           \/ \E match : Judge(Top.ow + 1, match)
           \/ \E match : Judge(Top.ow + 2, match)
           \/ Crash
           \/ Enter(f, callee)
    BY <1>6 DEF Match, Data
  <2>2. f.mode = "operand" /\ f.own = Top.own /\ f.inctx = Top.inctx
    BY <1>1 DEF Frame
  <2>3. f \in Frame
    BY <1>1, Zenon DEF Frame, WaitingModes, SubpathModes
  <2>4. Depth \in Nat \ {0} /\ callee.own = Depth /\ callee.mode = "inst"
    BY TopType DEF Restarting, NewFrame
  <2>5. callee \in Frame
    BY <1>1, <2>4, RunTypes, InfoType, NewFrameType DEF Restarting
  <2> HIDE DEF f, callee
  <2>6. Shrinking(call, heap, f) /\ Shrinking(call, heap, callee)
    BY <1>2, <2>2, <2>4, ElsewhereShrinks DEF FilterModes
  <2>7. Follows(f)
    BY <2>2, ElsewhereFollows
  <2>8. Placed(call, heap, f, callee)
    BY <2>4, ElsewherePlaced
  <2>9. CASE Enter(f, callee)
    BY <1>1, <2>1, <2>3, <2>5, <2>6, <2>7, <2>8, <2>9, EnterRestarts
  <2> QED
    BY <1>1, <1>2, <2>1, <2>9, JudgeRestarts, CrashRestarts
<1>7. CASE AfterOperand
  <2>1. heap' = heap /\ \E match : Judge(Top.sent + 1, match)
    BY <1>7 DEF AfterOperand, Data
  <2> QED
    BY <1>1, <1>2, <2>1, JudgeRestarts
<1>8. CASE FilterBack
  <2>1. heap' = heap /\ AfterVisit("FILTER", "filter", "filter")
    BY <1>8 DEF FilterBack, Data
  <2> QED
    BY <1>1, <1>2, <2>1, AfterVisitRestarts
<1> QED
  BY <1>3, <1>4, <1>5, <1>6, <1>7, <1>8 DEF Filtering

\* A member of a union is called: it is no loop over entries that waits.
LEMMA MemberRestarts ==
  ASSUME Restarting, heap' = heap, call' = call, NEW pc \in Nat, Member(pc)
  PROVE  RestartInv'
<1> DEFINE ci == IF Op(Top) = "remove" THEN Top.ci ELSE InfoSet(heap, Top.tmp, NoKey, 0)
           f  == [Top EXCEPT !.mode = "union", !.pc = pc, !.cnt = 0, !.rl = FALSE]
           callee == NewFrame(pc, Top.tmp, NULL, ci, Top.own)
<1>1. Top \in Frame
  BY RestartingTop
<1>2. Enter(f, callee)
  BY DEF Member
<1>3. ci \in ChildInfo
  <2>1. 0 \in Int /\ NoKey \in Text
    BY DEF Text
  <2>2. InfoSet(heap, Top.tmp, NoKey, 0) \in ChildInfo
    BY <2>1, InfoType
  <2> QED
    BY <1>1, <2>2, FrameFields
<1>4. Top.tmp \in ValueSet /\ Top.own \in Nat /\ NULL \in ValueSet /\ 0 \in Int
  BY <1>1, FrameFields DEF ValueSet
<1> HIDE DEF ci
<1>5. callee \in Frame
  BY <1>3, <1>4, NewFrameType
<1>6. callee.mode = "inst"
  BY DEF NewFrame
<1>7. f \in Frame
  BY <1>1, <1>4, Zenon DEF Frame, WaitingModes
<1>8. f.mode = "union" /\ f.own = Top.own /\ f.inctx = Top.inctx
  BY <1>1 DEF Frame
<1> HIDE DEF f, callee
<1>9. Shrinking(call, heap, f) /\ Shrinking(call, heap, callee)
  BY <1>6, <1>8, ElsewhereShrinks
<1>10. Follows(f)
  BY <1>8, ElsewhereFollows
<1>11. Placed(call, heap, f, callee)
  BY <1>8, ElsewherePlaced DEF BackModes
<1> QED
  BY <1>2, <1>5, <1>7, <1>9, <1>10, <1>11, EnterRestarts

\* GET_UNION, UNION_JMP and UNION_END.
LEMMA UnionRestarts ==
  ASSUME Restarting, Next, Union
  PROVE  RestartInv'
<1>1. /\ Top \in Frame /\ heap' = heap /\ call' = call
      /\ Top.pc \in Nat /\ Top.pc + 1 \in Nat /\ NextInst(prog, Top.pc) \in Nat
      /\ NextInst(prog, Top.pc) + 1 \in Nat
  <2>1. Top \in Frame /\ Top.pc \in Nat
    BY RestartingTop, FrameFields
  <2> QED
    BY <2>1 DEF NextInst, Union, GetUnion, AfterMember, NextMember, UnionJmp, SkipUnion,
                UnionEnd, Data
<1>2. CASE GetUnion
  BY <1>1, <1>2, MemberRestarts DEF GetUnion
<1>3. CASE AfterMember
  BY <1>1, <1>3, AfterVisitRestarts DEF AfterMember
<1>4. CASE NextMember
  <2> DEFINE q == NextInst(prog, Top.pc)
             f == [Top EXCEPT !.pc = q]
             up == [f EXCEPT !.cnt = Top.cnt + 1]
             down == [f EXCEPT !.cnt = Top.cnt - 1]
  <2>1. /\ Top.mode = "member"
        /\ Crash \/ Go(up) \/ Member(q + 1) \/ Out(f) \/ Go(down) \/ Go(f)
    BY <1>4 DEF NextMember, In
  <2>2. f \in Frame
    BY <1>1, Zenon DEF Frame
  <2>3. \A g \in {f, up, down} : g.mode = "member" /\ g.own = Top.own /\ g.inctx = Top.inctx
    BY <1>1, <2>1 DEF Frame
  <2> HIDE DEF f, up, down
  <2>4. \A g \in {f, up, down} : Shrinking(call, heap, g) /\ Follows(g)
    BY <2>3, ElsewhereShrinks, ElsewhereFollows
  <2>5. ASSUME NEW g \in {f, up, down}, Go(g)
        PROVE  RestartInv'
    BY <1>1, <2>4, <2>5, GoRestarts
  <2> QED
    BY <1>1, <2>1, <2>2, <2>5, CrashRestarts, MemberRestarts, OutRestarts
<1>5. CASE UnionJmp
  <2> DEFINE f == [Top EXCEPT !.mode = "skip", !.cnt = 0]
  <2>1. Go(f) /\ Top.mode = "inst" /\ Here.inst = "UNION_JMP"
    BY <1>5 DEF UnionJmp, At_, In
  <2>2. /\ f.mode = "skip" /\ f.ctx = Top.ctx /\ f.ci = Top.ci
        /\ f.own = Top.own /\ f.inctx = Top.inctx
    BY <1>1 DEF Frame
  <2> HIDE DEF f
  <2>3. Going(call, Top)
    BY <2>1 DEF Going, Here, Code, prog, RootOps
  <2> QED
    BY <1>1, <2>1, <2>2, <2>3, WalkRestarts
<1>6. CASE SkipUnion
  <2> DEFINE q == NextInst(prog, Top.pc)
             f1 == [Top EXCEPT !.mode = "inst", !.pc = Top.pc + 1]
             f2 == [Top EXCEPT !.pc = q, !.cnt = Top.cnt + 1]
             f3 == [Top EXCEPT !.pc = q + 1, !.cnt = Top.cnt - 1]
             f4 == [Top EXCEPT !.pc = q]
  <2>1. Top.mode = "skip" /\ (Go(f1) \/ Crash \/ Go(f2) \/ Go(f3) \/ Go(f4))
    BY <1>6 DEF SkipUnion, In
  <2>2. \A f \in {f1, f2, f3, f4} :
          /\ f.mode \in {"inst", "skip"} /\ f.ctx = Top.ctx /\ f.ci = Top.ci
          /\ f.own = Top.own /\ f.inctx = Top.inctx
    BY <1>1, <2>1 DEF Frame
  <2> HIDE DEF f1, f2, f3, f4
  <2>3. Going(call, Top)
    BY <2>1 DEF Going
  <2>4. ASSUME NEW f \in {f1, f2, f3, f4}, Go(f)
        PROVE  RestartInv'
    BY <1>1, <2>2, <2>3, <2>4, WalkRestarts
  <2> QED
    BY <2>1, <2>4, CrashRestarts
<1>7. CASE UnionEnd
  <2> DEFINE f == [Top EXCEPT !.pc = Top.pc + 1]
  <2>1. Go(f) /\ Top.mode = "inst" /\ Here.inst = "UNION_END"
    BY <1>7 DEF UnionEnd, At_, In
  <2>2. /\ f.mode = "inst" /\ f.ctx = Top.ctx /\ f.ci = Top.ci
        /\ f.own = Top.own /\ f.inctx = Top.inctx
    BY <1>1, <2>1 DEF Frame
  <2> HIDE DEF f
  <2>3. Going(call, Top)
    BY <2>1 DEF Going, Here, Code, prog, RootOps
  <2> QED
    BY <1>1, <2>1, <2>2, <2>3, WalkRestarts
<1> QED
  BY <1>2, <1>3, <1>4, <1>5, <1>6, <1>7 DEF Union

--------------------------------------------------------------------------------
(***************************************************************************)
(* The theorem.                                                            *)
(***************************************************************************)

\* The call starts: there is one frame, and no loop.
LEMMA BeginRestarts ==
  ASSUME IInv, Begin
  PROVE  RestartInv'
<1> DEFINE f == NewFrame(1, call.root, NULL, NoInfo, 0)
<1>1. call' = call
  BY DEF Begin
<1>2. CASE stack' = <<f>>
  <2>1. f.mode = "inst"
    BY DEF NewFrame
  <2> HIDE DEF f
  <2>2. Depth' = 1 /\ stack'[1] = f
    BY <1>2 DEF Depth
  <2>3. Shrinking(call, heap', f)
    BY <2>1, ElsewhereShrinks
  <2> QED
    BY <1>1, <2>2, <2>3 DEF RestartInv, RestartOK
<1>3. CASE status' # "run"
  BY <1>3 DEF RestartInv
<1> QED
  BY <1>2, <1>3 DEF Begin

LEMMA NextRestarts ==
  ASSUME IInv, RestartInv, [Next]_vars
  PROVE  RestartInv'
<1>1. CASE Begin
  BY <1>1, BeginRestarts
<1>2. CASE Finished \/ UNCHANGED vars
  BY <1>2 DEF Finished, vars, RestartInv, RestartOK, RestartHyp, Depth, prog
<1>3. CASE Next /\ ~Begin /\ ~Finished
  <2>1. status = "run" /\ call' = call
    BY <1>3, Running
  <2>2. CASE RestartHyp
    <3>1. Restarting
      BY <2>1, <2>2 DEF Restarting
    <3> QED
      BY <1>3, <3>1, ReturnRemoveRestarts, ReturnRestarts, RootsRestart, GettingRestarts,
         AllAndRangeRestart, DescentRestarts, FilteringRestarts, UnionRestarts
         DEF Next, Looping
  <2>3. CASE ~RestartHyp
    BY <2>1, <2>3 DEF RestartInv, RestartHyp, prog
  <2> QED
    BY <2>2, <2>3
<1> QED
  BY <1>1, <1>2, <1>3

LEMMA InitRestarts == Init => RestartInv
  BY DEF Init, RestartInv

\* A loop that is started over (goto again, range_again) has lost an entry
\* since it started, whatever the document and the path are: in a remove of
\* any path in which an alternative starts at a root, and, if the operation is
\* one that creates, of any path without a filter.
THEOREM LoopsRestartAfterLoss == Spec => [](RestartHyp => RestartAfterLoss)
<1>1. IInv /\ RestartInv => (RestartHyp => RestartAfterLoss)
  <2> SUFFICES ASSUME IInv, RestartInv, RestartHyp, status = "run",
                      Top.mode \in {"all_back", "range_back", "dot_back", "dot_return",
                                    "filter_back"},
                      Verdict(Top, ret, LoopMacro(Top.mode)) = "again"
               PROVE  Size(heap, Top.tmp) < Top.n
    BY DEF RestartAfterLoss
  <2>1. Top \in Frame /\ Top.own \in Nat /\ Shrinking(call, heap, Top) /\ call.op \in Ops
    BY RestartingTop, CallAssumption DEF Restarting
  <2>2. Top.rl
    BY DEF Verdict
  <2>3. CASE Top.mode = "filter_back"
    <3>1. LoopMacro(Top.mode) = "FILTER"
      BY <2>3 DEF LoopMacro
    <3>2. Op(Top) \in CreateOps
      BY <2>1, <3>1 DEF Verdict, Op, Ops, FindOps, CreateOps, CallbackOps
    <3>3. call.op \in CreateOps
      BY <2>1, <3>2 DEF Op, CreateOps
    <3> QED
      BY <2>1, <2>3, <3>3 DEF Shrinking, FilterModes
  <2>4. CASE Top.mode \in BackModes
    <3>1. LoopMacro(Top.mode) # "FILTER"
      BY <2>4 DEF LoopMacro, BackModes
    <3>2. Op(Top) = "remove"
      BY <3>1 DEF Verdict
    <3>3. call.op = "remove" /\ Top.own = 0
      BY <2>1, <3>2 DEF Op
    <3> QED
      BY <2>1, <2>2, <2>4, <3>3 DEF Shrinking, EntryModes
  <2> QED
    BY <2>3, <2>4 DEF BackModes
<1> QED
  BY <1>1, InitIInv, NextIInv, InitRestarts, NextRestarts, PTL DEF Spec

================================================================================
