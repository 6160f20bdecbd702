-------------------------- MODULE CsonpathSafe_proofs --------------------------
(***************************************************************************)
(* The calls that survive: nothing they hold on to is released, nothing is *)
(* read past an end, and the frames they need are known beforehand.        *)
(***************************************************************************)
EXTENDS CsonpathWalk_proofs, CsonpathSafe

(***************************************************************************)
(* What is known of the frame f, the d-th, in the call c, when the         *)
(* document is h.                                                          *)
(*   Living    what it holds is alive, and what a list had when its loop   *)
(*             started it still has, unless the loop is to start over      *)
(*   Ranking   what a loop has taken from a container is below it          *)
(*   Bounded   a call moves on in the program, or down in the document     *)
(*   InStep    a walk cell by cell does not read the length of an operator *)
(*             that is two bytes long                                      *)
(***************************************************************************)
LoopBacks == {"all_back", "range_back", "dot_back", "dot_return", "filter_back"}
Holding   == LoopBacks \cup DotModes \cup ClauseModes \cup {"range"}
Fetched   == LoopBacks \cup ClauseModes \cup {"descend"}
Counting  == {"range", "dot", "descend", "filter", "filter_back"} \cup ClauseModes
Stepping  == {"scan", "skip", "union", "member"}
Pending   == {"inst", "skip", "subpath"}

Redo(c, f)    == c.op = "remove" /\ f.own = 0 /\ f.rl
Fits(c, h, f) == c.be = "python" /\ f.tmp \in Nodes => f.n <= Size(h, f.tmp)
Living(c, h, f) ==
  /\ Alive(h, f.tmp)
  /\ f.mode \in {"descend"} \cup ClauseModes => Alive(h, f.el)
  /\ f.mode = "dot_back" => Redo(c, f) \/ Alive(h, f.el)
  /\ f.mode \in Counting => Fits(c, h, f)
  /\ f.mode \in {"range_back", "dot_back", "dot_return"} => Redo(c, f) \/ Fits(c, h, f)

Ranking(rk, f) ==
  /\ f.mode \in Holding => f.tmp \in Nodes
  /\ f.mode \in Fetched /\ f.el \in Nodes => rk[f.tmp] < rk[f.el]

Floor(f) == IF f.mode \in {"range", "range_back", "union", "member"} THEN f.pc - 1 ELSE f.pc
Level(K, q) == (K + 1) * (q - 1) + 1
Bounded(K, rk, d, f) ==
  /\ d <= Level(K, Floor(f)) + (IF f.mode \in DotModes THEN rk[f.tmp] ELSE 0)
  /\ f.mode \in ClauseModes => f.pc < f.ow

InStep(c, f) ==
  f.mode \in Stepping /\ Is(c.prog, f.pc, {"LEN"}) => ~Is(c.prog, f.pc - 1, WideOps)

FrameSafe(c, K, rk, h, d, f) ==
  Living(c, h, f) /\ Ranking(rk, f) /\ Bounded(K, rk, d, f) /\ InStep(c, f)

(***************************************************************************)
(* And of a frame that removes: child_info is set before anything can be   *)
(* removed with it, and what the loops wait for is not what can go.        *)
(***************************************************************************)
Removing(c, f) == c.op = "remove" /\ f.own = 0
AtMember(c, f) == f.mode # "skip" /\ Is(c.prog, f.pc - 1, {"GET_UNION", "UNION_JMP"})
OwnSafe(c, h, f) ==
  Removing(c, f) =>
    /\ f.mode = "inst" /\ f.pc = 1 => f.ci = NoInfo
    /\ f.mode \in Pending /\ f.ctx = NULL /\ f.ci.type # "NONE" => AtMember(c, f)
    /\ f.mode = "dot_back" => NeedForeachRedo(c.be, h, f.tmp)
    /\ f.mode = "filter_back" /\ c.be = "python" => ~Is(c.prog, f.ow, Stays)

\* The value v is not above what the waiting frame f holds: below it, or, as
\* the member of a union, at it.
Below(rk, f, v) ==
  v \in Nodes => IF f.mode \in LoopBacks
                 THEN rk[f.tmp] < rk[v] /\ (f.el \in Nodes => rk[f.el] <= rk[v])
                 ELSE f.tmp \in Nodes => rk[f.tmp] <= rk[v]

\* The frame g, the e-th, is called by f, the d-th, or by what f calls.  Only
\* the one that f calls itself can remove from what f loops over.
Direct(d, f, e) == e = d + 1 /\ f.mode \in LoopBacks
PairSafe(c, rk, d, f, e, g) ==
  Removing(c, g) =>
    /\ Below(rk, f, g.tmp)
    /\ (Direct(d, f, e) /\ g.ctx = f.tmp) \/ Below(rk, f, g.ctx)
    /\ Direct(d, f, e) => g.inctx = f.tmp
    /\ Direct(d, f, e) /\ f.mode = "filter_back" /\ c.be = "python" /\ g.ctx = f.tmp /\ g.mode \in Pending
         => g.mode # "skip" /\ g.pc = f.ow

Document(rk, h) == Whole(h) /\ Ranked(rk, h) /\ \A n \in Pinned : Alive(h, n)
SafeOK(K, rk) ==
  /\ Document(rk, heap)
  /\ \A d \in 1..Depth : FrameSafe(call, K, rk, heap, d, stack[d]) /\ OwnSafe(call, heap, stack[d])
  /\ \A d \in 1..Depth : \A e \in (d + 1)..Depth : PairSafe(call, rk, d, stack[d], e, stack[e])
SafeInv == \A L, K, rk : status = "run" /\ Survives(call, L, K, rk) => SafeOK(K, rk)

\* The invariant, in a call in progress, and what a step makes of it.
Saving(L, K, rk) == Walking(L) /\ Survives(call, L, K, rk) /\ SafeOK(K, rk)
StaysSafe(K, rk) ==
  /\ status' = "run" => SafeOK(K, rk)'
  /\ Room(call, K) <= MaxDepth => status' # "crash"

--------------------------------------------------------------------------------
(***************************************************************************)
(* Numbers, and documents.                                                 *)
(***************************************************************************)
LEMMA Levels ==
  ASSUME NEW K \in Nat, NEW a \in Int, NEW b \in Int
  PROVE  /\ Level(K, a) \in Int
         /\ a < b => Level(K, a) + K + 1 <= Level(K, b)
         /\ a <= b => Level(K, a) <= Level(K, b)
         /\ Level(K, a) + K = (K + 1) * a
<1> DEFINE m == K + 1
<1>1. m \in Nat /\ a - 1 \in Int /\ b - 1 \in Int /\ b - a \in Int
  OBVIOUS
<1>2. m * (b - 1) = m * (a - 1) + m * (b - a)
  <2>1. \A x, y, z \in Int : z * (x + y) = z * x + z * y
    OBVIOUS
  <2>2. b - 1 = (a - 1) + (b - a)
    OBVIOUS
  <2> QED
    BY <1>1, <2>1, <2>2
<1>3. a <= b => m * (b - a) >= 0
  BY <1>1
<1>4. a < b => m * (b - a) >= m
  <2>1. SUFFICES ASSUME a < b PROVE m * (b - a) >= m
    OBVIOUS
  <2>2. b - a - 1 \in Nat
    BY <2>1
  <2>3. \A x \in Nat, z \in Nat : z * (x + 1) >= z
    OBVIOUS
  <2>4. b - a = (b - a - 1) + 1
    OBVIOUS
  <2> QED
    BY <1>1, <2>2, <2>3, <2>4
<1>5. m * (a - 1) \in Int /\ m * (b - 1) \in Int /\ m * (b - a) \in Int
  BY <1>1
<1>6. m * a = m * (a - 1) + m
  <2>1. \A x, z \in Int : z * (x + 1) = z * x + z
    OBVIOUS
  <2>2. a = (a - 1) + 1
    OBVIOUS
  <2> QED
    BY <1>1, <2>1, <2>2
<1>7. Level(K, a) = m * (a - 1) + 1 /\ Level(K, b) = m * (b - 1) + 1 /\ m = K + 1
  BY DEF Level
<1> HIDE DEF m
<1> QED
  BY <1>2, <1>3, <1>4, <1>5, <1>6, <1>7

LEMMA LevelType == ASSUME NEW K \in Nat, NEW a \in Int PROVE Level(K, a) \in Int
  BY Levels

\* What an accessor finds is alive, and below the container.
LEMMA FoundIsBelow ==
  ASSUME NEW K \in Nat, NEW rk \in [Nodes -> 0..K], NEW h \in Heap, Whole(h), Ranked(rk, h),
         NEW n, NEW ci \in ChildInfo
  PROVE  LET v == Refetch(h, n, ci) IN
         /\ Alive(h, v)
         /\ v # NULL => n \in Nodes /\ IsContainer(h, n)
         /\ v \in Nodes => rk[n] < rk[v]
<1> DEFINE v == Refetch(h, n, ci)
<1>1. v = NULL \/ (IsContainer(h, n) /\ \E i \in DOMAIN h[n].kids : v = h[n].kids[i].at)
  <2>1. CASE ci.type = "STR" /\ v # NULL
    <3>1. IsObj(h, n) /\ KeyIndex(h, n, ci.key) # {}
          /\ v = h[n].kids[CHOOSE i \in KeyIndex(h, n, ci.key) : TRUE].at
      BY <2>1 DEF Refetch, Get
    <3> QED
      BY <3>1 DEF KeyIndex, IsContainer
  <2>2. CASE ci.type = "INTEGER" /\ v # NULL
    <3>1. IsArray(h, n) /\ 0 <= ci.idx /\ ci.idx < Size(h, n) /\ v = h[n].kids[ci.idx + 1].at
      BY <2>2 DEF Refetch, At
    <3>2. n \in Nodes /\ ci.idx \in Int
      BY <3>1 DEF IsArray, IsKind, ChildInfo
    <3>3. ci.idx + 1 \in DOMAIN h[n].kids
      BY <3>1, <3>2, KidsType
    <3> QED
      BY <3>1, <3>3 DEF IsContainer
  <2>3. CASE ci.type \notin {"STR", "INTEGER"}
    BY <2>3 DEF Refetch
  <2> QED
    BY <2>1, <2>2, <2>3
<1>2. IsContainer(h, n) => n \in Nodes
  BY DEF IsContainer, IsObj, IsArray, IsKind
<1>3. Alive(h, NULL) /\ NULL \notin Nodes
  BY DocAssumption DEF Alive, IsKind
<1> HIDE DEF v
<1> QED
  BY <1>1, <1>2, <1>3 DEF Whole, Ranked, v

\* So is the entry that a loop is at.
LEMMA EntryIsBelow ==
  ASSUME IInv, NEW K \in Nat, NEW rk \in [Nodes -> 0..K], Whole(heap), Ranked(rk, heap),
         NEW f \in Frame, More(f)
  PROVE  /\ f.tmp \in Nodes /\ IsContainer(heap, f.tmp)
         /\ Element(f) # BAD => Alive(heap, Element(f))
         /\ Element(f) \in Nodes => rk[f.tmp] < rk[Element(f)]
         /\ EntryAt(f) < Size(heap, f.tmp) => Element(f) # BAD
<1> DEFINE i == EntryAt(f)
<1>1. i \in Nat /\ f.i \in Nat /\ heap \in Heap /\ f.tmp \in Nodes
      /\ NULL \notin Nodes /\ BAD \notin Nodes /\ BAD \notin ValueSet
  BY EntryAtType, FrameFields, ElementType, DocAssumption DEF IInv, TypeOK, ValueSet
<1>2. IsContainer(heap, f.tmp)
  BY <1>1 DEF More, IsContainer
<1>3. CASE i < Size(heap, f.tmp)
  <2>1. i + 1 \in DOMAIN heap[f.tmp].kids /\ i + 1 \in 1..Size(heap, f.tmp)
    BY <1>1, <1>3, KidsType
  <2>2. Element(f) = heap[f.tmp].kids[i + 1].at
    BY <1>3 DEF Element, Fetch
  <2>3. heap[f.tmp].kids[i + 1] \in Entry
    BY <1>1, <2>1, KidsType
  <2>4. Element(f) \in ValueSet
    BY <2>2, <2>3 DEF Entry
  <2> QED
    BY <1>1, <1>2, <2>1, <2>2, <2>4 DEF Whole, Ranked
<1>4. CASE ~(i < Size(heap, f.tmp))
  <2>1. Element(f) \in {BAD, NULL}
    BY <1>4 DEF Element, Fetch
  <2> QED
    BY <1>1, <1>2, <1>4, <2>1 DEF Alive, IsKind
<1> QED
  BY <1>3, <1>4
--------------------------------------------------------------------------------
(***************************************************************************)
(* The frame on top goes on, calls, or returns.                            *)
(***************************************************************************)

\* The frame f, on top, goes with those below it.
Succeeds(rk, f) == \A d \in 1..(Depth - 1) : PairSafe(call, rk, d, stack[d], Depth, f)

\* What is known of the frames.
LEMMA SavingTop ==
  ASSUME NEW L, NEW K, NEW rk, Saving(L, K, rk)
  PROVE  /\ K \in Nat /\ rk \in [Nodes -> 0..K] /\ call \in Calls /\ IInv /\ status = "run"
         /\ heap \in Heap /\ NULL \notin Nodes
         /\ Walking(L) /\ Survives(call, L, K, rk) /\ Laid(prog, L) /\ Tame(prog, L)
         /\ stack \in Seq(Frame) /\ Depth \in Nat \ {0} /\ Depth = Len(stack)
         /\ Top \in Frame /\ Top = stack[Depth] /\ Depth \in 1..Depth
         /\ Document(rk, heap) /\ Whole(heap) /\ Ranked(rk, heap)
         /\ FrameSafe(call, K, rk, heap, Depth, Top) /\ OwnSafe(call, heap, Top)
         /\ \A d \in 1..Depth : /\ stack[d] \in Frame
                                /\ FrameSafe(call, K, rk, heap, d, stack[d])
                                /\ OwnSafe(call, heap, stack[d])
         /\ \A d \in 1..Depth : \A e \in (d + 1)..Depth :
              PairSafe(call, rk, d, stack[d], e, stack[e])
         /\ Succeeds(rk, Top)
         /\ call.op \in FindOps \cup {"callback", "remove"} /\ Op(Top) \notin CreateOps
<1>1. /\ call \in Calls /\ IInv /\ status = "run" /\ Laid(prog, L) /\ Tame(prog, L)
      /\ stack \in Seq(Frame) /\ Depth \in Nat \ {0} /\ Depth = Len(stack)
      /\ Top \in Frame /\ Top = stack[Depth] /\ Walking(L)
      /\ \A d \in 1..Depth : stack[d] \in Frame
  BY WalkingTop DEF Saving
<1>2. Depth \in 1..Depth /\ \A d \in 1..(Depth - 1) : d \in 1..Depth /\ Depth \in (d + 1)..Depth
  BY <1>1
<1>3. heap \in Heap /\ NULL \notin Nodes
  BY <1>1, RunTypes, DocAssumption
<1>4. SafeOK(K, rk) /\ Survives(call, L, K, rk)
  BY DEF Saving
<1>5. Succeeds(rk, Top)
  BY <1>1, <1>2, <1>4 DEF Succeeds, SafeOK
<1>6. call.op \in FindOps \cup {"callback", "remove"} /\ Op(Top) \notin CreateOps
  BY <1>4 DEF Survives, ReadsOnly, RemovesSafely, Op, FindOps, CreateOps
<1> QED
  BY <1>1, <1>2, <1>3, <1>4, <1>5, <1>6 DEF SafeOK, Document, Survives

\* What the invariant says after a step that keeps the call.
LEMMA SafeAfter ==
  ASSUME NEW K, NEW rk, call' = call, Document(rk, heap'),
         \A d \in 1..Depth' : /\ FrameSafe(call, K, rk, heap', d, stack'[d])
                              /\ OwnSafe(call, heap', stack'[d]),
         \A d \in 1..Depth' : \A e \in (d + 1)..Depth' :
           PairSafe(call, rk, d, stack'[d], e, stack'[e])
  PROVE  SafeOK(K, rk)'
<1>1. Pinned' = Pinned
  BY DEF Pinned
<1>2. Document(rk, heap)'
  BY <1>1 DEF Document
<1> QED
  BY <1>2 DEF SafeOK

LEMMA GoSafe ==
  ASSUME NEW L, NEW K, NEW rk, Saving(L, K, rk), call' = call, heap' = heap, NEW f, Go(f),
         FrameSafe(call, K, rk, heap, Depth, f), OwnSafe(call, heap, f), Succeeds(rk, f)
  PROVE  StaysSafe(K, rk)
<1>1. /\ Depth' = Depth /\ status' = "run"
      /\ \A d \in 1..Depth : stack'[d] = IF d = Depth THEN f ELSE stack[d]
  BY SavingTop, GoEffect
<1>2. Depth \in Nat \ {0} /\ Document(rk, heap)
  BY SavingTop
<1>3. ASSUME NEW d \in 1..Depth
      PROVE  /\ FrameSafe(call, K, rk, heap, d, stack'[d])
             /\ OwnSafe(call, heap, stack'[d])
  BY <1>1, SavingTop
<1>4. ASSUME NEW d \in 1..Depth, NEW e \in (d + 1)..Depth
      PROVE  PairSafe(call, rk, d, stack'[d], e, stack'[e])
  <2>1. stack'[d] = stack[d] /\ e \in 1..Depth /\ d \in 1..(Depth - 1)
    BY <1>1, <1>2
  <2>2. CASE e = Depth
    <3>1. PairSafe(call, rk, d, stack[d], Depth, f)
      BY <2>1 DEF Succeeds
    <3> QED
      BY <1>1, <2>1, <2>2, <3>1
  <2>3. CASE e # Depth
    BY <1>1, <2>1, <2>3, SavingTop
  <2> QED
    BY <2>2, <2>3
<1>5. SafeOK(K, rk)'
  BY <1>1, <1>2, <1>3, <1>4, SafeAfter
<1> QED
  BY <1>1, <1>5 DEF StaysSafe

\* A call: there is room for its frame, as it is bounded.
LEMMA EnterSafe ==
  ASSUME NEW L, NEW K, NEW rk, Saving(L, K, rk), call' = call, heap' = heap,
         NEW f \in Frame, NEW g \in Frame, Enter(f, g),
         FrameSafe(call, K, rk, heap, Depth, f), OwnSafe(call, heap, f), Succeeds(rk, f),
         FrameSafe(call, K, rk, heap, Depth + 1, g), OwnSafe(call, heap, g),
         \A d \in 1..(Depth - 1) : PairSafe(call, rk, d, stack[d], Depth + 1, g),
         PairSafe(call, rk, Depth, f, Depth + 1, g),
         Depth + 1 <= Room(call, K)
  PROVE  StaysSafe(K, rk)
<1>1. Depth \in Nat \ {0} /\ Document(rk, heap) /\ Depth \in 1..Depth
  BY SavingTop
<1>2. CASE Depth = MaxDepth
  <2>1. status' = "crash"
    BY <1>2 DEF Enter, Crash
  <2>2. ~(Room(call, K) <= MaxDepth)
    <3>1. MaxDepth \in Nat
      BY BoundAssumption
    <3>2. Room(call, K) \in Int
      <4>1. K \in Nat /\ call.prog \in Seq(Cells)
        BY SavingTop, CallAssumption
      <4>2. K + 1 \in Int /\ Len(call.prog) \in Int
        BY <4>1
      <4> QED
        BY <4>2 DEF Room
    <3> QED
      BY <1>1, <1>2, <3>1, <3>2
  <2> QED
    BY <2>1, <2>2 DEF StaysSafe
<1>3. CASE Depth # MaxDepth
  <2>0. status' = "run"
    BY <1>3, SavingTop DEF Enter
  <2>1. /\ Depth' = Depth + 1
        /\ \A d \in 1..(Depth + 1) :
             stack'[d] = IF d = Depth THEN f ELSE IF d = Depth + 1 THEN g ELSE stack[d]
    BY <2>0, SavingTop, EnterEffect
  <2>2. ASSUME NEW d \in 1..(Depth + 1)
        PROVE  /\ FrameSafe(call, K, rk, heap, d, stack'[d])
               /\ OwnSafe(call, heap, stack'[d])
    <3>1. CASE d \in {Depth, Depth + 1}
      BY <1>1, <2>1, <3>1
    <3>2. CASE d \notin {Depth, Depth + 1}
      <4>1. d \in 1..Depth /\ stack'[d] = stack[d]
        BY <1>1, <2>1, <3>2
      <4> QED
        BY <4>1, SavingTop
    <3> QED
      BY <3>1, <3>2
  <2>3. ASSUME NEW d \in 1..(Depth + 1), NEW e \in (d + 1)..(Depth + 1)
        PROVE  PairSafe(call, rk, d, stack'[d], e, stack'[e])
    <3>1. d \in 1..Depth /\ e \in 1..(Depth + 1)
      BY <1>1
    <3>2. CASE d = Depth
      <4>1. e = Depth + 1 /\ stack'[d] = f /\ stack'[e] = g
        BY <1>1, <2>1, <3>1, <3>2
      <4> QED
        BY <3>2, <4>1
    <3>3. CASE d # Depth
      <4>1. d \in 1..(Depth - 1) /\ stack'[d] = stack[d]
        BY <1>1, <2>1, <3>1, <3>3
      <4>2. CASE e = Depth
        BY <1>1, <2>1, <3>1, <4>1, <4>2 DEF Succeeds
      <4>3. CASE e = Depth + 1
        BY <1>1, <2>1, <3>1, <4>1, <4>3
      <4>4. CASE e \notin {Depth, Depth + 1}
        <5>1. e \in (d + 1)..Depth /\ stack'[e] = stack[e]
          BY <1>1, <2>1, <3>1, <4>4
        <5> QED
          BY <3>1, <4>1, <5>1, SavingTop
      <4> QED
        BY <4>2, <4>3, <4>4
    <3> QED
      BY <3>2, <3>3
  <2>4. SafeOK(K, rk)'
    BY <1>1, <2>1, <2>2, <2>3, SafeAfter
  <2> QED
    BY <2>0, <2>4 DEF StaysSafe
<1> QED
  BY <1>2, <1>3

\* What is known of a frame does not depend on what its callees write to it,
\* unless they clear need_reloop, which none does.
LEMMA AlikeSafe ==
  ASSUME NEW c, NEW K, NEW rk, NEW h, NEW d, NEW f, NEW g, Alike(g, f), f.rl => g.rl
  PROVE  /\ FrameSafe(c, K, rk, h, d, f) => FrameSafe(c, K, rk, h, d, g)
         /\ OwnSafe(c, h, f) => OwnSafe(c, h, g)
  BY DEF Alike, FrameSafe, Living, Ranking, Bounded, InStep, Redo, Fits, Floor, OwnSafe,
         Removing, AtMember

LEMMA AlikePair ==
  ASSUME NEW c, NEW rk, NEW d, NEW e, NEW f, NEW f1, NEW g, NEW g1, Alike(f1, f), Alike(g1, g),
         PairSafe(c, rk, d, f, e, g)
  PROVE  PairSafe(c, rk, d, f1, e, g1)
  BY DEF Alike, PairSafe, Removing, Below, Direct

\* A return, with the stack s and the document as the step leaves it.
LEMMA LeaveSafe ==
  ASSUME NEW L, NEW K, NEW rk, Saving(L, K, rk), call' = call, NEW s, SameShape(s),
         NEW r, LeaveFrom(s, r), \A d \in 1..Depth : Alike(s[d], stack[d]),
         Document(rk, heap'),
         \A d \in 1..(Depth - 1) : /\ FrameSafe(call, K, rk, heap', d, s[d])
                                   /\ OwnSafe(call, heap', s[d])
  PROVE  StaysSafe(K, rk)
<1>1. Depth \in Nat \ {0}
  BY SavingTop
<1>2. /\ Depth' = Depth - 1 /\ status' # "crash"
      /\ \A d \in 1..(Depth - 1) : stack'[d] = s[d]
  BY SavingTop, LeaveEffect
<1>3. ASSUME NEW d \in 1..(Depth - 1), NEW e \in (d + 1)..(Depth - 1)
      PROVE  PairSafe(call, rk, d, s[d], e, s[e])
  <2>1. d \in 1..Depth /\ e \in 1..Depth /\ e \in (d + 1)..Depth
    BY <1>1
  <2>2. PairSafe(call, rk, d, stack[d], e, stack[e])
    BY <2>1, SavingTop
  <2> QED
    BY <2>1, <2>2, AlikePair
<1>4. \A d \in 1..(Depth - 1) : \A e \in (d + 1)..(Depth - 1) : e \in 1..(Depth - 1)
  BY <1>1
<1>5. SafeOK(K, rk)'
  BY <1>2, <1>3, <1>4, SafeAfter
<1> QED
  BY <1>2, <1>5 DEF StaysSafe

\* A return that leaves the document alone.
LEMMA ReturnSafe ==
  ASSUME NEW L, NEW K, NEW rk, Saving(L, K, rk), call' = call, heap' = heap, NEW r,
         \/ Leave(r)
         \/ \E walker : \E v \in Nat : LeaveAt(walker, v, r)
         \/ \E cond \in BOOLEAN : LeaveFrom(Reloop(cond), r)
  PROVE  StaysSafe(K, rk)
<1>1. IInv /\ status = "run" /\ Top \in Frame /\ Document(rk, heap) /\ Depth \in Nat
  BY SavingTop
<1>2. \E s : /\ SameShape(s) /\ LeaveFrom(s, r)
             /\ \A d \in 1..Depth : Alike(s[d], stack[d]) /\ (stack[d].rl => s[d].rl)
  <2>1. CASE Leave(r)
    BY <1>1, <2>1, ShapeKept DEF Leave, Alike
  <2>2. ASSUME NEW walker, NEW v \in Nat, LeaveAt(walker, v, r)
        PROVE  \E s : /\ SameShape(s) /\ LeaveFrom(s, r)
                      /\ \A d \in 1..Depth : Alike(s[d], stack[d]) /\ (stack[d].rl => s[d].rl)
    BY <1>1, <2>2, SentinelEffect DEF LeaveAt
  <2>3. ASSUME NEW cond \in BOOLEAN, LeaveFrom(Reloop(cond), r)
        PROVE  \E s : /\ SameShape(s) /\ LeaveFrom(s, r)
                      /\ \A d \in 1..Depth : Alike(s[d], stack[d]) /\ (stack[d].rl => s[d].rl)
    BY <1>1, <2>3, ReloopEffect
  <2> QED
    BY <2>1, <2>2, <2>3
<1>3. PICK s : /\ SameShape(s) /\ LeaveFrom(s, r)
               /\ \A d \in 1..Depth : Alike(s[d], stack[d]) /\ (stack[d].rl => s[d].rl)
  BY <1>2
<1>4. ASSUME NEW d \in 1..(Depth - 1)
      PROVE  FrameSafe(call, K, rk, heap, d, s[d]) /\ OwnSafe(call, heap, s[d])
  <2>1. d \in 1..Depth
    BY <1>1
  <2> QED
    BY <1>3, <2>1, SavingTop, AlikeSafe
<1> QED
  BY <1>1, <1>3, <1>4, LeaveSafe

LEMMA FailSafe ==
  ASSUME NEW L, NEW K, NEW rk, Saving(L, K, rk), call' = call, heap' = heap, Fail
  PROVE  StaysSafe(K, rk)
  BY ReturnSafe DEF Fail

LEMMA OutSafe ==
  ASSUME NEW L, NEW K, NEW rk, Saving(L, K, rk), call' = call, heap' = heap,
         NEW f, f.pc \in Nat, Out(f)
  PROVE  StaysSafe(K, rk)
<1>1. \/ LeaveAt(f.pc, f.pc, None)
      \/ Leave(Count(IF call.emptyArray \/ f.nb > 0 THEN 1 ELSE 0))
      \/ Leave(Count(f.nb))
  BY DEF Out
<1> QED
  BY <1>1, ReturnSafe

--------------------------------------------------------------------------------
(***************************************************************************)
(* The frame that takes the place of the one on top, and the one it calls. *)
(***************************************************************************)
LEMMA BelowMore ==
  ASSUME NEW K \in Nat, NEW rk \in [Nodes -> 0..K], NEW f, Ranking(rk, f),
         NEW v \in Nodes, NEW w, Below(rk, f, v), w \in Nodes => rk[v] <= rk[w]
  PROVE  Below(rk, f, w)
<1> SUFFICES ASSUME w \in Nodes PROVE Below(rk, f, w)
  BY DEF Below
<1>1. \A n \in Nodes : rk[n] \in Nat
  OBVIOUS
<1>2. f.mode \in LoopBacks => f.tmp \in Nodes
  BY DEF Ranking, Holding
<1> QED
  BY <1>1, <1>2 DEF Below

\* It looks at the same value, which came from the same place.
LEMMA SameSucceeds ==
  ASSUME NEW L, NEW K, NEW rk, Saving(L, K, rk), NEW f, f.own = Top.own, f.tmp = Top.tmp,
         f.ctx = Top.ctx, f.inctx = Top.inctx,
         f.mode \in Pending => f.mode # "skip" /\ f.pc = Top.pc /\ Top.mode \in Pending
  PROVE  Succeeds(rk, f)
<1> SUFFICES ASSUME NEW d \in 1..(Depth - 1)
             PROVE  PairSafe(call, rk, d, stack[d], Depth, f)
  BY DEF Succeeds
<1>1. PairSafe(call, rk, d, stack[d], Depth, Top)
  BY SavingTop DEF Succeeds
<1> QED
  BY <1>1 DEF PairSafe, Removing

\* It looks at a value found in the one the frame on top looks at.
LEMMA DeeperSucceeds ==
  ASSUME NEW L, NEW K, NEW rk, Saving(L, K, rk), NEW f, f.own = Top.own,
         f.inctx = Top.inctx, Top.tmp \in Nodes, f.ctx = Top.tmp,
         f.tmp \in Nodes => rk[Top.tmp] <= rk[f.tmp]
  PROVE  Succeeds(rk, f)
<1> SUFFICES ASSUME NEW d \in 1..(Depth - 1), Removing(call, f)
             PROVE  PairSafe(call, rk, d, stack[d], Depth, f)
  BY DEF Succeeds, PairSafe
<1>1. PairSafe(call, rk, d, stack[d], Depth, Top) /\ Removing(call, Top) /\ d \in 1..Depth
  BY SavingTop DEF Succeeds, Removing
<1>2. Ranking(rk, stack[d])
  BY <1>1, SavingTop DEF FrameSafe
<1>3. Below(rk, stack[d], Top.tmp)
  BY <1>1 DEF PairSafe
<1>4. Below(rk, stack[d], f.tmp) /\ Below(rk, stack[d], f.ctx)
  BY <1>2, <1>3, SavingTop, BelowMore
<1>5. stack[d].mode \in LoopBacks => stack[d].tmp # f.ctx
  <2>1. \A n \in Nodes : rk[n] \in Nat
    BY SavingTop
  <2> QED
    BY <1>4, <2>1 DEF Below
<1> QED
  BY <1>1, <1>4, <1>5 DEF PairSafe, Direct

\* What the frame on top calls.
LEMMA CalleeSucceeds ==
  ASSUME NEW L, NEW K, NEW rk, Saving(L, K, rk), NEW g,
         Removing(call, g) =>
           /\ g.own = Top.own /\ g.ctx \in {NULL, Top.tmp}
           /\ g.tmp \in Nodes => Top.tmp \in Nodes /\ rk[Top.tmp] <= rk[g.tmp]
  PROVE  \A d \in 1..(Depth - 1) : PairSafe(call, rk, d, stack[d], Depth + 1, g)
<1> SUFFICES ASSUME NEW d \in 1..(Depth - 1), Removing(call, g)
             PROVE  PairSafe(call, rk, d, stack[d], Depth + 1, g)
  BY DEF PairSafe
<1>1. PairSafe(call, rk, d, stack[d], Depth, Top) /\ Removing(call, Top) /\ d \in 1..Depth
      /\ NULL \notin Nodes /\ Depth \in Nat
  BY SavingTop DEF Succeeds, Removing
<1>2. Ranking(rk, stack[d])
  BY <1>1, SavingTop DEF FrameSafe
<1>3. Below(rk, stack[d], Top.tmp)
  BY <1>1 DEF PairSafe
<1>4. Below(rk, stack[d], g.tmp)
  <2>1. CASE g.tmp \in Nodes
    BY <1>2, <1>3, <2>1, SavingTop, BelowMore
  <2>2. CASE g.tmp \notin Nodes
    BY <2>2 DEF Below
  <2> QED
    BY <2>1, <2>2
<1>5. Below(rk, stack[d], g.ctx)
  BY <1>1, <1>3 DEF Below
<1>6. ~Direct(d, stack[d], Depth + 1)
  BY <1>1 DEF Direct
<1> QED
  BY <1>4, <1>5, <1>6 DEF PairSafe

\* Where the frame on top is in the program bounds how many there are.
LEMMA TopBounded ==
  ASSUME NEW L, NEW K, NEW rk, Saving(L, K, rk)
  PROVE  /\ Top.pc \in Nat /\ Floor(Top) \in Int
         /\ Top.mode \notin DotModes => Depth <= Level(K, Floor(Top))
         /\ Top.mode \in DotModes => /\ Top.tmp \in Nodes /\ rk[Top.tmp] \in 0..K
                                     /\ Floor(Top) = Top.pc
                                     /\ Depth <= Level(K, Top.pc) + rk[Top.tmp]
         /\ Depth <= Level(K, Floor(Top)) + K
<1>1. Top.pc \in Nat /\ K \in Nat /\ Depth \in Nat /\ rk \in [Nodes -> 0..K]
      /\ FrameSafe(call, K, rk, heap, Depth, Top)
  BY SavingTop, FrameFields
<1>2. Floor(Top) \in Int
  BY <1>1 DEF Floor
<1>3. Level(K, Floor(Top)) \in Int
  BY <1>1, <1>2, Levels
<1>4. Top.mode \in DotModes => Top.tmp \in Nodes /\ Floor(Top) = Top.pc
  BY <1>1 DEF FrameSafe, Ranking, Holding, Floor, DotModes
<1> QED
  BY <1>1, <1>2, <1>3, <1>4 DEF FrameSafe, Bounded

\* A frame that moves on: at an instruction, in a sub-path, or in a GET_ALL.
LEMMA MovesOn ==
  ASSUME NEW L, NEW K, NEW rk, Saving(L, K, rk), NEW f, f.mode \in {"inst", "subpath", "all", "all_back"},
         f.mode = "all_back" => Ranking(rk, f),
         Alive(heap, f.tmp), NEW d \in Int, f.pc \in Nat,
         \/ d <= Depth /\ Floor(Top) <= f.pc /\ Top.mode \notin DotModes
         \/ d <= Depth + 1 /\ Floor(Top) < f.pc
  PROVE  FrameSafe(call, K, rk, heap, d, f)
<1>1. K \in Nat /\ Depth \in Nat /\ Floor(Top) \in Int /\ f.pc \in Int
  BY SavingTop, TopBounded
<1>2. d <= Level(K, f.pc)
  <2>1. Level(K, f.pc) \in Int /\ Level(K, Floor(Top)) \in Int
    BY <1>1, LevelType
  <2>2. CASE d <= Depth /\ Floor(Top) <= f.pc /\ Top.mode \notin DotModes
    <3>1. Level(K, Floor(Top)) <= Level(K, f.pc)
      BY <1>1, <2>2, Levels
    <3> QED
      BY <1>1, <2>1, <2>2, <3>1, TopBounded
  <2>3. CASE d <= Depth + 1 /\ Floor(Top) < f.pc
    <3>1. Level(K, Floor(Top)) + K + 1 <= Level(K, f.pc)
      BY <1>1, <2>3, Levels
    <3> QED
      BY <1>1, <2>1, <2>3, <3>1, TopBounded
  <2> QED
    BY <2>2, <2>3
<1>3. Floor(f) = f.pc
  BY DEF Floor
<1>4. f.mode \notin DotModes \cup ClauseModes \cup Counting \cup Stepping
      /\ f.mode \notin {"descend", "dot_back", "range_back", "dot_return"}
  BY DEF DotModes, ClauseModes, Counting, Stepping
<1>5. f.mode # "all_back" => f.mode \notin Holding \cup Fetched
  BY DEF Holding, Fetched, LoopBacks, DotModes, ClauseModes
<1>6. Living(call, heap, f)
  BY <1>4 DEF Living
<1>7. Ranking(rk, f)
  BY <1>5 DEF Ranking
<1>8. Bounded(K, rk, d, f)
  <2>1. d <= Level(K, f.pc) + 0
    BY <1>1, <1>2, LevelType
  <2> QED
    BY <1>3, <1>4, <2>1 DEF Bounded
<1>9. InStep(call, f)
  BY <1>4 DEF InStep
<1> QED
  BY <1>6, <1>7, <1>8, <1>9 DEF FrameSafe

--------------------------------------------------------------------------------
(***************************************************************************)
(* ROOT, SWITCH_ROOT, TYPECHECK, and what the switch has no case for.      *)
(***************************************************************************)

\* Nothing can be removed from what a filter loops over, or from nowhere, when
\* the next instruction stays where it is.
LEMMA NothingAtStake ==
  ASSUME NEW L, NEW K, NEW rk, Saving(L, K, rk), Removing(call, Top),
         \/ Top.mode = "skip"
         \/ Top.mode = "inst" /\ Is(prog, Top.pc, Stays)
  PROVE  /\ Top.ctx = NULL => Top.ci.type = "NONE"
         /\ \A d \in 1..(Depth - 1) :
              Direct(d, stack[d], Depth) /\ stack[d].mode = "filter_back" /\ be = "python"
                => Top.ctx # stack[d].tmp
<1>1. OwnSafe(call, heap, Top) /\ Top.mode \in Pending /\ Top.pc \in Nat /\ call \in Calls
      /\ Laid(prog, L)
  BY SavingTop, TopBounded DEF Pending
<1>2. ASSUME Top.ctx = NULL, Top.ci.type # "NONE"
      PROVE  FALSE
  <2>1. Top.mode = "inst" /\ Is(prog, Top.pc - 1, {"GET_UNION", "UNION_JMP"})
    BY <1>1, <1>2 DEF OwnSafe, AtMember, prog
  <2>2. Top.pc - 1 \in DOMAIN prog /\ (Top.pc - 1) + 1 = Top.pc
    BY <1>1, <2>1, CellsInside, LayoutTypes
  <2>3. MembersSelect(prog)
    BY SavingTop DEF Survives, ReadsOnly, RemovesSafely, Removing, FindOps, prog
  <2> QED
    BY <2>1, <2>2, <2>3 DEF MembersSelect
<1>3. ASSUME NEW d \in 1..(Depth - 1), Direct(d, stack[d], Depth),
             stack[d].mode = "filter_back", be = "python", Top.ctx = stack[d].tmp
      PROVE  FALSE
  <2>1. PairSafe(call, rk, d, stack[d], Depth, Top) /\ d \in 1..Depth /\ stack[d].own = 0
    <3>1. PairSafe(call, rk, d, stack[d], Depth, Top) /\ d \in 1..Depth /\ Depth \in 1..Depth /\ d < Depth
      BY SavingTop DEF Succeeds
    <3>2. stack[d] \in Frame /\ SubpathsOnTop
      BY <3>1, SavingTop DEF IInv
    <3>3. ~(stack[d].own > 0)
      BY <3>1, <3>2, SavingTop DEF SubpathsOnTop, Removing
    <3> QED
      BY <3>1, <3>2, <3>3, FrameFields
  <2>2. Top.mode # "skip" /\ Top.pc = stack[d].ow
    BY <1>1, <1>3, <2>1 DEF PairSafe, be
  <2>3. OwnSafe(call, heap, stack[d])
    BY <2>1, SavingTop
  <2>4. ~Is(prog, stack[d].ow, Stays)
    BY <1>3, <2>1, <2>3 DEF OwnSafe, Removing, prog, be
  <2> QED
    BY <2>2, <2>4
<1> QED
  BY <1>2, <1>3

\* So the walker may move on.
LEMMA StaySafe ==
  ASSUME NEW L, NEW K, NEW rk, Saving(L, K, rk), call' = call, heap' = heap,
         \/ Top.mode = "skip"
         \/ Top.mode = "inst" /\ Is(prog, Top.pc, Stays),
         NEW f, Go(f), f.mode \in {"inst", "skip"}, f.own = Top.own, f.tmp = Top.tmp, f.ctx = Top.ctx,
         f.inctx = Top.inctx, f.ci = Top.ci, f.pc \in Nat, f.pc >= Top.pc,
         f.mode = "inst" => f.pc # 1,
         f.mode = "skip" => InStep(call, f)
  PROVE  StaysSafe(K, rk)
<1>1. OwnSafe(call, heap, f)
  BY NothingAtStake DEF OwnSafe, Removing
<1>2. Succeeds(rk, f)
  <2> SUFFICES ASSUME NEW d \in 1..(Depth - 1), Removing(call, f)
               PROVE  PairSafe(call, rk, d, stack[d], Depth, f)
    BY DEF Succeeds, PairSafe
  <2>1. PairSafe(call, rk, d, stack[d], Depth, Top) /\ Removing(call, Top)
    BY SavingTop DEF Succeeds, Removing
  <2>2. ~(Direct(d, stack[d], Depth) /\ stack[d].mode = "filter_back" /\ call.be = "python"
          /\ Top.ctx = stack[d].tmp)
    BY <2>1, NothingAtStake DEF be
  <2> QED
    BY <2>1, <2>2 DEF PairSafe
<1>3. FrameSafe(call, K, rk, heap, Depth, f)
  <2>1. Floor(Top) = Top.pc /\ Top.mode \notin DotModes /\ Alive(heap, f.tmp) /\ Depth \in Int
    BY SavingTop DEF Floor, DotModes, FrameSafe, Living
  <2>2. CASE f.mode = "inst"
    BY <2>1, <2>2, MovesOn
  <2>3. CASE f.mode = "skip"
    <3>1. K \in Nat /\ Floor(f) = f.pc /\ Top.pc \in Nat
      BY <2>3, SavingTop, TopBounded DEF Floor
    <3>2. Level(K, Top.pc) <= Level(K, f.pc) /\ Level(K, Top.pc) \in Int /\ Level(K, f.pc) \in Int
      <4>1. Top.pc \in Int /\ f.pc \in Int /\ Top.pc <= f.pc
        BY <3>1
      <4> QED
        BY <3>1, <4>1, Levels, LevelType
    <3>3. Depth <= Level(K, f.pc)
      BY <2>1, <3>2, TopBounded
    <3>4. f.mode \notin DotModes \cup ClauseModes \cup Counting \cup Holding \cup Fetched
          /\ f.mode \notin {"descend", "dot_back", "range_back", "dot_return"}
      BY <2>3 DEF DotModes, ClauseModes, Counting, Holding, Fetched, LoopBacks
    <3>5. Living(call, heap, f) /\ Ranking(rk, f)
      BY <2>1, <3>4 DEF Living, Ranking
    <3>6. Bounded(K, rk, Depth, f)
      BY <2>1, <3>1, <3>2, <3>3, <3>4 DEF Bounded
    <3> QED
      BY <2>3, <3>5, <3>6 DEF FrameSafe
  <2> QED
    BY <2>2, <2>3
<1> QED
  BY <1>1, <1>2, <1>3, GoSafe

\* A remove takes a root at the start of the program only.
LEMMA RootFirst ==
  ASSUME NEW L, NEW K, NEW rk, Saving(L, K, rk), Removing(call, Top), Top.mode = "inst",
         Is(prog, Top.pc, RootOps)
  PROVE  Top.pc = 1 /\ Depth = 1 /\ Top.ci = NoInfo
<1>1. SingleRoot(prog, L)
  BY SavingTop DEF Survives, ReadsOnly, RemovesSafely, Removing, FindOps, prog
<1>2. OnPath(L, Aim(L), Top.pc) /\ Aim(L) = L.exit[1]
  BY SavingTop, WalkingTop DEF Placed, Aim, Goal, Removing
<1>3. Top.pc = 1
  BY <1>1, <1>2 DEF SingleRoot, OnPath
<1>4. Depth <= Level(K, 1)
  BY <1>3, TopBounded DEF Floor, DotModes
<1>5. Level(K, 1) = 1
  BY SavingTop DEF Level
<1> QED
  BY <1>3, <1>4, <1>5, SavingTop DEF OwnSafe

LEMMA PlainSafe ==
  ASSUME NEW L, NEW K, NEW rk, Saving(L, K, rk), heap' = heap,
         Root \/ SwitchRoot \/ TypeCheck \/ Unimplemented
  PROVE  StaysSafe(K, rk)
<1>1. call' = call
  BY DEF Root, SwitchRoot, TypeCheck, Unimplemented
<1>2. Top \in Frame /\ Top.pc \in Nat /\ Depth \in Nat \ {0} /\ call \in Calls
  BY SavingTop, TopBounded
<1>3. ASSUME NEW root \in Pinned, Top.mode = "inst", Is(prog, Top.pc, RootOps), Go(AtRoot(Top, root))
      PROVE  StaysSafe(K, rk)
  <2> DEFINE f == AtRoot(Top, root)
  <2>1. /\ f.mode = "inst" /\ f.own = Top.own /\ f.tmp = root /\ f.ctx = NULL
        /\ f.pc = Top.pc + 1 /\ f.ci = Top.ci
    BY <1>2, <1>3 DEF AtRoot, Frame
  <2> HIDE DEF f
  <2>2. Alive(heap, root)
    BY SavingTop DEF Document
  <2>3. Floor(Top) = Top.pc /\ Top.mode \notin DotModes
    BY <1>3 DEF Floor, DotModes
  <2>4. FrameSafe(call, K, rk, heap, Depth, f)
    BY <1>2, <2>1, <2>2, <2>3, MovesOn
  <2>5. Removing(call, f) => Top.pc = 1 /\ Depth = 1 /\ f.ci = NoInfo
    BY <1>3, <2>1, RootFirst DEF Removing
  <2>6. OwnSafe(call, heap, f)
    BY <2>1, <2>5 DEF OwnSafe, NoInfo
  <2>7. Succeeds(rk, f)
    BY <2>5 DEF Succeeds, PairSafe
  <2> QED
    BY <1>1, <1>3, <2>4, <2>6, <2>7, GoSafe DEF f
<1>4. CASE Root
  <2>1. \/ Leave(Count(1))
        \/ Fail
        \/ Top.mode = "inst" /\ Is(prog, Top.pc, RootOps) /\ Go(AtRoot(Top, call.root))
    BY <1>4 DEF Root, At_, In, Here, Code, Is, RootOps
  <2> QED
    BY <1>1, <1>3, <2>1, ReturnSafe, FailSafe DEF Pinned
<1>5. CASE SwitchRoot
  <2>1. \/ Fail
        \/ /\ Top.mode = "inst" /\ Is(prog, Top.pc, RootOps) /\ Here.num < Len(call.extras)
           /\ Go(AtRoot(Top, call.extras[Here.num + 1]))
    BY <1>5 DEF SwitchRoot, At_, In, Here, Code, Is, RootOps
  <2>2. Here.num < Len(call.extras) => call.extras[Here.num + 1] \in Pinned
    <3>1. call.extras \in Seq(Nodes) /\ Here.num \in Nat
      BY <1>2, CallAssumption, CodeType DEF Here
    <3>2. Here.num < Len(call.extras) => Here.num + 1 \in DOMAIN call.extras
      BY <3>1
    <3> QED
      BY <3>2 DEF Pinned
  <2> QED
    BY <1>1, <1>3, <2>1, <2>2, FailSafe
<1>6. CASE TypeCheck
  <2> DEFINE f == [Top EXCEPT !.pc = Top.pc + 1]
  <2>1. \/ Leave(None)
        \/ Top.mode = "inst" /\ Is(prog, Top.pc, Stays) /\ Go(f)
    BY <1>6 DEF TypeCheck, At_, In, Here, Code, Is, Stays
  <2>2. /\ f.mode = Top.mode /\ f.own = Top.own /\ f.tmp = Top.tmp /\ f.ctx = Top.ctx
        /\ f.inctx = Top.inctx /\ f.ci = Top.ci /\ f.pc = Top.pc + 1
    BY <1>2 DEF Frame
  <2>3. Is(prog, Top.pc, Stays) => Top.pc # 0
    <3>1. "OUTSIDE" \notin Stays
      BY DEF Stays, Endish
    <3> QED
      BY <1>2, <3>1, CellsInside
  <2> HIDE DEF f
  <2> QED
    BY <1>1, <1>2, <2>1, <2>2, <2>3, ReturnSafe, StaySafe
<1>7. CASE Unimplemented
  BY <1>1, <1>7, FailSafe DEF Unimplemented
<1> QED
  BY <1>4, <1>5, <1>6, <1>7

--------------------------------------------------------------------------------
(***************************************************************************)
(* Who writes.                                                             *)
(***************************************************************************)

\* Only a removal does.
LEMMA HeapKept ==
  ASSUME NEW L, NEW K, NEW rk, Saving(L, K, rk), Next, ~ReturnRemove
  PROVE  heap' = heap
<1>1. Op(Top) # "update_or_create" /\ Op(Top) \notin CreateOps
  BY SavingTop DEF CreateOps
<1>2. Op(Top) \in CallbackOps => "set" \notin call.effects
  <2>1. CASE Op(Top) \in CallbackOps
    <3>1. call.op \in CallbackOps /\ call.op \notin FindOps \cup {"remove"} /\ call.op = "callback"
      BY <1>1, <2>1 DEF Op, CallbackOps, CreateOps, FindOps
    <3> QED
      BY <3>1, SavingTop DEF Survives, ReadsOnly, RemovesSafely
  <2> QED
    BY <2>1
<1>3. ASSUME NEW kind, NEW ci, NEW at, Getter(Top, kind, ci, at)
      PROVE  heap' = heap
  <2>1. PreGet(Top, kind, ci).h = heap
    BY <1>1 DEF PreGet
  <2> QED
    BY <1>3, <2>1 DEF Getter
<1>4. ASSUME NEW kind, NEW loop, PreLoop(Top, kind, loop)
      PROVE  heap' = heap
  BY <1>1, <1>4 DEF PreLoop
<1>5. CASE Begin \/ Finished
  BY <1>5 DEF Begin, Finished, vars
<1>6. CASE ReturnFound \/ ReturnUpdate
  BY <1>1, <1>6 DEF ReturnFound, ReturnUpdate
<1>7. CASE ReturnCallback
  BY <1>2, <1>7 DEF ReturnCallback
<1>8. CASE Root \/ SwitchRoot \/ TypeCheck \/ Unimplemented
  BY <1>1, <1>8 DEF Root, SwitchRoot, TypeCheck, Unimplemented, Data
<1>9. CASE Getting
  BY <1>3, <1>9 DEF Getting, GetObj, GetArray, ScanForOr, GetSubpath, AfterSubpath, Data
<1>10. CASE GetAll \/ Filter
  BY <1>4, <1>10 DEF GetAll, Filter
<1>11. CASE AllElement \/ AllBack \/ GetRange \/ RangeElement \/ RangeBack
  BY <1>11 DEF AllElement, AllBack, GetRange, RangeElement, RangeBack, Data
<1>12. CASE FindAll \/ DotElement \/ DotBack \/ Descend \/ DotReturn
  BY <1>12 DEF FindAll, DotElement, DotBack, Descend, DotReturn, Data
<1>13. CASE FilterElement \/ Crawl \/ Match \/ AfterOperand \/ FilterBack
  BY <1>13 DEF FilterElement, Crawl, Match, AfterOperand, FilterBack, Data
<1>14. CASE Union
  BY <1>14 DEF Union, GetUnion, AfterMember, NextMember, UnionJmp, SkipUnion, UnionEnd, Data
<1> QED
  BY <1>5, <1>6, <1>7, <1>8, <1>9, <1>10, <1>11, <1>12, <1>13, <1>14
     DEF Next, Return, Looping, Filtering

--------------------------------------------------------------------------------
(***************************************************************************)
(* Getters.                                                                *)
(***************************************************************************)

\* An operation that creates nothing gets from what is there.
LEMMA PreGetFrame ==
  ASSUME NEW f \in Frame, NEW kind, NEW ci, Op(f) \notin CreateOps
  PROVE  LET e == PreGet(f, kind, ci) IN
         /\ e.ok /\ e.h = heap
         /\ e.f.tmp = f.tmp /\ e.f.ctx = (IF f.tmp # NULL THEN f.tmp ELSE f.ctx)
         /\ e.f.inctx = f.inctx /\ e.f.own = f.own /\ e.f.rl = f.rl
         /\ Op(f) = "remove" => e.f.ci = f.ci
<1> DEFINE g == IF f.tmp # NULL THEN [f EXCEPT !.ctx = f.tmp] ELSE f
<1>1. /\ g \in [DOMAIN f -> {g[x] : x \in DOMAIN g}]
      /\ g.tmp = f.tmp /\ g.ctx = (IF f.tmp # NULL THEN f.tmp ELSE f.ctx)
      /\ g.inctx = f.inctx /\ g.own = f.own /\ g.rl = f.rl /\ g.ci = f.ci
      /\ {"tmp", "ctx", "inctx", "own", "rl", "ci"} \subseteq DOMAIN g
  BY DEF Frame
<1>2. CASE Op(f) = "callback"
  <2>1. PreGet(f, kind, ci) = [ok |-> TRUE, h |-> heap,
                               f |-> [g EXCEPT !.ci = InfoSet(heap, g.ctx, ci.key, ci.idx)]]
    BY <1>2 DEF PreGet
  <2> HIDE DEF g
  <2> QED
    BY <1>1, <1>2, <2>1
<1>3. CASE Op(f) # "callback"
  <2>1. PreGet(f, kind, ci) = [ok |-> TRUE, h |-> heap, f |-> g]
    BY <1>3 DEF PreGet
  <2> HIDE DEF g
  <2> QED
    BY <1>1, <2>1
<1> QED
  BY <1>2, <1>3

\* A frame that goes cell by cell.
LEMMA StepsOn ==
  ASSUME NEW L, NEW K, NEW rk, Saving(L, K, rk), NEW f, f.mode \in Stepping, Alive(heap, f.tmp),
         f.pc \in Nat, Floor(Top) <= Floor(f), Top.mode \notin DotModes, InStep(call, f)
  PROVE  FrameSafe(call, K, rk, heap, Depth, f)
<1>1. K \in Nat /\ Floor(f) \in Int /\ Floor(Top) \in Int /\ Depth \in Nat
  BY SavingTop, TopBounded DEF Floor
<1>2. Level(K, Floor(Top)) <= Level(K, Floor(f)) /\ Level(K, Floor(Top)) \in Int
      /\ Level(K, Floor(f)) \in Int
  BY <1>1, Levels
<1>3. Depth <= Level(K, Floor(f))
  BY <1>1, <1>2, TopBounded
<1>4. f.mode \notin DotModes \cup ClauseModes \cup Counting \cup Holding \cup Fetched
      /\ f.mode \notin {"descend", "dot_back", "range_back", "dot_return"}
  BY DEF Stepping, DotModes, ClauseModes, Counting, Holding, Fetched, LoopBacks
<1>5. Living(call, heap, f) /\ Ranking(rk, f)
  BY <1>4 DEF Living, Ranking
<1>6. Bounded(K, rk, Depth, f)
  BY <1>1, <1>2, <1>3, <1>4 DEF Bounded
<1> QED
  BY <1>5, <1>6 DEF FrameSafe

\* What is found is below the container; what is not is looked for no more.
LEMMA GetterSafe ==
  ASSUME NEW L, NEW K, NEW rk, Saving(L, K, rk), call' = call, heap' = heap,
         Top.mode \in {"inst", "subpath"}, NEW kind, NEW ci \in ChildInfo, NEW at \in Nat,
         OnPath(L, Aim(L), at + 1), Top.pc <= at, at # 0, Getter(Top, kind, ci, at)
  PROVE  StaysSafe(K, rk)
<1> DEFINE e == PreGet(Top, kind, ci)
           v == Refetch(heap, Top.tmp, ci)
           x == IF Top.tmp # NULL THEN Top.tmp ELSE Top.ctx
<1>1. /\ e.ok /\ e.h = heap /\ e.f.tmp = Top.tmp /\ e.f.ctx = x
      /\ e.f.inctx = Top.inctx /\ e.f.own = Top.own /\ e.f \in Frame
      /\ Op(Top) = "remove" => e.f.ci = Top.ci
  <2>1. Top \in Frame /\ Op(Top) \notin CreateOps
    BY SavingTop
  <2>2. e.f \in Frame
    <3>1. CASE Op(Top) = "callback"
      <4>1. e.f = [IF Top.tmp # NULL THEN [Top EXCEPT !.ctx = Top.tmp] ELSE Top
                    EXCEPT !.ci = InfoSet(heap, (IF Top.tmp # NULL THEN [Top EXCEPT !.ctx = Top.tmp]
                                                 ELSE Top).ctx, ci.key, ci.idx)]
        BY <3>1 DEF PreGet, CreateOps
      <4>2. ci.key \in Text /\ ci.idx \in Int
        BY DEF ChildInfo
      <4>3. (IF Top.tmp # NULL THEN [Top EXCEPT !.ctx = Top.tmp] ELSE Top) \in Frame
        BY <2>1 DEF Frame
      <4>4. \A n : InfoSet(heap, n, ci.key, ci.idx) \in ChildInfo
        BY <4>2, InfoType
      <4>5. \A g \in Frame, i \in ChildInfo : [g EXCEPT !.ci = i] \in Frame
        BY DEF Frame
      <4> QED
        BY <4>1, <4>3, <4>4, <4>5
    <3>2. CASE Op(Top) # "callback"
      <4>1. e.f = IF Top.tmp # NULL THEN [Top EXCEPT !.ctx = Top.tmp] ELSE Top
        BY <2>1, <3>2 DEF PreGet
      <4> QED
        BY <2>1, <4>1 DEF Frame
    <3> QED
      BY <3>1, <3>2
  <2> QED
    BY <2>1, <2>2, PreGetFrame
<1> HIDE DEF e
<1>2. \E f : /\ Go(f) /\ f.tmp = v /\ f.pc = at + 1 /\ f.ctx = x /\ f.inctx = Top.inctx
             /\ f.own = Top.own /\ f.mode = IF v = NULL THEN "scan" ELSE "inst"
  <2> DEFINE g == [e.f EXCEPT !.tmp = Refetch(e.h, e.f.tmp, ci), !.pc = at + 1, !.mode = "inst"]
             f == CASE Refetch(e.h, e.f.tmp, ci) = NULL /\ Op(Top) \notin CreateOps -> [g EXCEPT !.mode = "scan"]
                    [] Refetch(e.h, e.f.tmp, ci) # NULL /\ Op(Top) = "remove"       -> [g EXCEPT !.ci = ci]
                    [] OTHER                              -> g
  <2>1. Go(f)
    BY <1>1 DEF Getter, e
  <2>2. /\ g.tmp = v /\ g.pc = at + 1 /\ g.ctx = x /\ g.inctx = Top.inctx /\ g.own = Top.own
        /\ g.mode = "inst" /\ g \in [DOMAIN e.f -> {g[y] : y \in DOMAIN g}] /\ DOMAIN e.f = DOMAIN g
        /\ {"tmp", "pc", "ctx", "inctx", "own", "mode", "ci"} \subseteq DOMAIN g
    BY <1>1 DEF Frame
  <2>3. f = IF v = NULL THEN [g EXCEPT !.mode = "scan"]
            ELSE IF Op(Top) = "remove" THEN [g EXCEPT !.ci = ci] ELSE g
    BY <1>1, SavingTop
  <2> HIDE DEF g
  <2>4. /\ f.tmp = v /\ f.pc = at + 1 /\ f.ctx = x /\ f.inctx = Top.inctx
        /\ f.own = Top.own /\ f.mode = IF v = NULL THEN "scan" ELSE "inst"
    BY <2>2, <2>3
  <2> QED
    BY <2>1, <2>4
<1>3. PICK f : /\ Go(f) /\ f.tmp = v /\ f.pc = at + 1 /\ f.ctx = x /\ f.inctx = Top.inctx
               /\ f.own = Top.own /\ f.mode = IF v = NULL THEN "scan" ELSE "inst"
  BY <1>2
<1>4. /\ Alive(heap, v)
      /\ v # NULL => Top.tmp \in Nodes
      /\ v \in Nodes => rk[Top.tmp] < rk[v]
      /\ Top.tmp \in ValueSet /\ NULL \notin Nodes /\ rk \in [Nodes -> 0..K] /\ K \in Nat
  BY FoundIsBelow, SavingTop, FrameFields
<1>5. Floor(Top) = Top.pc /\ Top.mode \notin DotModes /\ Top.pc \in Nat
  BY TopBounded DEF Floor, DotModes
<1>6. FrameSafe(call, K, rk, heap, Depth, f)
  <2>1. CASE v # NULL
    <3>1. f.mode = "inst" /\ f.pc \in Nat /\ Floor(Top) <= f.pc /\ Depth \in Int /\ Depth <= Depth
      BY <1>3, <1>5, <2>1, SavingTop
    <3> QED
      BY <1>3, <1>4, <1>5, <3>1, MovesOn
  <2>2. CASE v = NULL
    <3>1. f.mode = "scan" /\ f.pc \in Nat /\ Floor(f) = f.pc /\ Floor(Top) <= Floor(f)
      BY <1>3, <1>5, <2>2 DEF Floor
    <3>2. ~Is(prog, f.pc, {"LEN"})
      <4>1. Is(prog, at + 1, Executable \cup Endish)
        BY SavingTop, PathEnds
      <4> QED
        BY <1>3, <4>1 DEF Is, Executable, Endish, Getters, FilterOps
    <3>3. InStep(call, f)
      BY <3>2 DEF InStep, prog
    <3> QED
      BY <1>3, <1>4, <1>5, <3>1, <3>3, StepsOn DEF Stepping
  <2> QED
    BY <2>1, <2>2
<1>7. OwnSafe(call, heap, f)
  <2>1. f.mode = "inst" => f.ctx # NULL /\ f.pc # 1
    BY <1>3, <1>4
  <2> QED
    BY <1>3, <2>1 DEF OwnSafe, Pending
<1>8. Succeeds(rk, f)
  <2>1. CASE Top.tmp = NULL
    <3>1. v = NULL
      BY <1>4, <2>1
    <3> QED
      BY <1>3, <2>1, <3>1, SameSucceeds DEF Pending
  <2>2. CASE Top.tmp # NULL
    <3>1. Top.tmp \in Nodes /\ f.ctx = Top.tmp
      BY <1>3, <1>4, <2>2 DEF ValueSet
    <3>2. f.tmp \in Nodes => rk[Top.tmp] <= rk[f.tmp]
      <4>1. \A n \in Nodes : rk[n] \in Nat
        BY <1>4
      <4> QED
        BY <1>3, <1>4, <3>1, <4>1
    <3> QED
      BY <1>3, <3>1, <3>2, DeeperSucceeds
  <2> QED
    BY <2>1, <2>2
<1> QED
  BY <1>3, <1>6, <1>7, <1>8, GoSafe

\* A walk cell by cell is not lost, and stays in step.
LEMMA InStepTop ==
  ASSUME NEW L, NEW K, NEW rk, Saving(L, K, rk), Top.mode \in Stepping, Top.pc \in 1..Len(prog)
  PROVE  /\ ~Lost(Here)
         /\ \A f : f.pc = NextInst(prog, Top.pc) => InStep(call, f)
<1> DEFINE q == Top.pc
<1>1. call \in Calls /\ Laid(prog, L) /\ LengthsRead(prog) /\ InStep(call, Top) /\ q \in Nat
      /\ DOMAIN prog = 1..Len(prog) /\ Len(prog) \in Nat
  BY SavingTop, LayoutTypes, TopBounded DEF Survives, FrameSafe, prog
<1>2. CellLaid(prog, L, q)
  BY <1>1 DEF Laid
<1>3. ~Lost(Here)
  <2>1. ~Is(prog, q, {"OUTSIDE"})
        /\ (Is(prog, q, {"LEN"}) => Is(prog, q - 1, WideOps) \/ CellAt(prog, q).num \in OneByte \cup {4, 20})
    BY <1>1 DEF LengthsRead
  <2>2. Is(prog, q, {"LEN"}) => ~Is(prog, q - 1, WideOps)
    BY <1>1 DEF InStep, prog
  <2>3. Here = CellAt(prog, q) /\ Outside.inst = "OUTSIDE"
    BY DEF Here, Code, Outside, Cell
  <2> QED
    BY <2>1, <2>2, <2>3 DEF Lost, Is
<1>4. ASSUME NEW f, f.pc = NextInst(prog, q)
      PROVE  InStep(call, f)
  <2>1. CASE Is(prog, q, WideOps)
    <3>1. f.pc = q + 2 /\ Is(prog, q + 1, {"LEN"}) /\ f.pc - 1 = q + 1
      BY <1>1, <1>2, <1>4, <2>1 DEF NextInst, Is, CellLaid
    <3>2. ~Is(prog, f.pc - 1, WideOps)
      BY <3>1 DEF Is, WideOps, FilterOps
    <3> QED
      BY <3>2 DEF InStep, prog
  <2>2. CASE Is(prog, q, {"LEN"}) /\ CellAt(prog, q).num \in {4, 20}
    <3>1. f.pc = q + 2 /\ Is(prog, q + 1, {"GET_OBJ"}) /\ f.pc - 1 = q + 1
      BY <1>1, <1>2, <1>4, <2>2 DEF NextInst, Is, CellLaid
    <3>2. ~Is(prog, f.pc - 1, WideOps)
      BY <3>1 DEF Is, WideOps, FilterOps
    <3> QED
      BY <3>2 DEF InStep, prog
  <2>3. CASE ~Is(prog, q, WideOps) /\ ~(Is(prog, q, {"LEN"}) /\ CellAt(prog, q).num \in {4, 20})
    <3>1. f.pc = q + 1 /\ f.pc - 1 = q
      BY <1>1, <1>4, <2>3 DEF NextInst, Is
    <3> QED
      BY <2>3, <3>1 DEF InStep, prog
  <2> QED
    BY <2>1, <2>2, <2>3
<1> QED
  BY <1>3, <1>4

\* There is room for a frame that is in the program.
LEMMA RoomFor ==
  ASSUME NEW L, NEW K, NEW rk, Saving(L, K, rk), NEW d \in Int, NEW g, g.pc \in Nat,
         FrameSafe(call, K, rk, heap, d, g), Floor(g) <= Len(prog)
  PROVE  d <= Room(call, K)
<1>1. K \in Nat /\ rk \in [Nodes -> 0..K] /\ Len(prog) \in Nat /\ Floor(g) \in Int
  BY SavingTop, LayoutTypes DEF Floor
<1>2. Level(K, Floor(g)) \in Int /\ Level(K, Len(prog)) \in Int
      /\ Level(K, Floor(g)) <= Level(K, Len(prog))
      /\ Level(K, Len(prog)) + K = (K + 1) * Len(prog)
  <2>1. Len(prog) \in Int
    BY <1>1
  <2>2. Level(K, Floor(g)) <= Level(K, Len(prog))
    BY <1>1, <2>1, Levels
  <2> QED
    BY <1>1, <2>1, <2>2, Levels
<1>3. g.mode \in DotModes => g.tmp \in Nodes
  BY DEF FrameSafe, Ranking, Holding, DotModes
<1>4. d <= Level(K, Floor(g)) + K
  <2>1. CASE g.mode \in DotModes
    <3>1. d <= Level(K, Floor(g)) + rk[g.tmp] /\ rk[g.tmp] \in 0..K
      BY <1>1, <1>3, <2>1 DEF FrameSafe, Bounded
    <3> QED
      BY <1>1, <1>2, <3>1
  <2>2. CASE g.mode \notin DotModes
    <3>1. d <= Level(K, Floor(g)) + 0
      BY <2>2 DEF FrameSafe, Bounded
    <3> QED
      BY <1>1, <1>2, <3>1
  <2> QED
    BY <2>1, <2>2
<1>5. Room(call, K) = Level(K, Len(prog)) + K
  BY <1>2 DEF Room, prog
<1> QED
  BY <1>1, <1>2, <1>4, <1>5

\* A sub-path starts from the root, and reads only.
LEMMA SubpathSafe ==
  ASSUME NEW L, NEW K, NEW rk, Saving(L, K, rk), call' = call, heap' = heap, NEW f \in Frame,
         FrameSafe(call, K, rk, heap, Depth, f), OwnSafe(call, heap, f), Succeeds(rk, f),
         NEW at \in Nat, Floor(Top) <= at, at + 1 <= Len(prog),
         Enter(f, NewFrame(at + 1, call.root, NULL, NoInfo, Depth))
  PROVE  StaysSafe(K, rk)
<1> DEFINE g == NewFrame(at + 1, call.root, NULL, NoInfo, Depth)
<1>1. /\ g.mode = "inst" /\ g.pc = at + 1 /\ g.tmp = call.root /\ g.own = Depth
      /\ g \in Frame /\ Depth \in Nat \ {0} /\ Depth # 0
  <2>1. call.root \in ValueSet /\ NULL \in ValueSet /\ Depth \in Nat \ {0} /\ NoInfo \in ChildInfo
    BY SavingTop, RunTypes, InfoType
  <2>2. at + 1 \in Nat /\ Depth \in Nat /\ Depth # 0
    BY <2>1
  <2>3. g \in Frame
    BY <2>1, <2>2, NewFrameType
  <2>4. g.mode = "inst" /\ g.pc = at + 1 /\ g.tmp = call.root /\ g.own = Depth
    BY DEF NewFrame
  <2> QED
    BY <2>1, <2>2, <2>3, <2>4
<1> HIDE DEF g
<1>2. ~Removing(call, g)
  BY <1>1 DEF Removing
<1>3. OwnSafe(call, heap, g) /\ PairSafe(call, rk, Depth, f, Depth + 1, g)
      /\ \A d \in 1..(Depth - 1) : PairSafe(call, rk, d, stack[d], Depth + 1, g)
  BY <1>2 DEF OwnSafe, PairSafe
<1>4. FrameSafe(call, K, rk, heap, Depth + 1, g)
  <2>1. Alive(heap, g.tmp)
    BY <1>1, SavingTop DEF Document, Pinned
  <2>2. Depth + 1 <= Depth + 1 /\ Floor(Top) < g.pc /\ g.pc \in Nat /\ Depth + 1 \in Int
    BY <1>1, TopBounded
  <2> QED
    BY <1>1, <2>1, <2>2, MovesOn
<1>5. Depth + 1 <= Room(call, K)
  <2>1. Floor(g) <= Len(prog) /\ g.pc \in Nat /\ Depth + 1 \in Int
    BY <1>1 DEF Floor
  <2> QED
    BY <1>4, <2>1, RoomFor
<1>6. Enter(f, g)
  BY DEF g
<1> QED
  BY <1>1, <1>3, <1>4, <1>5, <1>6, EnterSafe

\* A removal meets no alternative.
LEMMA NoAlternative ==
  ASSUME NEW L, NEW K, NEW rk, Saving(L, K, rk), NEW q, OnPath(L, Aim(L), q),
         NEW r \in q..Aim(L), Is(prog, r, {"OR"})
  PROVE  ~Removing(call, Top)
<1>1. OnPath(L, L.exit[1], r)
  BY SavingTop, OrOutside
<1>2. Removing(call, Top) => SingleRoot(prog, L)
  BY SavingTop DEF Survives, ReadsOnly, RemovesSafely, Removing, FindOps, prog
<1> QED
  BY <1>1, <1>2 DEF SingleRoot, OnPath

LEMMA ScanSafe ==
  ASSUME NEW L, NEW K, NEW rk, Saving(L, K, rk), heap' = heap, ScanForOr
  PROVE  StaysSafe(K, rk)
<1>1. call' = call /\ Top.mode = "scan"
  BY DEF ScanForOr, In
<1>2. Top \in Frame /\ Top.pc \in Nat /\ call \in Calls /\ Laid(prog, L)
      /\ Placed(prog, L, Aim(L), Top) /\ Walking(L)
  BY SavingTop, TopBounded, WalkingTop
<1>3. PICK q \in L.starts : L.exit[q] = Aim(L) /\ q <= Top.pc /\ Top.pc <= Aim(L)
  BY <1>1, <1>2 DEF Placed
<1>4. /\ OnPath(L, Aim(L), q) /\ q \in 1..Len(prog) /\ Aim(L) \in 1..Len(prog)
      /\ Len(prog) \in Nat
  BY <1>2, <1>3, AimEnds, LayoutTypes DEF OnPath
<1>5. Top.pc \in q..Aim(L) /\ Top.pc \in 1..Len(prog)
  BY <1>2, <1>3, <1>4
<1> DEFINE f == [Top EXCEPT !.mode = "inst", !.pc = Top.pc + 1]
           g == [Top EXCEPT !.pc = NextInst(prog, Top.pc)]
<1>6. ~Lost(Here) /\ \A x : x.pc = NextInst(prog, Top.pc) => InStep(call, x)
  BY <1>1, <1>5, InStepTop DEF Stepping
<1>7. \/ Leave(None)
      \/ Is(prog, Top.pc, {"OR"}) /\ Go(f)
      \/ Go(g)
  BY <1>6 DEF ScanForOr, Is, Here, Code
<1>8. f.own = Top.own /\ f.mode = "inst" /\ f.pc = Top.pc + 1 /\ f.tmp = Top.tmp
      /\ g.own = Top.own /\ g.mode = "scan" /\ g.pc = NextInst(prog, Top.pc) /\ g.tmp = Top.tmp
      /\ g.ctx = Top.ctx /\ g.inctx = Top.inctx
  BY <1>1, <1>2 DEF Frame
<1>9. Alive(heap, Top.tmp) /\ Floor(Top) = Top.pc /\ Top.mode \notin DotModes /\ Depth \in Int
  BY <1>1, SavingTop DEF FrameSafe, Living, Floor, DotModes
<1> HIDE DEF f, g
<1>10. CASE Is(prog, Top.pc, {"OR"}) /\ Go(f)
  <2>1. ~Removing(call, f)
    BY <1>4, <1>5, <1>8, <1>10, NoAlternative DEF Removing
  <2>2. OwnSafe(call, heap, f) /\ Succeeds(rk, f)
    BY <2>1 DEF OwnSafe, Succeeds, PairSafe
  <2>3. FrameSafe(call, K, rk, heap, Depth, f)
    BY <1>2, <1>8, <1>9, MovesOn
  <2> QED
    BY <1>1, <1>10, <2>2, <2>3, GoSafe
<1>11. CASE Go(g)
  <2>1. g.pc \in Nat /\ Top.pc <= g.pc
    BY <1>2, <1>8 DEF NextInst
  <2>2. Floor(g) = g.pc /\ InStep(call, g) /\ g.mode \in Stepping
    BY <1>6, <1>8 DEF Floor, Stepping
  <2>3. FrameSafe(call, K, rk, heap, Depth, g)
    BY <1>8, <1>9, <2>1, <2>2, StepsOn
  <2>4. OwnSafe(call, heap, g)
    BY <1>8 DEF OwnSafe, Pending
  <2>5. Succeeds(rk, g)
    BY <1>8, SameSucceeds DEF Pending
  <2> QED
    BY <1>1, <1>11, <2>3, <2>4, <2>5, GoSafe
<1> QED
  BY <1>1, <1>7, <1>10, <1>11, ReturnSafe

LEMMA GettingSafe ==
  ASSUME NEW L, NEW K, NEW rk, Saving(L, K, rk), heap' = heap, Getting
  PROVE  StaysSafe(K, rk)
<1>1. call' = call
  BY DEF Getting, GetObj, GetArray, ScanForOr, GetSubpath, AfterSubpath
<1>2. Top \in Frame /\ Top.pc \in Nat /\ Top.sent \in Nat /\ call \in Calls /\ Laid(prog, L)
      /\ Placed(prog, L, Aim(L), Top) /\ IInv /\ Walking(L) /\ Arrived(L)
  BY SavingTop, WalkingTop, FrameFields
<1>3. Here.key \in Text /\ Here.num \in Nat /\ Here.num \in Int
  BY <1>2, CodeType DEF Here
<1>4. ASSUME At_(Getters)
      PROVE  Top.mode = "inst" /\ OnPath(L, Aim(L), Top.pc + 1) /\ Top.pc # 0
  <2>1. OnPath(L, Aim(L), Top.pc) /\ Is(prog, Top.pc, Getters)
    BY <1>2, <1>4, AtInst
  <2>2. ~Is(prog, Top.pc, FilterOps \cup {"END", "RANGE", "GET_SUBPATH"})
    BY <2>1 DEF Is, FilterOps, Getters
  <2>3. Top.pc \in 1..Len(prog)
    BY <1>2, <2>1, PathEnds
  <2>4. OnPath(L, Aim(L), Top.pc + 1)
    BY <1>2, <2>1, <2>2, GoesOn
  <2>5. Top.pc # 0
    BY <1>2, <2>3
  <2> QED
    BY <1>4, <2>4, <2>5 DEF At_, In
<1>5. CASE GetObj
  <2>1. Getter(Top, "obj", KeyInfo(Here.key), Top.pc) /\ At_(Getters)
    BY <1>5 DEF GetObj, At_, Getters
  <2> QED
    BY <1>1, <1>2, <1>3, <1>4, <2>1, InfoType, GetterSafe
<1>6. CASE GetArray
  <2>1. Getter(Top, "arr", IdxInfo(Here.num), Top.pc) /\ At_(Getters)
    BY <1>6 DEF GetArray, At_, Getters
  <2> QED
    BY <1>1, <1>2, <1>3, <1>4, <2>1, InfoType, GetterSafe
<1>7. CASE ScanForOr
  BY <1>7, ScanSafe
<1>8. CASE GetSubpath
  <2> DEFINE f == [Top EXCEPT !.mode = "subpath", !.sent = Top.pc]
  <2>1. /\ OnPath(L, Aim(L), Top.pc) /\ Is(prog, Top.pc, {"GET_SUBPATH"}) /\ Top.mode = "inst"
        /\ Enter(f, NewFrame(Top.pc + 1, call.root, NULL, NoInfo, Depth))
    BY <1>2, <1>8, AtInst DEF GetSubpath, At_, In
  <2>2. SubpathAt(L, Top.pc + 1)
    BY <1>2, <2>1, GoesOn
  <2>3. Top.pc + 1 <= Len(prog)
    BY <1>2, <2>2, LayoutTypes DEF SubpathAt
  <2>4. /\ f \in Frame /\ f.mode = "subpath" /\ f.pc = Top.pc /\ f.tmp = Top.tmp
        /\ f.ctx = Top.ctx /\ f.inctx = Top.inctx /\ f.own = Top.own /\ f.ci = Top.ci
    BY <1>2 DEF Frame, WaitingModes, SubpathModes
  <2> HIDE DEF f
  <2>5. FrameSafe(call, K, rk, heap, Depth, Top) /\ OwnSafe(call, heap, Top) /\ Depth \in Int
    BY SavingTop
  <2>6. Floor(Top) = Top.pc /\ Top.mode \notin DotModes
    BY <2>1 DEF Floor, DotModes
  <2>7. FrameSafe(call, K, rk, heap, Depth, f)
    BY <1>2, <2>4, <2>5, <2>6, MovesOn DEF FrameSafe, Living
  <2>8. OwnSafe(call, heap, f)
    BY <2>1, <2>4, <2>5 DEF OwnSafe, Removing, Pending, AtMember
  <2>9. Succeeds(rk, f)
    BY <2>1, <2>4, SameSucceeds DEF Pending
  <2> QED
    BY <1>1, <1>2, <2>1, <2>3, <2>4, <2>6, <2>7, <2>8, <2>9, SubpathSafe
<1>9. CASE AfterSubpath
  <2>1. Top.mode = "subpath"
    BY <1>9 DEF AfterSubpath, In
  <2>2. \/ /\ IsNum(be, heap, ret.val)
           /\ Getter(Top, "arr", IdxInfo(heap[ret.val].num), Top.sent)
        \/ /\ IsStr(heap, ret.val)
           /\ Getter(Top, "obj", KeyInfo(heap[ret.val].str), Top.sent)
        \/ Fail
    BY <1>9 DEF AfterSubpath
  <2>3. ASSUME ret.val \in Nodes
        PROVE  /\ heap[ret.val].num \in Int /\ heap[ret.val].str \in Text
               /\ OnPath(L, Aim(L), Top.sent + 1) /\ Top.pc <= Top.sent /\ Top.sent # 0
    <3>1. heap[ret.val].num \in Int /\ heap[ret.val].str \in Text /\ ret.val # NULL
      BY <1>2, <2>3, RunTypes, DocAssumption DEF Heap, Node
    <3>2. Top.sent = L.exit[Top.pc + 1]
      BY <1>2, <2>1, <3>1 DEF Arrived, OperandOf, SubpathModes
    <3>3. OnPath(L, Aim(L), Top.pc) /\ Is(prog, Top.pc, {"GET_SUBPATH"})
      BY <1>2, <2>1 DEF Placed
    <3>4. SubpathAt(L, Top.pc + 1)
      BY <1>2, <3>3, GoesOn
    <3>5. OnPath(L, L.exit[Top.pc + 1], Top.pc + 1)
      BY <3>4 DEF SubpathAt, OnPath
    <3>6. Top.pc + 1 <= L.exit[Top.pc + 1]
      BY <1>2, <3>5, PathEnds
    <3> QED
      BY <1>2, <3>1, <3>2, <3>3, <3>6, GoesOn
  <2>4. CASE /\ IsNum(be, heap, ret.val)
             /\ Getter(Top, "arr", IdxInfo(heap[ret.val].num), Top.sent)
    <3>1. ret.val \in Nodes
      BY <2>4 DEF IsNum, IsBool, IsKind
    <3>2. IdxInfo(heap[ret.val].num) \in ChildInfo
      BY <2>3, <3>1, InfoType
    <3> QED
      BY <1>1, <1>2, <2>1, <2>3, <2>4, <3>1, <3>2, GetterSafe
  <2>5. CASE /\ IsStr(heap, ret.val)
             /\ Getter(Top, "obj", KeyInfo(heap[ret.val].str), Top.sent)
    <3>1. ret.val \in Nodes
      BY <2>5 DEF IsStr, IsKind
    <3>2. KeyInfo(heap[ret.val].str) \in ChildInfo
      BY <2>3, <3>1, InfoType
    <3> QED
      BY <1>1, <1>2, <2>1, <2>3, <2>5, <3>1, <3>2, GetterSafe
  <2> QED
    BY <1>1, <2>2, <2>4, <2>5, FailSafe
<1> QED
  BY <1>5, <1>6, <1>7, <1>8, <1>9 DEF Getting

--------------------------------------------------------------------------------
(***************************************************************************)
(* CSONPATH_REMOVE_CHILD: what is removed is below its container, and what *)
(* is released with it is below it and in nothing that remains.            *)
(***************************************************************************)
\* What goes with w is below it.
LEMMA ReleasedBelow ==
  ASSUME NEW h \in Heap, NEW w \in Nodes, NEW pinned, w \notin pinned,
         NEW K \in Nat, NEW rk \in [Nodes -> 0..K], Ranked(rk, h),
         NEW m \in Released(h, w, pinned)[Parents(h)], m # w
  PROVE  rk[w] < rk[m]
<1> DEFINE below == {p \in Parents(h) \ pinned : p = w \/ rk[w] < rk[p]}
<1>1. w \in Parents(h) /\ Parents(h) \subseteq Nodes
  BY DEF Released, Parents
<1>2. ASSUME NEW c \in Contents(h, below) PROVE rk[w] < rk[c]
  <2>1. PICK p \in below : \E i \in DOMAIN h[p].kids : c = h[p].kids[i].at
    BY <1>2 DEF Contents
  <2>2. c \in Nodes
    BY <1>2 DEF Contents
  <2>3. IsContainer(h, p) /\ p \in Nodes
    BY DEF Parents
  <2>4. rk[p] < rk[c]
    BY <2>1, <2>2, <2>3 DEF Ranked
  <2>5. rk[w] \in Nat /\ rk[p] \in Nat /\ rk[c] \in Nat /\ (p = w \/ rk[w] < rk[p])
    BY <2>2, <2>3
  <2> QED
    BY <2>4, <2>5
<1>3. Closed(h, w, pinned, below)
  <2>1. w \in below /\ below \subseteq Parents(h) \ pinned
    BY <1>1
  <2>2. HeldBy(h, Parents(h), below, pinned) \cap Parents(h) \subseteq below
    <3>1. ASSUME NEW c \in HeldBy(h, Parents(h), below, pinned)
          PROVE  c \in Contents(h, below) /\ c \notin pinned
      BY <3>1 DEF HeldBy
    <3> QED
      BY <1>2, <3>1
  <2> HIDE DEF below
  <2> QED
    BY <2>1, <2>2 DEF Closed
<1> HIDE DEF below
<1>4. m \in HeldBy(h, Parents(h), below, pinned)
  BY <1>3, ReleasedInside
<1> QED
  BY <1>2, <1>4 DEF HeldBy

\* The document g is h with fewer entries in n, or with nulls among them, and
\* without the value of one of them if no other container has it.
FewerKids(h, n, pinned, g) ==
  /\ n \in Nodes /\ IsContainer(h, n)
  /\ \E left, i : LET cut == [h EXCEPT ![n].kids = left] IN
       /\ cut \in Heap /\ i \in DOMAIN h[n].kids
       /\ g = Release(cut, h[n].kids[i].at, pinned)
       /\ \A j \in DOMAIN left :
            \/ left[j].at = NULL
            \/ \E k \in DOMAIN h[n].kids : left[j].at = h[n].kids[k].at

\* What that leaves as it was.
Removed(rk, h, n, pinned, g) ==
  /\ Whole(g) /\ Ranked(rk, g)
  /\ \A m : Alive(h, m) =>
       Alive(g, m) \/ (m \in Nodes /\ m \notin pinned /\ n \in Nodes /\ rk[n] < rk[m])
  /\ \A m : Alive(g, m) => (IsObj(g, m) <=> IsObj(h, m))
  /\ \A m \in Nodes : m # n => Size(g, m) = Size(h, m)

LEMMA RemovedKids ==
  ASSUME NEW b, NEW h \in Heap, NEW n, NEW ci \in ChildInfo, NEW pinned
  PROVE  LET g == RemoveChild(b, h, n, ci, pinned) IN g = h \/ FewerKids(h, n, pinned, g)
<1> DEFINE kids == h[n].kids
           hit  == CASE ci.type = "STR"     -> IF IsObj(h, n) THEN KeyIndex(h, n, ci.key)
                                                              ELSE {}
                     [] ci.type = "INTEGER" -> IF IsArray(h, n)
                                               THEN {ci.idx + 1} \cap DOMAIN kids ELSE {}
                     [] OTHER               -> {}
           i    == CHOOSE j \in hit : TRUE
           left == IF ci.type = "INTEGER" /\ b = "json_c"
                   THEN [kids EXCEPT ![i].at = NULL]
                   ELSE RemoveKid(kids, i)
           cut  == [h EXCEPT ![n].kids = left]
           g    == RemoveChild(b, h, n, ci, pinned)
<1>1. CASE n \notin Nodes \/ hit = {}
  <2>1. g = h
    BY <1>1 DEF RemoveChild
  <2> QED
    BY <2>1
<1>2. CASE n \in Nodes /\ hit # {}
  <2>1. kids \in Seq(Entry) /\ Len(kids) \in Nat /\ DOMAIN kids = 1..Len(kids)
    BY <1>2, KidsType DEF Size
  <2>2. hit \subseteq DOMAIN kids /\ IsContainer(h, n)
    BY <1>2 DEF KeyIndex, IsContainer
  <2>3. i \in DOMAIN kids
    BY <1>2, <2>2
  <2>4. NULL \in ValueSet
    BY DEF ValueSet
  <2>5. g = Release(cut, kids[i].at, pinned)
    BY <1>2 DEF RemoveChild
  <2>6. /\ left \in Seq(Entry)
        /\ \A j \in DOMAIN left :
             \/ left[j].at = NULL
             \/ \E k \in DOMAIN kids : left[j].at = kids[k].at
    <3> HIDE DEF i, kids, hit
    <3>1. RemoveKid(kids, i) \in Seq(Entry)
      BY <2>1, <2>3, RemoveKidType
    <3>2. ASSUME NEW j \in DOMAIN RemoveKid(kids, i)
          PROVE  \E k \in DOMAIN kids : RemoveKid(kids, i)[j].at = kids[k].at
      <4>1. j \in 1..(Len(kids) - 1)
        BY <3>2 DEF RemoveKid
      <4>2. RemoveKid(kids, i)[j] = IF j < i THEN kids[j] ELSE kids[j + 1]
        BY <4>1 DEF RemoveKid
      <4>3. j \in DOMAIN kids /\ j + 1 \in DOMAIN kids
        BY <2>1, <4>1
      <4> QED
        BY <4>2, <4>3
    <3>3. [kids EXCEPT ![i].at = NULL] \in Seq(Entry)
      BY <2>1, <2>4, SetAtType
    <3>4. ASSUME NEW j \in DOMAIN [kids EXCEPT ![i].at = NULL]
          PROVE  \/ [kids EXCEPT ![i].at = NULL][j].at = NULL
                 \/ \E k \in DOMAIN kids : [kids EXCEPT ![i].at = NULL][j].at = kids[k].at
      <4>1. j \in DOMAIN kids /\ kids[j] \in Entry
        BY <2>1, <3>4
      <4>2. CASE j = i
        <5>1. [kids EXCEPT ![i].at = NULL][j] = [kids[j] EXCEPT !.at = NULL]
          BY <2>1, <4>1, <4>2
        <5>2. [kids[j] EXCEPT !.at = NULL].at = NULL
          BY <4>1 DEF Entry
        <5> QED
          BY <5>1, <5>2
      <4>3. CASE j # i
        <5>1. [kids EXCEPT ![i].at = NULL][j] = kids[j]
          BY <2>1, <4>1, <4>3
        <5> QED
          BY <4>1, <5>1
      <4> QED
        BY <4>2, <4>3
    <3> QED
      BY <3>1, <3>2, <3>3, <3>4
  <2> HIDE DEF left, i, hit
  <2>7. cut \in Heap
    BY <2>6, KidsUpdate
  <2> HIDE DEF g
  <2>8. \E x, y : LET c == [h EXCEPT ![n].kids = x] IN
           /\ c \in Heap /\ y \in DOMAIN h[n].kids
           /\ g = Release(c, h[n].kids[y].at, pinned)
           /\ \A j \in DOMAIN x :
                \/ x[j].at = NULL
                \/ \E k \in DOMAIN h[n].kids : x[j].at = h[n].kids[k].at
    BY <2>3, <2>5, <2>6, <2>7
  <2> QED
    BY <1>2, <2>2, <2>8 DEF g, FewerKids
<1> QED
  BY <1>1, <1>2

LEMMA RemovalEffect ==
  ASSUME NEW b, NEW h \in Heap, NEW n, NEW ci \in ChildInfo, NEW pinned, NEW K \in Nat,
         NEW rk \in [Nodes -> 0..K], Whole(h), Ranked(rk, h)
  PROVE  Removed(rk, h, n, pinned, RemoveChild(b, h, n, ci, pinned))
<1> DEFINE g == RemoveChild(b, h, n, ci, pinned)
<1>1. CASE g = h
  <2> HIDE DEF g
  <2>1. /\ Whole(g) /\ Ranked(rk, g)
        /\ \A m : Alive(h, m) => Alive(g, m)
        /\ \A m : Alive(g, m) => (IsObj(g, m) <=> IsObj(h, m))
        /\ \A m \in Nodes : m # n => Size(g, m) = Size(h, m)
    BY <1>1
  <2> QED
    BY <2>1 DEF g, Removed
<1>2. CASE g # h
  <2>1. /\ n \in Nodes /\ IsContainer(h, n)
        /\ \E left, i : LET cut == [h EXCEPT ![n].kids = left] IN
                 /\ cut \in Heap /\ i \in DOMAIN h[n].kids
                 /\ g = Release(cut, h[n].kids[i].at, pinned)
                 /\ \A j \in DOMAIN left :
                      \/ left[j].at = NULL
                      \/ \E k \in DOMAIN h[n].kids : left[j].at = h[n].kids[k].at
    <3>1. FewerKids(h, n, pinned, g)
      BY <1>2, RemovedKids
    <3> HIDE DEF g
    <3> QED
      BY <3>1 DEF FewerKids
  <2> HIDE DEF g
  <2>2. PICK left, i : /\ [h EXCEPT ![n].kids = left] \in Heap /\ i \in DOMAIN h[n].kids
                       /\ g = Release([h EXCEPT ![n].kids = left], h[n].kids[i].at, pinned)
                       /\ \A j \in DOMAIN left :
                            \/ left[j].at = NULL
                            \/ \E k \in DOMAIN h[n].kids : left[j].at = h[n].kids[k].at
    BY <2>1
  <2> DEFINE cut  == [h EXCEPT ![n].kids = left]
             w    == h[n].kids[i].at
             last == w \in Nodes /\ w \notin pinned /\ w \notin Contents(cut, Parents(cut))
             gone == IF last THEN Released(cut, w, pinned)[Parents(cut)] ELSE {}
  <2>3. \A m \in Nodes : /\ cut[m].kids = (IF m = n THEN left ELSE h[m].kids)
                         /\ cut[m].kind = h[m].kind
    BY <2>1 DEF Heap, Node
  <2>4. cut \in Heap /\ g = Release(cut, w, pinned)
    BY <2>2
  <2>5. /\ w \in Nodes => rk[n] < rk[w]
        /\ Alive(h, w) /\ NULL \notin Nodes
    BY <2>1, <2>2, DocAssumption DEF Ranked, Whole
  <2> HIDE DEF cut, w
  <2>6. /\ gone \subseteq Nodes /\ gone \cap pinned = {}
        /\ g = [m \in Nodes |-> IF m \in gone THEN [cut[m] EXCEPT !.kind = "freed"] ELSE cut[m]]
    BY <2>4, ReleaseNodes
  <2>7. ASSUME NEW m \in Nodes, NEW j \in DOMAIN cut[m].kids, IsContainer(h, m)
        PROVE  \/ cut[m].kids[j].at = NULL
               \/ \E k \in DOMAIN h[m].kids : cut[m].kids[j].at = h[m].kids[k].at
    BY <2>2, <2>3, <2>7
  <2>8. Ranked(rk, cut)
    <3> SUFFICES ASSUME NEW m \in Nodes, IsContainer(cut, m), NEW j \in DOMAIN cut[m].kids,
                        cut[m].kids[j].at \in Nodes
                 PROVE  rk[m] < rk[cut[m].kids[j].at]
      BY DEF Ranked
    <3>1. IsContainer(h, m)
      BY <2>3 DEF IsContainer, IsObj, IsArray, IsKind
    <3>2. PICK k \in DOMAIN h[m].kids : cut[m].kids[j].at = h[m].kids[k].at
      BY <2>5, <2>7, <3>1
    <3> QED
      BY <3>1, <3>2 DEF Ranked
  \* what is released is the value, and what is below it
  <2>9. ASSUME NEW m \in gone PROVE rk[n] < rk[m]
    <3>1. last /\ m \in Released(cut, w, pinned)[Parents(cut)] /\ m \in Nodes
      BY <2>6, <2>9
    <3>2. w \in Nodes /\ w \notin pinned
      BY <3>1
    <3>3. m = w \/ rk[w] < rk[m]
      <4> HIDE DEF gone, last
      <4> QED
        BY <2>4, <2>8, <3>1, <3>2, ReleasedBelow
    <3>4. rk[n] \in Nat /\ rk[w] \in Nat /\ rk[m] \in Nat
      BY <2>1, <3>1, <3>2
    <3> QED
      BY <2>5, <3>2, <3>3, <3>4
  \* what is not released has nothing that is
  <2>10. ASSUME NEW m \in Nodes \ gone, IsContainer(cut, m), NEW j \in DOMAIN cut[m].kids
         PROVE  cut[m].kids[j].at \notin gone
    <3> DEFINE c == cut[m].kids[j].at
    <3>1. SUFFICES ASSUME c \in gone PROVE FALSE
      OBVIOUS
    <3>2. last /\ c \in Released(cut, w, pinned)[Parents(cut)] /\ c \in Nodes
      BY <2>6, <3>1
    <3>3. m \in Parents(cut)
      BY <2>10 DEF Parents
    <3>4. c \in Contents(cut, {m}) /\ c \in Contents(cut, Parents(cut))
      BY <3>2, <3>3 DEF Contents
    <3>5. c # w /\ w \in Nodes /\ w \notin pinned
      BY <3>2, <3>4
    <3>6. m \in Released(cut, w, pinned)[Parents(cut)]
      <4> HIDE DEF gone, last, c
      <4> QED
        BY <2>4, <3>2, <3>3, <3>4, <3>5, ReleasedWith
    <3> QED
      BY <3>2, <3>6
  <2> HIDE DEF gone
  <2>11. \A m \in Nodes : /\ g[m].kids = cut[m].kids
                          /\ g[m].kind = IF m \in gone THEN "freed" ELSE cut[m].kind
    BY <2>4, <2>6 DEF Heap, Node
  <2>12. \A m \in Nodes : IsContainer(g, m) => IsContainer(h, m) /\ IsContainer(cut, m)
                                              /\ m \notin gone
    BY <2>3, <2>11 DEF IsContainer, IsObj, IsArray, IsKind
  <2>13. \A m : Alive(g, m) <=> Alive(h, m) /\ m \notin gone
    BY <2>3, <2>6, <2>11 DEF Alive, IsKind
  <2>14. Whole(g)
    <3> SUFFICES ASSUME NEW m \in Nodes, IsContainer(g, m), NEW j \in DOMAIN g[m].kids
                 PROVE  Alive(g, g[m].kids[j].at)
      BY DEF Whole
    <3>1. /\ IsContainer(h, m) /\ IsContainer(cut, m) /\ m \notin gone
          /\ g[m].kids = cut[m].kids
      BY <2>11, <2>12
    <3>2. Alive(h, g[m].kids[j].at)
      <4>1. CASE cut[m].kids[j].at = NULL
        BY <2>5, <3>1, <4>1 DEF Alive, IsKind
      <4>2. CASE \E k \in DOMAIN h[m].kids : cut[m].kids[j].at = h[m].kids[k].at
        BY <3>1, <4>2 DEF Whole
      <4> QED
        BY <2>7, <3>1, <4>1, <4>2
    <3> QED
      BY <2>10, <2>13, <3>1, <3>2
  <2>15. Ranked(rk, g)
    BY <2>8, <2>11, <2>12 DEF Ranked
  <2>16. \A m : Alive(g, m) => (IsObj(g, m) <=> IsObj(h, m))
    BY <2>3, <2>11, <2>13 DEF IsObj, IsKind
  <2>17. \A m \in Nodes : m # n => Size(g, m) = Size(h, m)
    BY <2>3, <2>11 DEF Size
  <2> QED
    BY <2>1, <2>6, <2>9, <2>13, <2>14, <2>15, <2>16, <2>17 DEF g, Removed
<1> QED
  BY <1>1, <1>2

\* What a frame that waits holds on to outlives what is removed, or its loop
\* is told to start over.
LEMMA WaiterSafe ==
  ASSUME NEW L, NEW K, NEW rk, Saving(L, K, rk), Removing(call, Top), Top.mode = "inst",
         Is(prog, Top.pc, Stays), Top.ctx \in Nodes,
         NEW d \in 1..(Depth - 1), NEW g, Alike(g, stack[d]), stack[d].rl => g.rl,
         d = Depth - 1 /\ Top.ctx = Top.inctx /\ NeedForeachRedo(be, heap, Top.ctx) => g.rl,
         NEW h, h = RemoveChild(be, heap, Top.ctx, Top.ci, Pinned)
  PROVE  FrameSafe(call, K, rk, h, d, g) /\ OwnSafe(call, h, g)
<1> DEFINE f == stack[d]
<1>1. /\ d \in 1..Depth /\ Depth \in 1..Depth /\ d < Depth /\ Depth \in Nat /\ f \in Frame
      /\ K \in Nat /\ rk \in [Nodes -> 0..K] /\ heap \in Heap /\ NULL \notin Nodes
      /\ FrameSafe(call, K, rk, heap, d, f) /\ OwnSafe(call, heap, f)
      /\ PairSafe(call, rk, d, f, Depth, Top) /\ IInv /\ Top \in Frame /\ Top = stack[Depth]
  BY SavingTop DEF Succeeds
<1>2. f.own = 0 /\ f.mode \in LoopBacks \cup {"union"}
  <2>1. f.mode \in WaitingModes
    <3>1. d \in DOMAIN stack
      BY <1>1, SavingTop
    <3> QED
      BY <1>1, <3>1 DEF IInv, SentinelOwnerWaits
  <2>2. ~(f.own > 0) /\ f.mode \notin SubpathModes
    BY <1>1 DEF IInv, SubpathsOnTop, Removing
  <2> QED
    BY <1>1, <2>1, <2>2, FrameFields DEF WaitingModes, SubpathModes, LoopBacks
<1>3. /\ \A m : Alive(heap, m) =>
           Alive(h, m) \/ (m \in Nodes /\ rk[Top.ctx] < rk[m])
      /\ \A m : Alive(h, m) => (IsObj(h, m) <=> IsObj(heap, m))
      /\ \A m \in Nodes : m # Top.ctx => Size(h, m) = Size(heap, m)
  <2>1. Top.ci \in ChildInfo /\ Whole(heap) /\ Ranked(rk, heap)
    BY <1>1, SavingTop, FrameFields
  <2>2. Removed(rk, heap, Top.ctx, Pinned, h)
    BY <1>1, <2>1, RemovalEffect
  <2> QED
    BY <2>2 DEF Removed
<1>4. FrameSafe(call, K, rk, heap, d, g) /\ OwnSafe(call, heap, g)
  BY <1>1, AlikeSafe
<1>5. g.mode = f.mode /\ g.tmp = f.tmp /\ g.own = 0 /\ g.el = f.el /\ g.n = f.n
  BY <1>2 DEF Alike
<1>6. \A n \in Nodes : rk[n] \in Nat
  BY <1>1
<1>7. Ranking(rk, f) /\ (f.mode \in LoopBacks => f.tmp \in Nodes)
  BY <1>1 DEF FrameSafe, Ranking, Holding
\* the container of the removed entry is the loop's own, or below it
<1>8. \/ Direct(d, f, Depth) /\ Top.ctx = f.tmp /\ Top.inctx = f.tmp
      \/ /\ Below(rk, f, Top.ctx)
         /\ f.mode \in LoopBacks => rk[f.tmp] < rk[Top.ctx] /\ (f.el \in Nodes => rk[f.el] <= rk[Top.ctx])
         /\ f.tmp \in Nodes => rk[f.tmp] <= rk[Top.ctx]
  BY <1>1, <1>6, <1>7 DEF PairSafe, Below
<1>9. Top.ctx = f.tmp /\ f.mode \in LoopBacks => Direct(d, f, Depth) /\ Top.inctx = f.tmp
  BY <1>6, <1>7, <1>8
<1>10. Direct(d, f, Depth) /\ Top.ctx = f.tmp /\ Top.inctx = f.tmp /\ NeedForeachRedo(be, heap, f.tmp)
         => Redo(call, g)
  <2>1. Direct(d, f, Depth) => d = Depth - 1
    BY <1>1 DEF Direct
  <2> QED
    BY <1>5, <2>1 DEF Redo, Removing
<1>11. Alive(h, g.tmp)
  <2>1. Alive(heap, f.tmp)
    BY <1>1 DEF FrameSafe, Living
  <2>2. ~(f.tmp \in Nodes /\ rk[Top.ctx] < rk[f.tmp])
    BY <1>6, <1>8
  <2> QED
    BY <1>3, <1>5, <2>1, <2>2
<1>12. g.mode = "dot_back" => Redo(call, g) \/ Alive(h, g.el)
  <2> SUFFICES ASSUME g.mode = "dot_back", ~Redo(call, g)
               PROVE  Alive(h, g.el)
    OBVIOUS
  <2>1. Alive(heap, g.el) /\ f.mode \in LoopBacks
    BY <1>4, <1>5 DEF FrameSafe, Living, LoopBacks
  <2>2. NeedForeachRedo(be, heap, f.tmp)
    BY <1>1, <1>2, <1>5 DEF OwnSafe, Removing, be
  <2>3. ~(Direct(d, f, Depth) /\ Top.ctx = f.tmp /\ Top.inctx = f.tmp)
    BY <1>10, <2>2
  <2>4. ~(f.el \in Nodes /\ rk[Top.ctx] < rk[f.el])
    BY <1>6, <1>8, <2>1, <2>3
  <2> QED
    BY <1>3, <1>5, <2>1, <2>4
<1>13. Top.ctx # f.tmp => (Fits(call, heap, g) => Fits(call, h, g))
  BY <1>3, <1>5 DEF Fits
<1>14. g.mode = "filter_back" => Fits(call, h, g)
  <2> SUFFICES ASSUME g.mode = "filter_back", be = "python"
               PROVE  Fits(call, h, g)
    BY DEF Fits, be
  <2>1. f.mode \in LoopBacks /\ Fits(call, heap, g)
    BY <1>4, <1>5 DEF FrameSafe, Living, LoopBacks, Counting
  <2>2. Top.ctx # f.tmp
    BY <1>5, <1>9, <2>1, NothingAtStake
  <2> QED
    BY <1>13, <2>1, <2>2
<1>15. g.mode \in {"range_back", "dot_back", "dot_return"} => Redo(call, g) \/ Fits(call, h, g)
  <2> SUFFICES ASSUME g.mode \in {"range_back", "dot_back", "dot_return"}, ~Redo(call, g), be = "python"
               PROVE  Fits(call, h, g)
    BY DEF Fits, be
  <2>1. f.mode \in LoopBacks /\ Fits(call, heap, g)
    BY <1>4, <1>5 DEF FrameSafe, Living, LoopBacks
  <2>2. Top.ctx # f.tmp
    BY <1>9, <1>10, <2>1 DEF NeedForeachRedo
  <2> QED
    BY <1>13, <2>1, <2>2
<1>16. Living(call, h, g)
  <2>1. g.mode \notin {"descend"} \cup ClauseModes
        /\ (g.mode \in Counting => g.mode = "filter_back")
    BY <1>2, <1>5 DEF LoopBacks, ClauseModes, Counting
  <2> QED
    BY <1>11, <1>12, <1>14, <1>15, <2>1 DEF Living
<1>17. OwnSafe(call, h, g)
  <2>1. g.mode = "dot_back" /\ Removing(call, g) => NeedForeachRedo(call.be, heap, g.tmp)
    BY <1>4 DEF OwnSafe
  <2>2. NeedForeachRedo(call.be, heap, g.tmp) => NeedForeachRedo(call.be, h, g.tmp)
    BY <1>3, <1>11 DEF NeedForeachRedo
  <2> QED
    BY <1>4, <2>1, <2>2 DEF OwnSafe
<1> QED
  BY <1>4, <1>16, <1>17 DEF FrameSafe

LEMMA RemoveSafe ==
  ASSUME NEW L, NEW K, NEW rk, Saving(L, K, rk), ReturnRemove
  PROVE  StaysSafe(K, rk)
<1> DEFINE cond == Top.ctx = Top.inctx /\ NeedForeachRedo(be, heap, Top.ctx)
           s    == Reloop(cond)
<1>1. /\ call' = call /\ Removing(call, Top) /\ Top.mode = "inst" /\ Is(prog, Top.pc, Stays)
  <2>1. call' = call /\ Op(Top) = "remove" /\ Top.mode = "inst" /\ Is(prog, Top.pc, Stays)
    BY DEF ReturnRemove, At_, In, Here, Code, Is, Stays
  <2>2. Top.own = 0 /\ call.op = "remove"
    BY <2>1, SavingTop, FrameFields DEF Op
  <2> QED
    BY <2>1, <2>2 DEF Removing
<1>2. Top.ctx = NULL => Top.ci.type = "NONE"
  BY <1>1, NothingAtStake
<1>3. /\ IInv /\ status = "run" /\ Top \in Frame /\ Depth \in Nat \ {0} /\ NULL \notin Nodes
      /\ heap \in Heap /\ cond \in BOOLEAN /\ K \in Nat /\ rk \in [Nodes -> 0..K]
      /\ Document(rk, heap)
  BY SavingTop
<1>4. \/ heap' = heap /\ LeaveFrom(s, None)
      \/ /\ heap' = RemoveChild(be, heap, Top.ctx, Top.ci, Pinned) /\ LeaveFrom(s, Count(1))
         /\ Top.ctx # NULL
  BY <1>2 DEF ReturnRemove
<1>5. CASE heap' = heap /\ LeaveFrom(s, None)
  <2> HIDE DEF cond
  <2>1. \E c \in BOOLEAN : LeaveFrom(Reloop(c), None)
    BY <1>3, <1>5
  <2> QED
    BY <1>1, <1>5, <2>1, ReturnSafe
<1>6. CASE /\ heap' = RemoveChild(be, heap, Top.ctx, Top.ci, Pinned) /\ LeaveFrom(s, Count(1))
           /\ Top.ctx # NULL
  <2>1. Top.ctx \in Nodes /\ Top.ci \in ChildInfo
    BY <1>3, <1>6, FrameFields DEF ValueSet
  <2>2. cond <=> Top.ctx = Top.inctx /\ NeedForeachRedo(be, heap, Top.ctx)
    OBVIOUS
  <2> HIDE DEF cond
  <2>3. /\ SameShape(s)
        /\ \A d \in 1..Depth : /\ Alike(s[d], stack[d])
                               /\ s[d].rl = IF cond /\ d = Depth - 1 THEN TRUE ELSE stack[d].rl
    BY <1>3, ReloopEffect
  <2> HIDE DEF s
  <2>4. Document(rk, heap')
    <3>1. Whole(heap') /\ Ranked(rk, heap')
          /\ \A m : Alive(heap, m) => Alive(heap', m) \/ m \notin Pinned
      <4>1. Removed(rk, heap, Top.ctx, Pinned, heap')
        BY <1>3, <1>6, <2>1, RemovalEffect DEF Document
      <4> QED
        BY <4>1 DEF Removed
    <3> QED
      BY <1>3, <3>1 DEF Document
  <2>5. ASSUME NEW d \in 1..(Depth - 1)
        PROVE  FrameSafe(call, K, rk, heap', d, s[d]) /\ OwnSafe(call, heap', s[d])
    <3>1. d \in 1..Depth
      BY <1>3
    <3>2. Alike(s[d], stack[d]) /\ (stack[d].rl => s[d].rl) /\ (cond /\ d = Depth - 1 => s[d].rl)
      BY <2>3, <3>1
    <3> QED
      BY <1>1, <1>6, <2>1, <2>2, <3>2, WaiterSafe
  <2> QED
    BY <1>1, <1>6, <2>3, <2>4, <2>5, LeaveSafe
<1> QED
  BY <1>4, <1>5, <1>6

\* CSONPATH_DO_RETURN
LEMMA ReturnsSafe ==
  ASSUME NEW L, NEW K, NEW rk, Saving(L, K, rk), Return, ReturnRemove \/ heap' = heap
  PROVE  StaysSafe(K, rk)
<1>1. CASE ReturnRemove
  BY <1>1, RemoveSafe
<1>2. CASE ReturnFound /\ heap' = heap
  <2>1. call' = call /\ Top.pc \in Nat
    BY <1>2, TopBounded DEF ReturnFound
  <2>2. LeaveAt(Top.pc, Top.pc, Value(Top.tmp)) \/ Leave(Count(1))
    BY <1>2 DEF ReturnFound
  <2> QED
    BY <1>2, <2>1, <2>2, ReturnSafe
<1>3. CASE ReturnCallback /\ heap' = heap
  <2> DEFINE cond == Op(Top) = "update_or_create_callback" /\ Top.tmp = Top.val
  <2>1. LeaveFrom(Reloop(cond), Count(1)) \/ LeaveFrom(Reloop(cond), Count(-1))
    BY <1>3 DEF ReturnCallback
  <2>2. call' = call /\ cond \in BOOLEAN
    BY <1>3 DEF ReturnCallback
  <2> HIDE DEF cond
  <2> QED
    BY <1>3, <2>1, <2>2, ReturnSafe
<1>4. ~ReturnUpdate
  BY SavingTop DEF ReturnUpdate, CreateOps
<1> QED
  BY <1>1, <1>2, <1>3, <1>4 DEF Return

--------------------------------------------------------------------------------
(***************************************************************************)
(* Loops.                                                                  *)
(***************************************************************************)

\* A frame that goes on with its loop, or with a clause of its filter.
LEMMA LoopGoes ==
  ASSUME NEW L, NEW K, NEW rk, Saving(L, K, rk), call' = call, heap' = heap, NEW g, Go(g),
         g.mode \in {"all", "range", "dot", "descend", "filter"} \cup ClauseModes,
         g.own = Top.own, g.tmp = Top.tmp, g.ctx = Top.ctx, g.inctx = Top.inctx,
         Living(call, heap, g), Ranking(rk, g), Bounded(K, rk, Depth, g)
  PROVE  StaysSafe(K, rk)
<1>1. g.mode \notin Stepping \cup Pending \cup {"dot_back", "filter_back"}
  BY DEF Stepping, Pending, ClauseModes
<1>2. InStep(call, g) /\ OwnSafe(call, heap, g)
  BY <1>1 DEF InStep, OwnSafe, Pending
<1>3. Succeeds(rk, g)
  BY <1>1, SameSucceeds
<1> QED
  BY <1>2, <1>3, GoSafe DEF FrameSafe

\* A loop does not look past the end of what it loops over.
LEMMA EntryIsThere ==
  ASSUME NEW L, NEW K, NEW rk, Saving(L, K, rk), NEW f \in Frame, More(f), Fits(call, heap, f)
  PROVE  /\ f.tmp \in Nodes /\ IsContainer(heap, f.tmp)
         /\ Element(f) # BAD /\ Alive(heap, Element(f)) /\ Element(f) \in ValueSet
         /\ Element(f) \in Nodes => rk[f.tmp] < rk[Element(f)]
<1>1. IInv /\ K \in Nat /\ rk \in [Nodes -> 0..K] /\ Whole(heap) /\ Ranked(rk, heap)
  BY SavingTop
<1>2. f.tmp \in Nodes /\ IsContainer(heap, f.tmp) /\ Element(f) \in ValueSet \cup {BAD}
  BY <1>1, EntryIsBelow, ElementType
<1>3. Element(f) # BAD
  <2>1. CASE EntryAt(f) < Size(heap, f.tmp)
    BY <1>1, <2>1, EntryIsBelow
  <2>2. CASE ~(EntryAt(f) < Size(heap, f.tmp))
    <3>0. ~(f.i < Size(heap, f.tmp))
      BY <1>1, <1>2, <2>2, EntryAtType, FrameFields, KidsType, RunTypes
    <3>1. IsArray(heap, f.tmp) /\ f.i < f.n
      BY <1>2, <3>0 DEF More, IsContainer, IsArray, IsObj, IsKind
    <3>2. be # "python"
      <4>1. be = "python" => f.n <= Size(heap, f.tmp)
        BY <1>2 DEF Fits, be
      <4>2. f.i \in Nat /\ f.n \in Nat /\ Size(heap, f.tmp) \in Nat
        BY <1>1, <1>2, FrameFields, KidsType, RunTypes
      <4> QED
        BY <3>0, <3>1, <4>1, <4>2
    <3>3. Element(f) = NULL
      BY <2>2, <3>2 DEF Element, Fetch
    <3> QED
      BY <3>3, DocAssumption
  <2> QED
    BY <2>1, <2>2
<1> QED
  BY <1>1, <1>2, <1>3, EntryIsBelow

\* The rest of the path is called on an entry.
LEMMA VisitSafe ==
  ASSUME NEW L, NEW K, NEW rk, Saving(L, K, rk), call' = call, heap' = heap,
         NEW f \in Frame, f.own = Top.own, f.tmp = Top.tmp, f.ctx = Top.ctx, f.inctx = Top.inctx,
         f.pc = Top.pc, f.n = Top.n, More(f), Element(f) # BAD,
         NEW mode, <<Top.mode, mode>> \in {<<"all", "all_back">>, <<"range", "range_back">>, <<"dot", "dot_back">>},
         mode = "dot_back" /\ Removing(call, Top) => NeedForeachRedo(be, heap, f.tmp),
         NEW pc \in Nat, Floor(Top) < pc, pc <= Len(prog), Visit(f, mode, pc)
  PROVE  StaysSafe(K, rk)
<1> DEFINE ci == CurrentInfo(f)
           el == Element(f)
           w  == [f EXCEPT !.mode = mode, !.ci = ci, !.rl = FALSE, !.el = el]
           g  == LoopChild(f, el, pc, ci)
<1>1. /\ IInv /\ K \in Nat /\ rk \in [Nodes -> 0..K] /\ Whole(heap) /\ Ranked(rk, heap)
      /\ Depth \in Nat \ {0} /\ FrameSafe(call, K, rk, heap, Depth, Top) /\ NULL \notin Nodes
  BY SavingTop
<1>2. /\ f.tmp \in Nodes /\ Alive(heap, el) /\ el \in ValueSet /\ ci \in ChildInfo
      /\ el \in Nodes => rk[f.tmp] < rk[el]
  BY <1>1, EntryIsBelow, ElementType
<1>3. Enter(w, g)
  BY DEF Visit
<1>4. /\ mode \in {"all_back", "range_back", "dot_back"} /\ mode \in Modes
      /\ mode \in LoopBacks
  BY ModeNames DEF LoopBacks
<1> HIDE DEF ci, el
<1>5. /\ w \in Frame /\ w.mode = mode /\ w.own = Top.own /\ w.tmp = Top.tmp /\ w.ctx = Top.ctx
      /\ w.inctx = Top.inctx /\ w.pc = Top.pc /\ w.n = Top.n /\ w.el = el
  BY <1>2, <1>4 DEF Frame, Modes
<1>6. /\ g \in Frame /\ g.mode = "inst" /\ g.pc = pc /\ g.tmp = el /\ g.ctx = f.tmp
      /\ g.inctx = f.tmp /\ g.own = Top.own
  <2>1. f.own \in Nat /\ f.tmp \in ValueSet /\ el \in ValueSet /\ ci \in ChildInfo
    BY <1>2, FrameFields
  <2>2. g = NewFrame(pc, el, f.tmp, ci, f.own)
    BY DEF LoopChild
  <2> HIDE DEF g
  <2>3. g \in Frame
    BY <2>1, <2>2, NewFrameType
  <2> QED
    BY <2>2, <2>3 DEF NewFrame
<1> HIDE DEF w, g
<1>7. FrameSafe(call, K, rk, heap, Depth, w)
  <2>1. Alive(heap, Top.tmp) /\ (Top.mode \in {"range", "dot"} => Fits(call, heap, Top))
    BY <1>1 DEF FrameSafe, Living, Counting
  <2>2. Living(call, heap, w)
    BY <1>2, <1>4, <1>5, <2>1 DEF Living, Fits, Counting, ClauseModes
  <2>3. Ranking(rk, w)
    BY <1>2, <1>5 DEF Ranking
  <2>4. Bounded(K, rk, Depth, w)
    <3>1. Floor(w) = Floor(Top) /\ (w.mode \in DotModes <=> Top.mode \in DotModes)
          /\ w.mode \notin ClauseModes
      BY <1>5 DEF Floor, DotModes, ClauseModes
    <3> QED
      BY <1>1, <1>5, <3>1 DEF FrameSafe, Bounded
  <2>5. InStep(call, w)
    BY <1>4, <1>5 DEF InStep, Stepping
  <2> QED
    BY <2>2, <2>3, <2>4, <2>5 DEF FrameSafe
<1>8. OwnSafe(call, heap, w)
  BY <1>4, <1>5 DEF OwnSafe, Removing, Pending, be
<1>9. Succeeds(rk, w)
  BY <1>4, <1>5, SameSucceeds DEF Pending
<1>10. FrameSafe(call, K, rk, heap, Depth + 1, g)
  BY <1>1, <1>2, <1>6, MovesOn
<1>11. pc # 1
  <2>1. Top.pc \in Nat
    BY TopBounded
  <2>2. CASE Floor(Top) = Top.pc
    <3>1. Top.pc # 0
      <4>1. OnPath(L, Aim(L), Top.pc) /\ Walking(L)
        BY SavingTop, WalkingTop DEF Placed
      <4>2. Top.pc \in 1..Len(prog)
        BY <4>1, WalkingTop, PathEnds
      <4> QED
        BY <4>2
    <3> QED
      BY <2>1, <2>2, <3>1
  <2>3. CASE Floor(Top) # Top.pc
    <3>1. Floor(Top) = Top.pc - 1 /\ Top.mode \notin DotModes
      BY <2>3 DEF Floor, DotModes
    <3>2. Floor(Top) = 0 => Level(K, Floor(Top)) <= 0
      BY <1>1 DEF Level
    <3>3. Depth <= Level(K, Floor(Top)) /\ Level(K, Floor(Top)) \in Int
      BY <1>1, <3>1, TopBounded, Levels
    <3>4. Floor(Top) = -1 => Level(K, Floor(Top)) <= 0
      <4>1. Level(K, -1) <= 0
        BY <1>1 DEF Level
      <4> QED
        BY <4>1
    <3> QED
      BY <1>1, <2>1, <3>1, <3>2, <3>3, <3>4
  <2> QED
    BY <2>2, <2>3
<1>12. OwnSafe(call, heap, g)
  BY <1>1, <1>2, <1>6, <1>11 DEF OwnSafe
<1>13. \A d \in 1..(Depth - 1) : PairSafe(call, rk, d, stack[d], Depth + 1, g)
  <2>1. g.tmp \in Nodes => Top.tmp \in Nodes /\ rk[Top.tmp] <= rk[g.tmp]
    <3>1. \A n \in Nodes : rk[n] \in Nat
      BY <1>1
    <3> QED
      BY <1>2, <1>6, <3>1
  <2> QED
    BY <1>6, <2>1, CalleeSucceeds
<1>14. PairSafe(call, rk, Depth, w, Depth + 1, g)
  <2>1. Below(rk, w, g.tmp)
    <3>1. \A n \in Nodes : rk[n] \in Nat
      BY <1>1
    <3> QED
      BY <1>2, <1>4, <1>5, <1>6, <3>1 DEF Below
  <2>2. Direct(Depth, w, Depth + 1) /\ g.ctx = w.tmp /\ g.inctx = w.tmp /\ w.mode # "filter_back"
    BY <1>4, <1>5, <1>6 DEF Direct
  <2> QED
    BY <2>1, <2>2 DEF PairSafe
<1>15. Depth + 1 <= Room(call, K)
  <2>1. Floor(g) <= Len(prog) /\ g.pc \in Nat /\ Depth + 1 \in Int
    BY <1>1, <1>6 DEF Floor
  <2> QED
    BY <1>10, <2>1, RoomFor
<1> QED
  BY <1>3, <1>5, <1>6, <1>7, <1>8, <1>9, <1>10, <1>12, <1>13, <1>14, <1>15, EnterSafe

\* A loop that has been told that it lost an entry does not go on: it starts
\* over, or returns.
LEMMA TakenUp ==
  ASSUME call.op = "remove", Top.own = 0, Top.rl, NEW macro \in {"ALL", "RANGE"}
  PROVE  Verdict(Top, ret, macro) \in {"leave", "again"}
<1>1. Op(Top) = "remove"
  BY DEF Op
<1>2. Verdict(Top, ret, macro) = IF ret.int < 0 /\ macro # "FILTER" THEN "leave"
                                 ELSE IF Top.rl /\ macro \in {"ALL", "RANGE"} THEN "again"
                                 ELSE "next"
  BY <1>1 DEF Verdict
<1> QED
  BY <1>2

LEMMA BackSafe ==
  ASSUME NEW L, NEW K, NEW rk, Saving(L, K, rk), call' = call, heap' = heap,
         NEW macro, NEW loop, NEW next, AfterVisit(macro, loop, next),
         <<Top.mode, macro, loop, next>> \in
           {<<"all_back", "ALL", "all", "all">>, <<"range_back", "RANGE", "range", "range">>,
            <<"dot_back", "ALL", "dot", "descend">>, <<"dot_return", "ALL", "dot", "dot">>,
            <<"filter_back", "FILTER", "filter", "filter">>}
  PROVE  StaysSafe(K, rk)
<1> DEFINE f == [Top EXCEPT !.nb  = Counted(Top, ret),
                            !.end = IF macro = "RANGE" /\ Op(Top) = "remove"
                                    THEN Top.end - 1 ELSE Top.end]
           v == Verdict(Top, ret, macro)
           g == IF next = loop THEN NextEntry(f, loop) ELSE [f EXCEPT !.mode = next]
<1>1. /\ Top \in Frame /\ ret \in Result /\ Depth \in Nat /\ heap \in Heap
      /\ FrameSafe(call, K, rk, heap, Depth, Top) /\ K \in Nat /\ rk \in [Nodes -> 0..K]
  BY SavingTop, WalkingTop
<1>2. Top.end \in Int /\ Top.pc \in Nat /\ Top.ow \in Nat /\ Counted(Top, ret) \in Int
  BY <1>1, FrameFields, CountedType
<1>3. /\ f \in Frame /\ f.mode = Top.mode /\ f.pc = Top.pc /\ f.tmp = Top.tmp /\ f.ctx = Top.ctx
      /\ f.inctx = Top.inctx /\ f.own = Top.own /\ f.n = Top.n /\ f.el = Top.el /\ f.ow = Top.ow
  <2> DEFINE end == IF macro = "RANGE" /\ Op(Top) = "remove" THEN Top.end - 1 ELSE Top.end
             nb  == Counted(Top, ret)
  <2>1. end \in Int /\ nb \in Int
    BY <1>2
  <2>2. f = [[Top EXCEPT !.nb = nb] EXCEPT !.end = end]
    OBVIOUS
  <2> HIDE DEF f, end, nb
  <2> QED
    BY <1>1, <2>1, <2>2 DEF Frame
<1>4. \/ v = "leave" /\ LeaveAt(f.pc, IF macro = "FILTER" THEN f.ow ELSE f.pc, ret)
      \/ v = "again" /\ Go(Start(f, loop))
      \/ v \notin {"leave", "again"} /\ Go(g)
  BY DEF AfterVisit
<1>5. Top.mode \in LoopBacks /\ loop \in {"all", "range", "dot", "filter"}
      /\ next \in {"all", "range", "dot", "filter", "descend"} /\ (next # loop => next = "descend")
  BY DEF LoopBacks
<1>6. Top.tmp \in Nodes /\ Alive(heap, Top.tmp) /\ Top.n \in Nat /\ Size(heap, Top.tmp) \in Nat
      /\ (Top.el \in Nodes => rk[Top.tmp] < rk[Top.el])
  BY <1>1, <1>5, FrameFields, KidsType DEF FrameSafe, Living, Ranking, Holding, Fetched
<1>7. ASSUME NEW x, x.mode \in {loop, next}, x.pc = Top.pc, x.tmp = Top.tmp, x.el = Top.el
      PROVE  Ranking(rk, x) /\ Bounded(K, rk, Depth, x)
  <2>1. Floor(x) = Floor(Top) /\ (x.mode \in DotModes <=> Top.mode \in DotModes)
        /\ x.mode \notin ClauseModes
    BY <1>7 DEF Floor, DotModes, ClauseModes
  <2>2. Bounded(K, rk, Depth, x)
    BY <1>1, <1>7, <2>1 DEF FrameSafe, Bounded
  <2>3. Ranking(rk, x)
    BY <1>6, <1>7 DEF Ranking
  <2> QED
    BY <2>2, <2>3
<1>8. CASE v = "leave" /\ LeaveAt(f.pc, IF macro = "FILTER" THEN f.ow ELSE f.pc, ret)
  <2>1. (IF macro = "FILTER" THEN f.ow ELSE f.pc) \in Nat
    BY <1>2, <1>3
  <2> HIDE DEF f, v
  <2> QED
    BY <1>8, <2>1, ReturnSafe
<1>9. CASE v = "again" /\ Go(Start(f, loop))
  <2> DEFINE x == Start(f, loop)
  <2>1. /\ x.mode = loop /\ x.pc = Top.pc /\ x.tmp = Top.tmp /\ x.ctx = Top.ctx /\ x.inctx = Top.inctx
        /\ x.own = Top.own /\ x.el = Top.el /\ x.n = Size(heap, Top.tmp)
    <3> HIDE DEF f, v
    <3>1. f \in Frame
      BY <1>3
    <3>2. /\ x.mode = loop /\ x.pc = f.pc /\ x.tmp = f.tmp /\ x.ctx = f.ctx /\ x.inctx = f.inctx
          /\ x.own = f.own /\ x.el = f.el
      BY <3>1, StartFields
    <3>3. f.tmp \in Nodes => x.n = Size(heap, f.tmp)
      BY <3>1, StartFields
    <3> QED
      BY <1>3, <1>6, <3>2, <3>3
  <2> HIDE DEF x, f, v
  <2>2. Ranking(rk, x) /\ Bounded(K, rk, Depth, x)
    BY <1>7, <2>1
  <2>3. Living(call, heap, x)
    BY <1>5, <1>6, <2>1 DEF Living, Fits, ClauseModes
  <2> QED
    BY <1>5, <1>9, <2>1, <2>2, <2>3, LoopGoes DEF x
<1>10. CASE v \notin {"leave", "again"} /\ Go(g)
  <2>1. /\ g.mode = next /\ g.pc = Top.pc /\ g.tmp = Top.tmp /\ g.ctx = Top.ctx /\ g.inctx = Top.inctx
        /\ g.own = Top.own /\ g.el = Top.el /\ g.n = Top.n
    <3>1. CASE next = loop
      <4>1. g = NextEntry(f, loop)
        BY <3>1
      <4> HIDE DEF g, f
      <4>2. f \in Frame
        BY <1>3
      <4> QED
        BY <1>3, <3>1, <4>1, <4>2, NextEntryFields
    <3>2. CASE next # loop
      <4>1. g = [f EXCEPT !.mode = next]
        BY <3>2
      <4> HIDE DEF f
      <4> QED
        BY <1>3, <4>1 DEF Frame
    <3> QED
      BY <3>1, <3>2
  <2>2. v = Verdict(Top, ret, macro)
    OBVIOUS
  <2> HIDE DEF g, f, v
  <2>3. Ranking(rk, g) /\ Bounded(K, rk, Depth, g)
    BY <1>7, <2>1
  <2>4. macro \in {"ALL", "RANGE"} => ~Redo(call, Top)
    BY <1>10, <2>2, TakenUp DEF Redo
  <2>5. Top.mode # "all_back" => Fits(call, heap, Top)
    <3>1. Top.mode = "filter_back" => Fits(call, heap, Top)
      BY <1>1 DEF FrameSafe, Living, Counting
    <3>2. Top.mode \in {"range_back", "dot_back", "dot_return"} => Redo(call, Top) \/ Fits(call, heap, Top)
      BY <1>1 DEF FrameSafe, Living
    <3> QED
      BY <2>4, <3>1, <3>2
  <2>6. Top.mode = "dot_back" => Alive(heap, Top.el)
    BY <1>1, <2>4 DEF FrameSafe, Living
  <2>7. Living(call, heap, g)
    BY <1>5, <1>6, <2>1, <2>5, <2>6 DEF Living, Fits, ClauseModes, Counting
  <2> QED
    BY <1>5, <1>10, <2>1, <2>3, <2>7, LoopGoes
<1> QED
  BY <1>4, <1>8, <1>9, <1>10

LEMMA PreLoopSafe ==
  ASSUME NEW L, NEW K, NEW rk, Saving(L, K, rk), call' = call, heap' = heap, Top.mode = "inst",
         NEW kind, NEW loop \in {"all", "filter"}, PreLoop(Top, kind, loop)
  PROVE  StaysSafe(K, rk)
<1> DEFINE g == Start(Top, loop)
<1>1. Top \in Frame /\ Op(Top) # "update_or_create" /\ FrameSafe(call, K, rk, heap, Depth, Top)
      /\ heap \in Heap
  BY SavingTop DEF CreateOps
<1>2. Go(g)
  BY <1>1 DEF PreLoop
<1>3. /\ g.mode = loop /\ g.pc = Top.pc /\ g.tmp = Top.tmp /\ g.ctx = Top.ctx /\ g.inctx = Top.inctx
      /\ g.own = Top.own /\ (Top.tmp \in Nodes => g.n = Size(heap, Top.tmp))
  BY <1>1, StartFields
<1> HIDE DEF g
<1>4. Ranking(rk, g)
  BY <1>3 DEF Ranking, Holding, Fetched, LoopBacks, DotModes, ClauseModes
<1>5. Bounded(K, rk, Depth, g)
  <2>1. Floor(g) = Floor(Top) /\ g.mode \notin DotModes \cup ClauseModes /\ Top.mode \notin DotModes
    BY <1>3 DEF Floor, DotModes, ClauseModes
  <2> QED
    BY <1>1, <2>1 DEF FrameSafe, Bounded
<1>6. Living(call, heap, g)
  <2>1. Alive(heap, g.tmp)
    BY <1>1, <1>3 DEF FrameSafe, Living
  <2>2. Fits(call, heap, g)
    <3>1. g.tmp \in Nodes => Size(heap, g.tmp) \in Nat
      BY <1>1, KidsType
    <3> QED
      BY <1>3, <3>1 DEF Fits
  <2> QED
    BY <1>3, <2>1, <2>2 DEF Living, ClauseModes
<1> QED
  BY <1>2, <1>3, <1>4, <1>5, <1>6, LoopGoes

\* GET_ALL and RANGE.
LEMMA AllAndRangeSafe ==
  ASSUME NEW L, NEW K, NEW rk, Saving(L, K, rk), heap' = heap,
         GetAll \/ AllElement \/ AllBack \/ GetRange \/ RangeElement \/ RangeBack
  PROVE  StaysSafe(K, rk)
<1>1. call' = call
  BY DEF GetAll, AllElement, AllBack, GetRange, RangeElement, RangeBack, PreLoop
<1>2. /\ Top \in Frame /\ Top.pc \in Nat /\ call \in Calls /\ Laid(prog, L) /\ heap \in Heap
      /\ Placed(prog, L, Aim(L), Top) /\ Top.i \in Nat /\ Top.ow \in Nat /\ Depth \in Nat
      /\ K \in Nat /\ rk \in [Nodes -> 0..K]
      /\ FrameSafe(call, K, rk, heap, Depth, Top)
  BY SavingTop, WalkingTop, FrameFields
<1>3. CASE GetAll
  <2>1. Top.mode = "inst" /\ PreLoop(Top, GuessContainer(Top.pc), "all")
    BY <1>3 DEF GetAll, At_, In
  <2> QED
    BY <1>1, <2>1, PreLoopSafe
<1>4. CASE AllElement
  <2>1. Top.mode = "all"
    BY <1>4 DEF AllElement, In
  <2>2. OnPath(L, Aim(L), Top.pc) /\ Is(prog, Top.pc, {"GET_ALL"})
    BY <1>2, <2>1 DEF Placed, AllModes
  <2>3. OnPath(L, Aim(L), Top.pc + 1)
    <3>1. ~Is(prog, Top.pc, FilterOps \cup {"END", "RANGE", "GET_SUBPATH"})
      BY <2>2 DEF Is, FilterOps
    <3> QED
      BY <1>2, <2>2, <3>1, GoesOn
  <2>4. Top.pc + 1 <= Len(prog) /\ Floor(Top) < Top.pc + 1 /\ Top.pc + 1 \in Nat
    <3>1. Top.pc + 1 \in 1..Len(prog) /\ Len(prog) \in Nat
      BY <1>2, <2>3, PathEnds, LayoutTypes
    <3> QED
      BY <1>2, <2>1, <3>1 DEF Floor
  <2>5. \/ Out(Top)
        \/ More(Top) /\ Element(Top) # BAD /\ Visit(Top, "all_back", Top.pc + 1)
    BY <1>4 DEF AllElement
  <2>6. CASE Out(Top)
    BY <1>1, <1>2, <2>6, OutSafe
  <2>7. CASE More(Top) /\ Element(Top) # BAD /\ Visit(Top, "all_back", Top.pc + 1)
    BY <1>1, <1>2, <2>1, <2>4, <2>7, VisitSafe
  <2> QED
    BY <2>5, <2>6, <2>7
<1>5. CASE AllBack
  <2>1. Top.mode = "all_back" /\ AfterVisit("ALL", "all", "all")
    BY <1>5 DEF AllBack, In
  <2> QED
    BY <1>1, <2>1, BackSafe
<1>6. CASE GetRange
  <2> DEFINE last == Code(Top.pc + 2).num
             end == IF last = 0 THEN Unbounded ELSE last
             beg == Code(Top.pc + 1).num
             s == Start(Top, "range")
             f == [s EXCEPT !.pc = Top.pc + 3, !.end = end, !.ow = beg]
  <2>1. Top.mode = "inst" /\ (Leave(None) \/ (IsArray(heap, Top.tmp) /\ Go(f)))
    BY <1>6 DEF GetRange, At_, In
  <2>2. s \in Frame /\ s.own = Top.own /\ s.mode = "range" /\ s.tmp = Top.tmp /\ s.ctx = Top.ctx
        /\ s.inctx = Top.inctx /\ (Top.tmp \in Nodes => s.n = Size(heap, Top.tmp))
    <3>1. s \in Frame
      BY <1>2, SavingTop, ModeNames, StartType
    <3>2. /\ s.own = Top.own /\ s.mode = "range" /\ s.tmp = Top.tmp /\ s.ctx = Top.ctx
          /\ s.inctx = Top.inctx
      BY <1>2, StartFields
    <3>3. Top.tmp \in Nodes => s.n = Size(heap, Top.tmp)
      BY <1>2, StartFields
    <3> QED
      BY <3>1, <3>2, <3>3
  <2> HIDE DEF beg, last, end, s
  <2>3. f.own = Top.own /\ f.mode = "range" /\ f.pc = Top.pc + 3 /\ f.tmp = Top.tmp
        /\ f.ctx = Top.ctx /\ f.inctx = Top.inctx /\ f.n = s.n
    BY <2>2 DEF Frame
  <2> HIDE DEF f
  <2>4. CASE IsArray(heap, Top.tmp) /\ Go(f)
    <3>1. Top.tmp \in Nodes /\ f.n = Size(heap, Top.tmp) /\ f.n \in Nat
      BY <1>2, <2>2, <2>3, <2>4, KidsType DEF IsArray, IsKind
    <3>2. Living(call, heap, f)
      BY <1>2, <2>3, <3>1 DEF Living, Fits, FrameSafe, ClauseModes
    <3>3. Ranking(rk, f)
      BY <2>3, <3>1 DEF Ranking, Fetched, LoopBacks, ClauseModes
    <3>4. Bounded(K, rk, Depth, f)
      <4>1. Depth <= Level(K, Top.pc)
        BY <2>1, TopBounded DEF Floor, DotModes
      <4>2. Level(K, Top.pc) <= Level(K, Top.pc + 2) /\ Level(K, Top.pc) \in Int
            /\ Level(K, Top.pc + 2) \in Int
        <5>1. Top.pc \in Int /\ Top.pc + 2 \in Int /\ Top.pc <= Top.pc + 2
          BY <1>2
        <5> QED
          BY <1>2, <5>1, Levels
      <4>3. Floor(f) = Top.pc + 2
        BY <1>2, <2>3 DEF Floor
      <4>4. Depth <= Level(K, Floor(f)) + 0
        BY <1>2, <4>1, <4>2, <4>3
      <4> QED
        BY <2>3, <4>4 DEF Bounded, DotModes, ClauseModes
    <3> QED
      BY <1>1, <2>3, <2>4, <3>2, <3>3, <3>4, LoopGoes
  <2> QED
    BY <1>1, <2>1, <2>4, ReturnSafe
<1>7. CASE RangeElement
  <2> DEFINE i == IF Top.i < Top.ow THEN Top.ow ELSE Top.i
             f == [Top EXCEPT !.i = i]
  <2>1. Top.mode = "range"
    BY <1>7 DEF RangeElement, In
  <2>2. \/ Out(f)
        \/ More(f) /\ Element(f) = BAD
        \/ More(f) /\ Element(f) # BAD /\ Visit(f, "range_back", f.pc)
    BY <1>7 DEF RangeElement
  <2>3. i \in Nat
    BY <1>2
  <2> HIDE DEF i
  <2>4. f \in Frame
    BY <1>2, <2>3, Zenon DEF Frame
  <2>5. f.own = Top.own /\ f.pc = Top.pc /\ f.tmp = Top.tmp /\ f.ctx = Top.ctx
        /\ f.inctx = Top.inctx /\ f.n = Top.n
    BY <1>2 DEF Frame
  <2> HIDE DEF f
  <2>6. OnPath(L, Aim(L), Top.pc)
    BY <1>2, <2>1 DEF Placed
  <2>7. Top.pc <= Len(prog) /\ Floor(Top) < Top.pc
    <3>1. Top.pc \in 1..Len(prog) /\ Len(prog) \in Nat
      BY <1>2, <2>6, PathEnds, LayoutTypes
    <3> QED
      BY <1>2, <2>1, <3>1 DEF Floor
  <2>8. Fits(call, heap, f)
    BY <1>2, <2>1, <2>5 DEF FrameSafe, Living, Counting, Fits
  <2>9. More(f) => Element(f) # BAD
    BY <2>4, <2>8, EntryIsThere
  <2>10. CASE Out(f)
    BY <1>1, <1>2, <2>5, <2>10, OutSafe
  <2>11. CASE More(f) /\ Element(f) # BAD /\ Visit(f, "range_back", f.pc)
    BY <1>1, <1>2, <2>1, <2>4, <2>5, <2>7, <2>11, VisitSafe
  <2> QED
    BY <2>2, <2>9, <2>10, <2>11
<1>8. CASE RangeBack
  <2>1. Top.mode = "range_back" /\ AfterVisit("RANGE", "range", "range")
    BY <1>8 DEF RangeBack, In
  <2> QED
    BY <1>1, <2>1, BackSafe
<1> QED
  BY <1>3, <1>4, <1>5, <1>6, <1>7, <1>8

\* FIND_ALL and csonpath_<op>_dotdot: each call goes down in the document.
LEMMA DescendSafe ==
  ASSUME NEW L, NEW K, NEW rk, Saving(L, K, rk), heap' = heap, Descend, Top.pc <= Len(prog)
  PROVE  StaysSafe(K, rk)
<1> DEFINE f == [Top EXCEPT !.el = Top.el]
           child == LoopChild(f, Top.el, f.pc, f.ci)
           dotdot == [child EXCEPT !.fn = "dotdot"]
           callee == Start(dotdot, "dot")
           waiting == [f EXCEPT !.mode = "dot_return"]
           going == NextEntry(f, "dot")
<1>1. /\ Top \in Frame /\ Top.pc \in Nat /\ call \in Calls /\ heap \in Heap /\ Top.n \in Nat
      /\ Depth \in Nat \ {0} /\ K \in Nat /\ rk \in [Nodes -> 0..K] /\ Top.own \in Nat
      /\ Top.tmp \in ValueSet /\ Top.el \in ValueSet /\ Top.ci \in ChildInfo
      /\ FrameSafe(call, K, rk, heap, Depth, Top) /\ Op(Top) \notin CreateOps
  BY SavingTop, FrameFields
<1>2. Top.mode = "descend" /\ call' = call
  BY DEF Descend, In
<1>3. Alive(heap, Top.el) /\ Alive(heap, Top.tmp) /\ Fits(call, heap, Top) /\ Top.tmp \in Nodes
      /\ (Top.el \in Nodes => rk[Top.tmp] < rk[Top.el])
      /\ Depth <= Level(K, Top.pc) + rk[Top.tmp]
  BY <1>1, <1>2 DEF FrameSafe, Living, Ranking, Counting, Holding, Fetched, DotModes, Bounded, Floor
<1>4. \/ IsContainer(heap, Top.el) /\ Enter(waiting, callee)
      \/ Go(going)
  BY <1>1, <1>3 DEF Descend, Alive
<1>5. f = Top
  BY <1>1, Zenon DEF Frame
<1> HIDE DEF f
<1>6. /\ going.mode = "dot" /\ going.pc = Top.pc /\ going.tmp = Top.tmp /\ going.ctx = Top.ctx
      /\ going.inctx = Top.inctx /\ going.own = Top.own /\ going.n = Top.n
  BY <1>1, <1>5, NextEntryFields
<1> HIDE DEF going
<1>7. Level(K, Top.pc) \in Int
  <2>1. Top.pc \in Int
    BY <1>1
  <2> QED
    BY <1>1, <2>1, LevelType
<1>8. CASE Go(going)
  <2>1. Living(call, heap, going)
    BY <1>3, <1>6 DEF Living, Fits, ClauseModes
  <2>2. Ranking(rk, going)
    BY <1>3, <1>6 DEF Ranking, Fetched, LoopBacks, ClauseModes
  <2>3. Bounded(K, rk, Depth, going)
    BY <1>3, <1>6 DEF Bounded, Floor, DotModes, ClauseModes
  <2> QED
    BY <1>2, <1>6, <1>8, <2>1, <2>2, <2>3, LoopGoes
<1>9. CASE IsContainer(heap, Top.el) /\ Enter(waiting, callee)
  <2>1. Top.el \in Nodes /\ rk[Top.tmp] \in Nat /\ rk[Top.el] \in Nat /\ rk[Top.tmp] + 1 <= rk[Top.el]
    <3>1. Top.el \in Nodes
      BY <1>9 DEF IsContainer, IsObj, IsArray, IsKind
    <3>2. rk[Top.tmp] \in Nat /\ rk[Top.el] \in Nat
      BY <1>1, <1>3, <3>1
    <3> QED
      BY <1>3, <3>1, <3>2
  <2>2. /\ child \in Frame /\ child.own = Top.own /\ child.pc = Top.pc /\ child.tmp = Top.el
        /\ child.ctx = Top.tmp /\ child.inctx = Top.tmp
    <3>1. child = NewFrame(Top.pc, Top.el, Top.tmp, Top.ci, Top.own)
      BY <1>5 DEF LoopChild
    <3> HIDE DEF child
    <3>2. child \in Frame
      BY <1>1, <3>1, NewFrameType
    <3> QED
      BY <3>1, <3>2 DEF NewFrame
  <2> HIDE DEF child
  <2>3. dotdot \in Frame
    BY <2>2, Zenon DEF Frame
  <2>4. /\ dotdot.own = Top.own /\ dotdot.pc = Top.pc /\ dotdot.tmp = Top.el
        /\ dotdot.ctx = Top.tmp /\ dotdot.inctx = Top.tmp
    BY <2>2 DEF Frame
  <2> HIDE DEF dotdot
  <2>5. /\ callee \in Frame /\ callee.own = Top.own /\ callee.pc = Top.pc /\ callee.mode = "dot"
        /\ callee.tmp = Top.el /\ callee.ctx = Top.tmp /\ callee.inctx = Top.tmp
        /\ callee.n = Size(heap, Top.el)
    <3>1. callee \in Frame
      BY <2>3, SavingTop, ModeNames, StartType
    <3>2. /\ callee.own = dotdot.own /\ callee.pc = dotdot.pc /\ callee.mode = "dot"
          /\ callee.tmp = dotdot.tmp /\ callee.ctx = dotdot.ctx /\ callee.inctx = dotdot.inctx
      BY <2>3, StartFields
    <3>3. dotdot.tmp \in Nodes => callee.n = Size(heap, dotdot.tmp)
      BY <2>3, StartFields
    <3> HIDE DEF callee
    <3> QED
      BY <2>1, <2>4, <3>1, <3>2, <3>3
  <2>6. waiting \in Frame
    BY <1>1, <1>5, Zenon DEF Frame, WaitingModes
  <2>7. /\ waiting.own = Top.own /\ waiting.mode = "dot_return" /\ waiting.pc = Top.pc
        /\ waiting.tmp = Top.tmp /\ waiting.ctx = Top.ctx /\ waiting.inctx = Top.inctx
        /\ waiting.el = Top.el /\ waiting.n = Top.n
    BY <1>1, <1>5 DEF Frame
  <2> HIDE DEF callee, waiting
  <2>8. FrameSafe(call, K, rk, heap, Depth, waiting)
    <3>1. Living(call, heap, waiting)
      BY <1>3, <2>7 DEF Living, Fits, Counting, ClauseModes
    <3>2. Ranking(rk, waiting)
      BY <1>3, <2>7 DEF Ranking
    <3>3. Bounded(K, rk, Depth, waiting)
      BY <1>3, <2>7 DEF Bounded, Floor, DotModes, ClauseModes
    <3>4. InStep(call, waiting)
      BY <2>7 DEF InStep, Stepping
    <3> QED
      BY <3>1, <3>2, <3>3, <3>4 DEF FrameSafe
  <2>9. OwnSafe(call, heap, waiting) /\ OwnSafe(call, heap, callee)
    BY <2>5, <2>7 DEF OwnSafe, Pending
  <2>10. Succeeds(rk, waiting)
    BY <2>7, SameSucceeds DEF Pending
  <2>11. FrameSafe(call, K, rk, heap, Depth + 1, callee)
    <3>1. Living(call, heap, callee)
      <4>1. Size(heap, Top.el) \in Nat
        BY <1>1, <2>1, KidsType
      <4> QED
        BY <1>3, <2>5, <4>1 DEF Living, Fits, ClauseModes
    <3>2. Ranking(rk, callee)
      BY <2>1, <2>5 DEF Ranking, Fetched, LoopBacks, ClauseModes
    <3>3. Bounded(K, rk, Depth + 1, callee)
      <4>1. Depth + 1 <= Level(K, Top.pc) + rk[Top.el]
        BY <1>1, <1>3, <1>7, <2>1
      <4> QED
        BY <2>5, <4>1 DEF Bounded, Floor, DotModes, ClauseModes
    <3>4. InStep(call, callee)
      BY <2>5 DEF InStep, Stepping
    <3> QED
      BY <3>1, <3>2, <3>3, <3>4 DEF FrameSafe
  <2>12. \A d \in 1..(Depth - 1) : PairSafe(call, rk, d, stack[d], Depth + 1, callee)
    <3>1. callee.tmp \in Nodes => Top.tmp \in Nodes /\ rk[Top.tmp] <= rk[callee.tmp]
      BY <1>3, <2>1, <2>5
    <3> QED
      BY <2>5, <3>1, CalleeSucceeds
  <2>13. PairSafe(call, rk, Depth, waiting, Depth + 1, callee)
    <3>1. waiting.mode \in LoopBacks
      BY <2>7 DEF LoopBacks
    <3>2. Below(rk, waiting, callee.tmp)
      BY <1>3, <2>1, <2>5, <2>7, <3>1 DEF Below
    <3> QED
      BY <2>5, <2>7, <3>1, <3>2 DEF PairSafe, Direct
  <2>14. Depth + 1 <= Room(call, K)
    <3>1. Floor(callee) <= Len(prog) /\ callee.pc \in Nat /\ Depth + 1 \in Int
      BY <1>1, <2>5 DEF Floor
    <3> QED
      BY <2>11, <3>1, RoomFor
  <2> QED
    BY <1>2, <1>9, <2>5, <2>6, <2>8, <2>9, <2>10, <2>11, <2>12, <2>13, <2>14, EnterSafe
<1> QED
  BY <1>4, <1>8, <1>9

LEMMA DescentSafe ==
  ASSUME NEW L, NEW K, NEW rk, Saving(L, K, rk), heap' = heap,
         FindAll \/ DotElement \/ DotBack \/ Descend \/ DotReturn
  PROVE  StaysSafe(K, rk)
<1>1. call' = call
  BY DEF FindAll, DotElement, DotBack, Descend, DotReturn
<1>2. /\ Top \in Frame /\ Top.pc \in Nat /\ call \in Calls /\ Laid(prog, L) /\ heap \in Heap
      /\ Placed(prog, L, Aim(L), Top) /\ Depth \in Nat /\ Op(Top) \notin CreateOps
      /\ K \in Nat /\ rk \in [Nodes -> 0..K] /\ IInv
      /\ FrameSafe(call, K, rk, heap, Depth, Top)
  BY SavingTop, WalkingTop, FrameFields
<1>3. OnPath(L, Aim(L), Top.pc) /\ Is(prog, Top.pc, {"FIND_ALL"})
  <2>1. CASE FindAll
    BY <1>2, <2>1, AtInst, SavingTop DEF FindAll
  <2>2. CASE ~FindAll
    <3>1. Top.mode \in DotModes
      BY <2>2 DEF DotElement, DotBack, Descend, DotReturn, In, DotModes
    <3> QED
      BY <1>2, <3>1 DEF Placed, DotModes
  <2> QED
    BY <2>1, <2>2
<1>4. OnPath(L, Aim(L), Top.pc + 1)
  <2>1. ~Is(prog, Top.pc, FilterOps \cup {"END", "RANGE", "GET_SUBPATH"})
    BY <1>3 DEF Is, FilterOps
  <2> QED
    BY <1>2, <1>3, <2>1, GoesOn
<1>5. Top.pc \in 1..Len(prog) /\ Top.pc + 1 \in 1..Len(prog) /\ Len(prog) \in Nat
      /\ DOMAIN prog = 1..Len(prog)
  BY <1>2, <1>3, <1>4, PathEnds, LayoutTypes
<1>6. CASE FindAll
  <2> DEFINE f == [Top EXCEPT !.fn = "dotdot"]
             g == Start(f, "dot")
  <2>1. Top.mode = "inst" /\ ((IsContainer(heap, Top.tmp) /\ Go(g)) \/ Leave(None))
    BY <1>6 DEF FindAll, At_, In
  <2>2. f \in Frame
    BY <1>2, Zenon DEF Frame
  <2>3. f.own = Top.own /\ f.pc = Top.pc /\ f.tmp = Top.tmp /\ f.ctx = Top.ctx /\ f.inctx = Top.inctx
    BY <1>2 DEF Frame
  <2> HIDE DEF f
  <2>4. /\ g.own = Top.own /\ g.mode = "dot" /\ g.pc = Top.pc /\ g.tmp = Top.tmp /\ g.ctx = Top.ctx
        /\ g.inctx = Top.inctx /\ (Top.tmp \in Nodes => g.n = Size(heap, Top.tmp))
    <3>1. /\ g.own = f.own /\ g.mode = "dot" /\ g.pc = f.pc /\ g.tmp = f.tmp /\ g.ctx = f.ctx
          /\ g.inctx = f.inctx
      BY <2>2, StartFields
    <3>2. f.tmp \in Nodes => g.n = Size(heap, f.tmp)
      BY <2>2, StartFields
    <3> QED
      BY <2>3, <3>1, <3>2
  <2> HIDE DEF g
  <2>5. CASE IsContainer(heap, Top.tmp) /\ Go(g)
    <3>1. Top.tmp \in Nodes /\ Size(heap, Top.tmp) \in Nat /\ rk[Top.tmp] \in Nat
      <4>1. Top.tmp \in Nodes
        BY <2>5 DEF IsContainer, IsObj, IsArray, IsKind
      <4> QED
        BY <1>2, <4>1, KidsType
    <3>2. Living(call, heap, g)
      BY <1>2, <2>4, <3>1 DEF Living, Fits, FrameSafe, ClauseModes
    <3>3. Ranking(rk, g)
      BY <2>4, <3>1 DEF Ranking, Fetched, LoopBacks, ClauseModes
    <3>4. Bounded(K, rk, Depth, g)
      <4>1. Depth <= Level(K, Top.pc) /\ Level(K, Top.pc) \in Int
        BY <1>2, <2>1, TopBounded, Levels DEF Floor, DotModes
      <4>2. Depth <= Level(K, Top.pc) + rk[Top.tmp]
        BY <1>2, <3>1, <4>1
      <4> QED
        BY <2>4, <4>2 DEF Bounded, Floor, DotModes, ClauseModes
    <3> QED
      BY <1>1, <2>4, <2>5, <3>2, <3>3, <3>4, LoopGoes
  <2> QED
    BY <1>1, <2>1, <2>5, ReturnSafe
<1>7. CASE DotElement
  <2> DEFINE ci == CurrentInfo(Top)
             el == Element(Top)
             f  == [Top EXCEPT !.ci = ci, !.rl = FALSE, !.el = el]
             g  == [f EXCEPT !.mode = "descend"]
  <2>1. Top.mode = "dot" /\ Top.tmp \in Nodes /\ Alive(heap, Top.tmp) /\ Fits(call, heap, Top)
        /\ Depth <= Level(K, Top.pc) + rk[Top.tmp]
    BY <1>2, <1>7 DEF DotElement, In, FrameSafe, Living, Ranking, Counting, Holding, DotModes,
                      Bounded, Floor
  <2>2. More(Top) => /\ el # BAD /\ Alive(heap, el) /\ el \in ValueSet
                     /\ el \in Nodes => rk[Top.tmp] < rk[el]
    BY <1>2, <2>1, EntryIsThere
  <2>3. Op(Top) # "update_or_create_callback"
    BY <1>2 DEF CreateOps
  <2>4. \/ Out(Top)
        \/ More(Top) /\ DotMatches(Top) /\ Visit(Top, "dot_back", Top.pc + 1)
        \/ More(Top) /\ Go(g)
    BY <1>7, <2>2, <2>3 DEF DotElement
  <2>5. /\ g.mode = "descend" /\ g.own = Top.own /\ g.pc = Top.pc /\ g.tmp = Top.tmp
        /\ g.ctx = Top.ctx /\ g.inctx = Top.inctx /\ g.n = Top.n /\ g.el = el
    BY <1>2 DEF Frame
  <2> HIDE DEF g, f, ci
  <2>6. CASE Out(Top)
    BY <1>1, <1>2, <2>6, OutSafe
  <2>7. CASE More(Top) /\ DotMatches(Top) /\ Visit(Top, "dot_back", Top.pc + 1)
    <3>1. Removing(call, Top) => NeedForeachRedo(be, heap, Top.tmp)
      <4> SUFFICES ASSUME Removing(call, Top), be # "python"
                   PROVE  IsObj(heap, Top.tmp)
        BY DEF NeedForeachRedo
      <4>1. call.op = "remove" /\ RemovesSafely(call, L)
        BY SavingTop DEF Survives, ReadsOnly, Removing, FindOps
      <4>2. call.be \in Writable
        BY <1>2, <4>1, CallAssumption DEF FindOps
      <4>3. NoWildcard(prog)
        BY <4>1, <4>2 DEF Writable, RemovesSafely, prog, be
      <4>4. Here.key # Wildcard
        BY <1>3, <1>5, <4>3 DEF NoWildcard, Here, Code
      <4> QED
        BY <2>7, <4>4 DEF DotMatches
    <3>2. Top.pc + 1 \in Nat /\ Floor(Top) < Top.pc + 1 /\ Top.pc + 1 <= Len(prog)
      BY <1>2, <1>5, <2>1 DEF Floor
    <3>3. Element(Top) # BAD
      BY <2>2, <2>7
    <3> HIDE DEF el
    <3> QED
      BY <1>1, <1>2, <2>1, <2>7, <3>1, <3>2, <3>3, VisitSafe
  <2>8. CASE More(Top) /\ Go(g)
    <3> HIDE DEF el
    <3>1. Living(call, heap, g)
      BY <2>1, <2>2, <2>5, <2>8 DEF Living, Fits, ClauseModes
    <3>2. Ranking(rk, g)
      BY <2>1, <2>2, <2>5, <2>8 DEF Ranking
    <3>3. Bounded(K, rk, Depth, g)
      BY <2>1, <2>5 DEF Bounded, Floor, DotModes, ClauseModes
    <3> QED
      BY <1>1, <2>5, <2>8, <3>1, <3>2, <3>3, LoopGoes
  <2> QED
    BY <2>4, <2>6, <2>7, <2>8
<1>8. CASE DotBack
  <2>1. Top.mode = "dot_back" /\ AfterVisit("ALL", "dot", "descend")
    BY <1>8 DEF DotBack, In
  <2> QED
    BY <1>1, <2>1, BackSafe
<1>9. CASE DotReturn
  <2>1. Top.mode = "dot_return" /\ AfterVisit("ALL", "dot", "dot")
    BY <1>9 DEF DotReturn, In
  <2> QED
    BY <1>1, <2>1, BackSafe
<1>10. CASE Descend
  <2>1. Top.pc <= Len(prog)
    BY <1>5
  <2> QED
    BY <1>10, <2>1, DescendSafe
<1> QED
  BY <1>6, <1>7, <1>8, <1>9, <1>10

--------------------------------------------------------------------------------
(***************************************************************************)
(* Filters.                                                                *)
(***************************************************************************)
LEMMA StartClauseSafe ==
  ASSUME NEW L, NEW K, NEW rk, Saving(L, K, rk), call' = call, heap' = heap,
         Top.mode \in ClauseModes \cup {"filter"}, Top.tmp \in Nodes,
         NEW el, Alive(heap, el), el \in Nodes => rk[Top.tmp] < rk[el],
         NEW op \in Nat, Top.pc <= op, Go(StartClause(Top, el, op))
  PROVE  StaysSafe(K, rk)
<1> DEFINE cnt == IF op # Top.pc /\ Code(op + 1).num > 127 THEN 0 ELSE Code(op + 1).cnt
           ci  == IF Op(Top) = "remove" THEN IdxInfo(Top.i) ELSE Top.ci
           opn == Code(op).inst
           f   == [Top EXCEPT !.mode = "crawl", !.opn = opn, !.ow = op + 2, !.cnt = cnt,
                            !.el = el, !.el2 = el, !.ci = ci]
<1>1. Top \in Frame /\ FrameSafe(call, K, rk, heap, Depth, Top) /\ Top.pc \in Nat
  BY SavingTop, FrameFields
<1>2. Go(f)
  BY DEF StartClause
<1> HIDE DEF cnt, ci, opn
<1>3. /\ f.own = Top.own /\ f.mode = "crawl" /\ f.pc = Top.pc /\ f.tmp = Top.tmp /\ f.ctx = Top.ctx
      /\ f.inctx = Top.inctx /\ f.n = Top.n /\ f.el = el /\ f.ow = op + 2
  BY <1>1 DEF Frame
<1> HIDE DEF f
<1>4. Living(call, heap, f)
  BY <1>1, <1>3 DEF FrameSafe, Living, Fits, Counting, ClauseModes
<1>5. Ranking(rk, f)
  BY <1>3 DEF Ranking
<1>6. Bounded(K, rk, Depth, f)
  <2>1. f.pc < f.ow
    BY <1>1, <1>3
  <2> QED
    BY <1>1, <1>3, <2>1 DEF FrameSafe, Bounded, Floor, DotModes, ClauseModes
<1>7. f.mode \in ClauseModes
  BY <1>3 DEF ClauseModes
<1> QED
  BY <1>2, <1>3, <1>4, <1>5, <1>6, <1>7, LoopGoes

LEMMA NextObject ==
  ASSUME NEW L, NEW K, NEW rk, Saving(L, K, rk), call' = call, heap' = heap,
         Top.mode \in ClauseModes \cup {"filter"}, Top.tmp \in Nodes, Go(NextEntry(Top, "filter"))
  PROVE  StaysSafe(K, rk)
<1> DEFINE f == NextEntry(Top, "filter")
<1>1. Top \in Frame /\ FrameSafe(call, K, rk, heap, Depth, Top)
  BY SavingTop
<1>2. /\ f.own = Top.own /\ f.mode = "filter" /\ f.pc = Top.pc /\ f.tmp = Top.tmp /\ f.ctx = Top.ctx
      /\ f.inctx = Top.inctx /\ f.n = Top.n
  BY <1>1, NextEntryFields
<1> HIDE DEF f
<1>3. Living(call, heap, f)
  BY <1>1, <1>2 DEF FrameSafe, Living, Fits, Counting, ClauseModes
<1>4. Ranking(rk, f)
  BY <1>2 DEF Ranking, Fetched, LoopBacks, ClauseModes
<1>5. Bounded(K, rk, Depth, f)
  BY <1>1, <1>2 DEF FrameSafe, Bounded, Floor, DotModes, ClauseModes
<1> QED
  BY <1>2, <1>3, <1>4, <1>5, LoopGoes DEF f

\* The comparison is made; the rest of the path is called on the object.
LEMMA JudgeSafe ==
  ASSUME NEW L, NEW K, NEW rk, Saving(L, K, rk), call' = call, heap' = heap,
         Top.mode \in {"match", "operand"}, NEW ow \in Nat, NEW match, Judge(ow, match),
         OnPath(L, Aim(L), Top.pc), NEW q \in L.clauses, L.exit[q] = Aim(L),
         match => ow = AfterClause(prog, L, q) /\ Top.pc < ow
  PROVE  StaysSafe(K, rk)
<1> DEFINE f == [Top EXCEPT !.ow = ow, !.mode = "filter_back", !.rl = FALSE]
           g == LoopChild(f, f.el, ow, IdxInfo(f.i))
<1>1. /\ Top \in Frame /\ Top.el \in ValueSet /\ Top.tmp \in ValueSet /\ Top.own \in Nat
      /\ Top.i \in Int /\ call \in Calls /\ Laid(prog, L) /\ ow + 1 \in Nat /\ Top.pc \in Nat
      /\ FrameSafe(call, K, rk, heap, Depth, Top) /\ Depth \in Nat
      /\ K \in Nat /\ rk \in [Nodes -> 0..K] /\ NULL \notin Nodes
  BY SavingTop, FrameFields
<1>2. /\ Top.mode \in ClauseModes /\ Top.tmp \in Nodes /\ Alive(heap, Top.el) /\ Alive(heap, Top.tmp)
      /\ (Top.el \in Nodes => rk[Top.tmp] < rk[Top.el]) /\ Fits(call, heap, Top)
      /\ Floor(Top) = Top.pc
  BY <1>1 DEF FrameSafe, Living, Ranking, Holding, Fetched, Counting, ClauseModes, Floor
<1>3. \/ Go(NextEntry(Top, "filter"))
      \/ match /\ Go(StartClause(Top, Top.el, ow + 1))
      \/ match /\ ~Is(prog, ow, {"FILTER_AND"}) /\ Enter(f, g)
  BY DEF Judge, Is, Code
<1>4. CASE match /\ Go(StartClause(Top, Top.el, ow + 1))
  <2>1. Top.pc <= ow + 1
    BY <1>1, <1>4
  <2> QED
    BY <1>1, <1>2, <1>4, <2>1, StartClauseSafe
<1>5. CASE match /\ ~Is(prog, ow, {"FILTER_AND"}) /\ Enter(f, g)
  <2>1. OnPath(L, Aim(L), ow)
    <3>1. ClauseLaid(prog, L, q)
      BY <1>1 DEF Laid
    <3> QED
      BY <1>5, <3>1 DEF ClauseLaid, SamePath, OnPath
  <2>2. ow \in 1..Len(prog) /\ Top.pc \in 1..Len(prog) /\ ow # 1
    BY <1>1, <1>5, <2>1, PathEnds
  <2>3. f \in Frame
    BY <1>1, Zenon DEF Frame, WaitingModes
  <2>4. /\ f.own = Top.own /\ f.mode = "filter_back" /\ f.pc = Top.pc /\ f.ow = ow /\ f.tmp = Top.tmp
        /\ f.ctx = Top.ctx /\ f.inctx = Top.inctx /\ f.el = Top.el /\ f.n = Top.n /\ f.i = Top.i
    BY <1>1 DEF Frame
  <2> HIDE DEF f
  <2>5. /\ g \in Frame /\ g.own = Top.own /\ g.mode = "inst" /\ g.pc = ow /\ g.tmp = Top.el
        /\ g.ctx = Top.tmp /\ g.inctx = Top.tmp
    <3>1. IdxInfo(f.i) \in ChildInfo
      BY <1>1, <2>4, InfoType
    <3>2. g = NewFrame(ow, Top.el, Top.tmp, IdxInfo(f.i), Top.own)
      BY <2>4 DEF LoopChild
    <3> HIDE DEF g
    <3>3. g \in Frame
      BY <1>1, <3>1, <3>2, NewFrameType
    <3> QED
      BY <3>2, <3>3 DEF NewFrame
  <2> HIDE DEF g
  <2>6. FrameSafe(call, K, rk, heap, Depth, f)
    <3>1. Living(call, heap, f)
      BY <1>2, <2>4 DEF Living, Fits, ClauseModes
    <3>2. Ranking(rk, f)
      BY <1>2, <2>4 DEF Ranking
    <3>3. Bounded(K, rk, Depth, f)
      BY <1>1, <1>2, <2>4 DEF FrameSafe, Bounded, Floor, DotModes, ClauseModes
    <3>4. InStep(call, f)
      BY <2>4 DEF InStep, Stepping
    <3> QED
      BY <3>1, <3>2, <3>3, <3>4 DEF FrameSafe
  <2>7. OwnSafe(call, heap, f)
    <3>1. Removing(call, f) /\ call.be = "python" => ~Is(call.prog, ow, Stays)
      <4> SUFFICES ASSUME Removing(call, f), call.be = "python"
                   PROVE  ~Is(call.prog, ow, Stays)
        OBVIOUS
      <4>1. RemovesSafely(call, L)
        BY SavingTop DEF Survives, ReadsOnly, Removing, FindOps
      <4>2. FiltersGoOn(call.prog, L)
        BY <4>1 DEF RemovesSafely
      <4> QED
        BY <1>5, <4>2 DEF FiltersGoOn, prog
    <3> QED
      BY <2>4, <3>1 DEF OwnSafe, Pending
  <2>8. Succeeds(rk, f)
    BY <2>4, SameSucceeds DEF Pending
  <2>9. FrameSafe(call, K, rk, heap, Depth + 1, g)
    <3>1. Alive(heap, g.tmp) /\ g.pc \in Nat /\ Floor(Top) < g.pc /\ Depth + 1 <= Depth + 1
          /\ Depth + 1 \in Int
      BY <1>1, <1>2, <1>5, <2>5
    <3> QED
      BY <2>5, <3>1, MovesOn
  <2>10. OwnSafe(call, heap, g)
    BY <1>1, <1>2, <2>2, <2>5 DEF OwnSafe
  <2>11. \A d \in 1..(Depth - 1) : PairSafe(call, rk, d, stack[d], Depth + 1, g)
    <3>1. g.tmp \in Nodes => Top.tmp \in Nodes /\ rk[Top.tmp] <= rk[g.tmp]
      <4>1. \A n \in Nodes : rk[n] \in Nat
        BY <1>1
      <4> QED
        BY <1>2, <2>5, <4>1
    <3> QED
      BY <2>5, <3>1, CalleeSucceeds
  <2>12. PairSafe(call, rk, Depth, f, Depth + 1, g)
    <3>1. f.mode \in LoopBacks
      BY <2>4 DEF LoopBacks
    <3>2. Below(rk, f, g.tmp)
      <4>1. \A n \in Nodes : rk[n] \in Nat
        BY <1>1
      <4> QED
        BY <1>2, <2>4, <2>5, <3>1, <4>1 DEF Below
    <3> QED
      BY <2>4, <2>5, <3>1, <3>2 DEF PairSafe, Direct
  <2>13. Depth + 1 <= Room(call, K)
    <3>1. Floor(g) <= Len(prog) /\ g.pc \in Nat /\ Depth + 1 \in Int
      BY <1>1, <2>2, <2>5 DEF Floor
    <3> QED
      BY <2>9, <3>1, RoomFor
  <2> QED
    BY <1>5, <2>3, <2>5, <2>6, <2>7, <2>8, <2>9, <2>10, <2>11, <2>12, <2>13, EnterSafe
<1> QED
  BY <1>2, <1>3, <1>4, <1>5, NextObject

LEMMA FilteringSafe ==
  ASSUME NEW L, NEW K, NEW rk, Saving(L, K, rk), heap' = heap, Filtering
  PROVE  StaysSafe(K, rk)
<1>1. call' = call
  BY DEF Filtering, Filter, FilterElement, Crawl, Match, AfterOperand, FilterBack, PreLoop
<1>2. /\ Top \in Frame /\ Top.pc \in Nat /\ Top.ow \in Nat /\ Top.sent \in Nat
      /\ Top.cnt \in Int /\ Top.own \in Nat /\ Top.ow + 1 \in Nat /\ Top.sent + 1 \in Nat
      /\ call \in Calls /\ Laid(prog, L) /\ Placed(prog, L, Aim(L), Top) /\ IInv
      /\ FrameSafe(call, K, rk, heap, Depth, Top) /\ Depth \in Nat
  BY SavingTop, WalkingTop, FrameFields
<1>3. ASSUME Top.mode \in ClauseModes
      PROVE  /\ OnPath(L, Aim(L), Top.pc) /\ Top.pc < Top.ow
             /\ \E q \in L.clauses : InClause(prog, L, Aim(L), q, Top)
             /\ Top.tmp \in Nodes /\ Floor(Top) = Top.pc /\ Alive(heap, Top.tmp)
             /\ Depth <= Level(K, Top.pc)
  <2>1. OnPath(L, Aim(L), Top.pc) /\ \E q \in L.clauses : InClause(prog, L, Aim(L), q, Top)
    BY <1>2, <1>3 DEF Placed, ClauseModes
  <2>2. Top.pc < Top.ow /\ Top.tmp \in Nodes /\ Alive(heap, Top.tmp)
    BY <1>2, <1>3 DEF FrameSafe, Bounded, Ranking, Holding, Living
  <2>3. Floor(Top) = Top.pc /\ Top.mode \notin DotModes
    BY <1>3 DEF Floor, ClauseModes, DotModes
  <2> QED
    BY <2>1, <2>2, <2>3, TopBounded
<1>4. CASE Filter
  <2>1. Top.mode = "inst" /\ PreLoop(Top, "obj", "filter")
    BY <1>4 DEF Filter, At_, In
  <2> QED
    BY <1>1, <2>1, PreLoopSafe
<1>5. CASE FilterElement
  <2>1. Top.mode = "filter" /\ Top.mode \in Counting
    BY <1>5 DEF FilterElement, In, Counting
  <2>2. Fits(call, heap, Top)
    BY <1>2, <2>1 DEF FrameSafe, Living
  <2>3. More(Top) => /\ Element(Top) # BAD /\ Top.tmp \in Nodes /\ Alive(heap, Element(Top))
                     /\ Element(Top) \in Nodes => rk[Top.tmp] < rk[Element(Top)]
    BY <1>2, <2>2, EntryIsThere
  <2>4. \/ Out(Top)
        \/ More(Top) /\ Go(StartClause(Top, Element(Top), Top.pc))
        \/ More(Top) /\ Go(NextEntry(Top, "filter"))
    BY <1>5, <2>3 DEF FilterElement
  <2>5. CASE Out(Top)
    BY <1>1, <1>2, <2>5, OutSafe
  <2>6. CASE More(Top) /\ Go(StartClause(Top, Element(Top), Top.pc))
    BY <1>1, <1>2, <2>1, <2>3, <2>6, StartClauseSafe
  <2>7. CASE More(Top) /\ Go(NextEntry(Top, "filter"))
    BY <1>1, <2>1, <2>3, <2>7, NextObject
  <2> QED
    BY <2>4, <2>5, <2>6, <2>7
<1>6. CASE Crawl
  <2> DEFINE v == Get(heap, Top.el2, Code(Top.ow).key)
             f == [Top EXCEPT !.el2 = v, !.ow = Top.ow + 1, !.cnt = Top.cnt - 1]
             g == [Top EXCEPT !.mode = "match"]
  <2>1. Go(g) \/ Go(f)
    BY <1>6 DEF Crawl
  <2>2. Top.mode = "crawl" /\ Top.mode \in ClauseModes
    BY <1>6 DEF Crawl, In, ClauseModes
  <2>3. \A x \in {f, g} :
          /\ x.own = Top.own /\ x.mode \in {"crawl", "match"} /\ x.pc = Top.pc /\ x.tmp = Top.tmp
          /\ x.ctx = Top.ctx /\ x.inctx = Top.inctx /\ x.el = Top.el /\ x.n = Top.n
          /\ x.ow \in {Top.ow, Top.ow + 1}
    BY <1>2, <2>2 DEF Frame
  <2> HIDE DEF f, g
  <2>4. PICK x \in {f, g} : Go(x)
    BY <2>1
  <2>5. Living(call, heap, x)
    BY <1>2, <2>2, <2>3 DEF FrameSafe, Living, Fits, Counting, ClauseModes
  <2>6. Ranking(rk, x)
    BY <1>2, <2>2, <2>3 DEF FrameSafe, Ranking, Holding, Fetched, ClauseModes
  <2>7. Bounded(K, rk, Depth, x)
    <3>1. x.pc < x.ow
      BY <1>2, <1>3, <2>2, <2>3
    <3> QED
      BY <1>2, <2>2, <2>3, <3>1 DEF FrameSafe, Bounded, Floor, DotModes, ClauseModes
  <2>8. x.mode \in ClauseModes
    BY <2>3 DEF ClauseModes
  <2> QED
    BY <1>1, <2>3, <2>4, <2>5, <2>6, <2>7, <2>8, LoopGoes
<1>7. CASE Match
  <2>1. Top.mode = "match" /\ Top.mode \in ClauseModes
    BY <1>7 DEF Match, In, ClauseModes
  <2>2. PICK q \in L.clauses : InClause(prog, L, Aim(L), q, Top)
    BY <1>3, <2>1
  <2>3. /\ L.exit[q] = Aim(L) /\ Top.opn = CellAt(prog, q).inst
        /\ Top.cnt = 0 /\ Top.ow = OperandAt(prog, q)
    BY <1>2, <2>1, <2>2 DEF InClause
  <2>4. Is(prog, q, {"FILTER_KEY_EXIST"}) <=> Top.opn = "FILTER_KEY_EXIST"
    BY <2>3 DEF Is
  <2>5. \/ Top.opn = "FILTER_KEY_EXIST" /\ \E match : Judge(Top.ow, match)
        \/ /\ Top.opn # "FILTER_KEY_EXIST" /\ Is(prog, Top.ow, {"GET_SUBPATH"})
           /\ Enter([Top EXCEPT !.mode = "operand", !.sent = Top.ow],
                    NewFrame(Top.ow + 1, call.root, NULL, NoInfo, Depth))
        \/ /\ Top.opn # "FILTER_KEY_EXIST" /\ ~Is(prog, Top.ow, {"GET_SUBPATH"})
           /\ \E match : Judge(Top.ow + 1, match)
    <3>1. ConstantAt(Top.opn, Top.ow) = CellAt(prog, Top.ow) /\ ~RegexIsOpcode(Top.opn, Top.ow)
      BY <1>2, <2>2, <2>3, RegexOperand
    <3> QED
      BY <1>7, <3>1 DEF Match, Is, Code
  <2>6. CASE Top.opn = "FILTER_KEY_EXIST" /\ \E match : Judge(Top.ow, match)
    <3>1. Top.ow = AfterClause(prog, L, q)
      BY <2>3, <2>4, <2>6 DEF AfterClause
    <3> QED
      BY <1>1, <1>2, <1>3, <2>1, <2>3, <2>6, <3>1, JudgeSafe
  <2>7. CASE /\ Top.opn # "FILTER_KEY_EXIST" /\ ~Is(prog, Top.ow, {"GET_SUBPATH"})
             /\ \E match : Judge(Top.ow + 1, match)
    <3>1. Top.ow + 1 = AfterClause(prog, L, q)
      BY <2>3, <2>4, <2>7 DEF AfterClause
    <3>2. Top.pc < Top.ow + 1
      BY <1>2, <1>3, <2>1
    <3> QED
      BY <1>1, <1>2, <1>3, <2>1, <2>3, <2>7, <3>1, <3>2, JudgeSafe
  <2>8. CASE /\ Top.opn # "FILTER_KEY_EXIST" /\ Is(prog, Top.ow, {"GET_SUBPATH"})
             /\ Enter([Top EXCEPT !.mode = "operand", !.sent = Top.ow],
                      NewFrame(Top.ow + 1, call.root, NULL, NoInfo, Depth))
    <3> DEFINE f == [Top EXCEPT !.mode = "operand", !.sent = Top.ow]
    <3>1. ClauseLaid(prog, L, q)
      BY <1>2 DEF Laid
    <3>2. SubpathAt(L, Top.ow + 1)
      BY <2>3, <2>4, <2>8, <3>1 DEF ClauseLaid
    <3>3. Top.ow + 1 <= Len(prog)
      BY <1>2, <3>2, LayoutTypes DEF SubpathAt
    <3>4. f \in Frame
      BY <1>2, Zenon DEF Frame, WaitingModes, SubpathModes
    <3>5. /\ f.mode = "operand" /\ f.pc = Top.pc /\ f.tmp = Top.tmp /\ f.ctx = Top.ctx
          /\ f.inctx = Top.inctx /\ f.own = Top.own /\ f.el = Top.el /\ f.n = Top.n /\ f.ow = Top.ow
      BY <1>2 DEF Frame
    <3>6. Enter(f, NewFrame(Top.ow + 1, call.root, NULL, NoInfo, Depth))
      BY <2>8
    <3> HIDE DEF f
    <3>7. FrameSafe(call, K, rk, heap, Depth, f)
      <4>1. Living(call, heap, f)
        BY <1>2, <2>1, <3>5 DEF FrameSafe, Living, Fits, Counting, ClauseModes
      <4>2. Ranking(rk, f)
        BY <1>2, <2>1, <3>5 DEF FrameSafe, Ranking, Holding, Fetched, ClauseModes
      <4>3. Bounded(K, rk, Depth, f)
        BY <1>2, <2>1, <3>5 DEF FrameSafe, Bounded, Floor, DotModes, ClauseModes
      <4>4. InStep(call, f)
        BY <3>5 DEF InStep, Stepping
      <4> QED
        BY <4>1, <4>2, <4>3, <4>4 DEF FrameSafe
    <3>8. OwnSafe(call, heap, f)
      BY <3>5 DEF OwnSafe, Pending
    <3>9. Succeeds(rk, f)
      BY <3>5, SameSucceeds DEF Pending
    <3>10. Floor(Top) <= Top.ow
      BY <1>2, <1>3, <2>1
    <3> QED
      BY <1>1, <1>2, <3>3, <3>4, <3>6, <3>7, <3>8, <3>9, <3>10, SubpathSafe
  <2> QED
    BY <2>5, <2>6, <2>7, <2>8
<1>8. CASE AfterOperand
  <2>1. /\ Top.mode = "operand" /\ Top.mode \in ClauseModes
        /\ Judge(Top.sent + 1, MatchValue(Top.opn, Top.el2, ret.val))
    BY <1>8 DEF AfterOperand, In, ClauseModes
  <2>2. PICK q \in L.clauses : InClause(prog, L, Aim(L), q, Top)
    BY <1>3, <2>1
  <2>3. /\ L.exit[q] = Aim(L) /\ Top.ow = OperandAt(prog, q)
        /\ ~Is(prog, q, {"FILTER_KEY_EXIST"}) /\ Is(prog, Top.ow, {"GET_SUBPATH"})
    BY <1>2, <2>1, <2>2 DEF InClause, Is
  <2>4. ASSUME MatchValue(Top.opn, Top.el2, ret.val)
        PROVE  Top.sent + 1 = AfterClause(prog, L, q) /\ Top.pc < Top.sent + 1
    <3>1. ret.val # NULL
      BY <2>4, DocAssumption DEF MatchValue, IsNum, IsBool, IsStr, IsKind
    <3>2. Top.sent = L.exit[Top.ow + 1]
      BY <2>1, <3>1, SavingTop, WalkingTop DEF Arrived, OperandOf, SubpathModes
    <3>3. Top.ow + 1 <= L.exit[Top.ow + 1]
      <4>1. ClauseLaid(prog, L, q)
        BY <1>2 DEF Laid
      <4>2. OnPath(L, L.exit[Top.ow + 1], Top.ow + 1)
        BY <2>3, <4>1 DEF ClauseLaid, SubpathAt, OnPath
      <4> QED
        BY <1>2, <4>2, PathEnds
    <3> QED
      BY <1>2, <1>3, <2>1, <2>3, <3>2, <3>3 DEF AfterClause
  <2> QED
    BY <1>1, <1>2, <1>3, <2>1, <2>3, <2>4, JudgeSafe
<1>9. CASE FilterBack
  <2>1. Top.mode = "filter_back" /\ AfterVisit("FILTER", "filter", "filter")
    BY <1>9 DEF FilterBack, In
  <2> QED
    BY <1>1, <2>1, BackSafe
<1> QED
  BY <1>4, <1>5, <1>6, <1>7, <1>8, <1>9 DEF Filtering

--------------------------------------------------------------------------------
(***************************************************************************)
(* Unions.                                                                 *)
(***************************************************************************)
LEMMA MemberSafe ==
  ASSUME NEW L, NEW K, NEW rk, Saving(L, K, rk), call' = call, heap' = heap,
         NEW u \in 1..Len(prog), u + 1 <= Len(prog), Is(prog, u, {"GET_UNION", "UNION_JMP"}),
         Floor(Top) <= u, Top.mode \notin DotModes, Member(u + 1)
  PROVE  StaysSafe(K, rk)
<1> DEFINE ci == IF Op(Top) = "remove" THEN Top.ci ELSE InfoSet(heap, Top.tmp, NoKey, 0)
           f  == [Top EXCEPT !.mode = "union", !.pc = u + 1, !.cnt = 0, !.rl = FALSE]
           g  == NewFrame(u + 1, Top.tmp, NULL, ci, Top.own)
<1>1. /\ Top \in Frame /\ call \in Calls /\ Laid(prog, L) /\ Len(prog) \in Nat /\ Depth \in Nat
      /\ Top.tmp \in ValueSet /\ Top.own \in Nat /\ NULL \in ValueSet /\ NULL \notin Nodes
      /\ K \in Nat /\ rk \in [Nodes -> 0..K] /\ Alive(heap, Top.tmp)
      /\ u + 1 \in Nat /\ u + 1 # 1 /\ u + 1 - 1 = u
  BY SavingTop, FrameFields, LayoutTypes DEF ValueSet, FrameSafe, Living
<1>2. Enter(f, g)
  BY DEF Member
<1>3. ci \in ChildInfo
  <2>1. 0 \in Int /\ NoKey \in Text
    BY DEF Text
  <2>2. InfoSet(heap, Top.tmp, NoKey, 0) \in ChildInfo
    BY <2>1, InfoType
  <2> QED
    BY <1>1, <2>2, FrameFields
<1> HIDE DEF ci
<1>4. /\ g \in Frame /\ g.own = Top.own /\ g.mode = "inst" /\ g.pc = u + 1 /\ g.tmp = Top.tmp
      /\ g.ctx = NULL
  <2>1. g = NewFrame(u + 1, Top.tmp, NULL, ci, Top.own)
    OBVIOUS
  <2> HIDE DEF g
  <2>2. g \in Frame
    BY <1>1, <1>3, <2>1, NewFrameType
  <2> QED
    BY <2>1, <2>2 DEF NewFrame
<1>5. 0 \in Int
  OBVIOUS
<1>6. f \in Frame
  BY <1>1, <1>5, Zenon DEF Frame, WaitingModes
<1>7. /\ f.own = Top.own /\ f.mode = "union" /\ f.pc = u + 1 /\ f.tmp = Top.tmp /\ f.ctx = Top.ctx
      /\ f.inctx = Top.inctx
  BY <1>1 DEF Frame
<1> HIDE DEF f, g
<1>8. FrameSafe(call, K, rk, heap, Depth, f)
  <2>1. InStep(call, f)
    <3>1. ~Is(prog, f.pc - 1, WideOps)
      BY <1>1, <1>7 DEF Is, WideOps, FilterOps
    <3> QED
      BY <3>1 DEF InStep, prog
  <2>2. Floor(Top) <= Floor(f)
    BY <1>1, <1>7 DEF Floor
  <2> QED
    BY <1>1, <1>7, <2>1, <2>2, StepsOn DEF Stepping
<1>9. OwnSafe(call, heap, f)
  BY <1>7 DEF OwnSafe, Pending
<1>10. Succeeds(rk, f)
  BY <1>7, SameSucceeds DEF Pending
<1>11. FrameSafe(call, K, rk, heap, Depth + 1, g)
  <2>1. Floor(Top) < g.pc /\ g.pc \in Nat /\ Depth + 1 <= Depth + 1 /\ Depth + 1 \in Int
    BY <1>1, <1>4, TopBounded
  <2> QED
    BY <1>1, <1>4, <2>1, MovesOn
<1>12. OwnSafe(call, heap, g)
  <2>1. AtMember(call, g)
    BY <1>1, <1>4 DEF AtMember, prog
  <2> QED
    BY <1>1, <1>4, <2>1 DEF OwnSafe
<1>13. \A d \in 1..(Depth - 1) : PairSafe(call, rk, d, stack[d], Depth + 1, g)
  <2>1. g.tmp \in Nodes => Top.tmp \in Nodes /\ rk[Top.tmp] <= rk[g.tmp]
    BY <1>1, <1>4
  <2> QED
    BY <1>4, <2>1, CalleeSucceeds
<1>14. PairSafe(call, rk, Depth, f, Depth + 1, g)
  <2>1. f.mode \notin LoopBacks
    BY <1>7 DEF LoopBacks
  <2>2. Below(rk, f, g.tmp) /\ Below(rk, f, g.ctx)
    BY <1>1, <1>4, <1>7, <2>1 DEF Below
  <2> QED
    BY <2>1, <2>2 DEF PairSafe, Direct
<1>15. Depth + 1 <= Room(call, K)
  <2>1. Floor(g) <= Len(prog) /\ g.pc \in Nat /\ Depth + 1 \in Int
    BY <1>1, <1>4 DEF Floor
  <2> QED
    BY <1>11, <2>1, RoomFor
<1> QED
  BY <1>2, <1>4, <1>6, <1>8, <1>9, <1>10, <1>11, <1>12, <1>13, <1>14, <1>15, EnterSafe

\* The inner loop of GET_UNION goes on.
LEMMA ToNextMember ==
  ASSUME NEW L, NEW K, NEW rk, Saving(L, K, rk), call' = call, heap' = heap,
         Top.mode \in {"union", "member"}, NEW f, Go(f), f.mode = "member", f.own = Top.own,
         f.tmp = Top.tmp, f.ctx = Top.ctx, f.inctx = Top.inctx, f.pc \in Nat, Top.pc <= f.pc,
         InStep(call, f)
  PROVE  StaysSafe(K, rk)
<1>1. FrameSafe(call, K, rk, heap, Depth, f)
  <2>1. Alive(heap, Top.tmp) /\ Top.pc \in Nat
    BY SavingTop, TopBounded DEF FrameSafe, Living
  <2>2. Floor(Top) <= Floor(f) /\ Top.mode \notin DotModes
    BY <2>1 DEF Floor, DotModes
  <2> QED
    BY <2>1, <2>2, StepsOn DEF Stepping
<1>2. OwnSafe(call, heap, f) /\ Succeeds(rk, f)
  BY SameSucceeds DEF OwnSafe, Pending
<1> QED
  BY <1>1, <1>2, GoSafe

LEMMA AfterMemberSafe ==
  ASSUME NEW L, NEW K, NEW rk, Saving(L, K, rk), heap' = heap, AfterMember
  PROVE  StaysSafe(K, rk)
<1> DEFINE v == Verdict(Top, ret, "UNION")
           f == [Top EXCEPT !.nb  = Counted(Top, ret),
                            !.end = IF "UNION" = "RANGE" /\ Op(Top) = "remove"
                                    THEN Top.end - 1 ELSE Top.end]
           g == [f EXCEPT !.mode = "member"]
<1>1. call' = call /\ Top.mode = "union" /\ AfterVisit("UNION", "union", "member")
  BY DEF AfterMember, In
<1>2. Top \in Frame /\ Top.pc \in Nat /\ ret \in Result
      /\ FrameSafe(call, K, rk, heap, Depth, Top)
  BY SavingTop, WalkingTop, FrameFields
<1>3. v # "again"
  <2>1. Op(Top) \in {"find_first", "find_all", "remove", "callback"}
    BY SavingTop DEF Op, FindOps
  <2> QED
    BY <2>1 DEF Verdict
<1>4. LeaveAt(f.pc, f.pc, ret) \/ Go(g)
  BY <1>1, <1>3 DEF AfterVisit
<1>5. Counted(Top, ret) \in Int /\ Top.end \in Int
  BY <1>2, FrameFields, CountedType
<1>6. /\ f \in Frame /\ f.pc = Top.pc /\ f.own = Top.own /\ f.tmp = Top.tmp /\ f.ctx = Top.ctx
      /\ f.inctx = Top.inctx
  BY <1>2, <1>5 DEF Frame
<1> HIDE DEF f, v
<1>7. /\ g.mode = "member" /\ g.pc = Top.pc /\ g.own = Top.own /\ g.tmp = Top.tmp /\ g.ctx = Top.ctx
      /\ g.inctx = Top.inctx
  BY <1>6 DEF Frame
<1> HIDE DEF g
<1>8. InStep(call, g)
  BY <1>1, <1>2, <1>7 DEF FrameSafe, InStep, Stepping
<1>9. CASE Go(g)
  <2>1. g.pc \in Nat /\ Top.pc <= g.pc
    BY <1>2, <1>7
  <2> QED
    BY <1>1, <1>7, <1>8, <1>9, <2>1, ToNextMember
<1> QED
  BY <1>1, <1>2, <1>4, <1>6, <1>9, ReturnSafe

LEMMA NextMemberSafe ==
  ASSUME NEW L, NEW K, NEW rk, Saving(L, K, rk), heap' = heap, NextMember
  PROVE  StaysSafe(K, rk)
<1> DEFINE q == NextInst(prog, Top.pc)
           f == [Top EXCEPT !.pc = q]
           fp == [f EXCEPT !.cnt = Top.cnt + 1]
           fm == [f EXCEPT !.cnt = Top.cnt - 1]
<1>1. call' = call /\ Top.mode = "member"
  BY DEF NextMember, In
<1>2. Top \in Frame /\ Top.pc \in Nat /\ call \in Calls /\ Laid(prog, L)
      /\ Placed(prog, L, Aim(L), Top) /\ Len(prog) \in Nat
  BY SavingTop, WalkingTop, FrameFields, LayoutTypes
<1>3. Top.pc \in 1..Len(prog)
  <2>1. PICK u \in L.starts : InUnionOf(prog, L, Aim(L), u, Top)
    BY <1>1, <1>2 DEF Placed
  <2>2. u < Top.pc /\ Top.pc < L.close[u] /\ u \in 1..Len(prog) /\ L.close[u] \in 1..Len(prog)
    BY <1>2, <2>1, UnionEnds DEF InUnionOf
  <2> QED
    BY <1>2, <2>2
<1>4. ~Lost(Here) /\ \A x : x.pc = q => InStep(call, x)
  BY <1>1, <1>3, InStepTop DEF Stepping
<1>5. \/ Is(prog, q, {"UNION_JMP"}) /\ Member(q + 1)
      \/ Out(f)
      \/ \E x \in {f, fp, fm} : Go(x)
  BY <1>4 DEF NextMember, Is, Code
<1>6. q \in Nat /\ Top.pc < q
  BY <1>2 DEF NextInst
<1> HIDE DEF q
<1>7. \A x \in {f, fp, fm} :
        /\ x.mode = "member" /\ x.pc = q /\ x.own = Top.own /\ x.tmp = Top.tmp /\ x.ctx = Top.ctx
        /\ x.inctx = Top.inctx
  BY <1>1, <1>2 DEF Frame
<1> HIDE DEF f, fp, fm
<1>8. CASE Is(prog, q, {"UNION_JMP"}) /\ Member(q + 1)
  <2>1. q \in 1..Len(prog) /\ DOMAIN prog = 1..Len(prog)
    BY <1>2, <1>8, CellsInside, LayoutTypes
  <2>2. q \in L.starts
    BY <1>2, <1>8, <2>1 DEF Laid, CellLaid, Is
  <2>3. Is(prog, q, {"GET_UNION", "UNION_JMP"})
    BY <1>8 DEF Is
  <2>4. q < L.close[q] /\ L.close[q] \in 1..Len(prog)
    <3>1. OnPath(L, L.exit[q], q)
      BY <2>2 DEF OnPath
    <3> QED
      BY <1>2, <2>3, <3>1, UnionClose
  <2>5. q + 1 <= Len(prog) /\ Floor(Top) <= q /\ Top.mode \notin DotModes
    BY <1>1, <1>2, <1>6, <2>1, <2>4 DEF Floor, DotModes
  <2> QED
    BY <1>1, <1>8, <2>1, <2>3, <2>5, MemberSafe
<1>9. CASE Out(f)
  BY <1>1, <1>6, <1>7, <1>9, OutSafe
<1>10. CASE \E x \in {f, fp, fm} : Go(x)
  <2>1. PICK x \in {f, fp, fm} : Go(x)
    BY <1>10
  <2>2. InStep(call, x) /\ x.pc \in Nat /\ Top.pc <= x.pc
    BY <1>2, <1>4, <1>6, <1>7
  <2> QED
    BY <1>1, <1>7, <2>1, <2>2, ToNextMember
<1> QED
  BY <1>5, <1>8, <1>9, <1>10

LEMMA SkipUnionSafe ==
  ASSUME NEW L, NEW K, NEW rk, Saving(L, K, rk), heap' = heap, SkipUnion
  PROVE  StaysSafe(K, rk)
<1> DEFINE q  == NextInst(prog, Top.pc)
           f1 == [Top EXCEPT !.mode = "inst", !.pc = Top.pc + 1]
           f  == [Top EXCEPT !.pc = q]
           fp == [Top EXCEPT !.pc = q, !.cnt = Top.cnt + 1]
           fm == [Top EXCEPT !.pc = q + 1, !.cnt = Top.cnt - 1]
<1>1. call' = call /\ Top.mode = "skip"
  BY DEF SkipUnion, In
<1>2. Top \in Frame /\ Top.pc \in Nat /\ call \in Calls /\ Laid(prog, L)
      /\ Placed(prog, L, Aim(L), Top) /\ Len(prog) \in Nat
  BY SavingTop, WalkingTop, FrameFields, LayoutTypes
<1>3. Top.pc \in 1..Len(prog)
  <2>1. PICK u \in L.starts : Skipping(prog, L, Aim(L), u, Top)
    BY <1>1, <1>2 DEF Placed
  <2>2. u <= Top.pc /\ Top.pc <= L.close[u] /\ Is(prog, u, {"GET_UNION", "UNION_JMP"})
        /\ OnPath(L, Aim(L), u)
    BY <2>1 DEF Skipping, Is
  <2>3. u \in 1..Len(prog) /\ L.close[u] \in 1..Len(prog)
    BY <1>2, <2>2, UnionClose
  <2> QED
    BY <1>2, <2>2, <2>3
<1>4. ~Lost(Here) /\ \A x : x.pc = q => InStep(call, x)
  BY <1>1, <1>3, InStepTop DEF Stepping
<1>5. \/ Go(f1)
      \/ Is(prog, q, {"UNION_END"}) /\ Go(fm)
      \/ \E x \in {f, fp} : Go(x)
  BY <1>4 DEF SkipUnion, Is, Code
<1>6. q \in Nat /\ Top.pc < q
  BY <1>2 DEF NextInst
<1> HIDE DEF q
<1>7. \A x \in {f1, f, fp, fm} :
        /\ x.own = Top.own /\ x.tmp = Top.tmp /\ x.ctx = Top.ctx /\ x.inctx = Top.inctx
        /\ x.ci = Top.ci
  BY <1>1, <1>2 DEF Frame
<1>8. /\ f1.mode = "inst" /\ f1.pc = Top.pc + 1 /\ fm.mode = "skip" /\ fm.pc = q + 1
      /\ \A x \in {f, fp} : x.mode = "skip" /\ x.pc = q
  BY <1>1, <1>2 DEF Frame
<1> HIDE DEF f1, f, fp, fm
<1>9. CASE Go(f1)
  <2>1. f1.pc \in Nat /\ f1.pc >= Top.pc /\ f1.pc # 1
    BY <1>2, <1>3, <1>8
  <2> QED
    BY <1>1, <1>7, <1>8, <1>9, <2>1, StaySafe
<1>10. CASE Is(prog, q, {"UNION_END"}) /\ Go(fm)
  <2>1. fm.pc \in Nat /\ fm.pc >= Top.pc /\ fm.pc - 1 = q
    BY <1>2, <1>6, <1>8
  <2>2. ~Is(prog, fm.pc - 1, WideOps)
    BY <1>10, <2>1 DEF Is, WideOps, FilterOps
  <2>3. InStep(call, fm)
    BY <2>2 DEF InStep, prog
  <2> QED
    BY <1>1, <1>7, <1>8, <1>10, <2>1, <2>3, StaySafe
<1>11. CASE \E x \in {f, fp} : Go(x)
  <2>1. PICK x \in {f, fp} : Go(x)
    BY <1>11
  <2>2. x.pc \in Nat /\ x.pc >= Top.pc /\ InStep(call, x) /\ x.mode = "skip"
    BY <1>2, <1>4, <1>6, <1>8
  <2> QED
    BY <1>1, <1>7, <2>1, <2>2, StaySafe
<1> QED
  BY <1>5, <1>9, <1>10, <1>11

LEMMA UnionSafe ==
  ASSUME NEW L, NEW K, NEW rk, Saving(L, K, rk), heap' = heap, Union
  PROVE  StaysSafe(K, rk)
<1>1. call' = call
  BY DEF Union, GetUnion, AfterMember, NextMember, UnionJmp, SkipUnion, UnionEnd
<1>2. Top \in Frame /\ Top.pc \in Nat /\ call \in Calls /\ Laid(prog, L) /\ Walking(L)
      /\ Len(prog) \in Nat
  BY SavingTop, FrameFields, LayoutTypes
<1>3. CASE GetUnion
  <2>1. OnPath(L, Aim(L), Top.pc) /\ Is(prog, Top.pc, {"GET_UNION"}) /\ Member(Top.pc + 1)
        /\ Top.mode = "inst"
    BY <1>2, <1>3, AtInst DEF GetUnion, At_, In
  <2>2. Is(prog, Top.pc, {"GET_UNION", "UNION_JMP"})
    BY <2>1 DEF Is
  <2>3. Top.pc \in 1..Len(prog) /\ L.close[Top.pc] \in 1..Len(prog) /\ Top.pc < L.close[Top.pc]
    BY <1>2, <2>1, <2>2, UnionClose
  <2>4. Top.pc + 1 <= Len(prog) /\ Floor(Top) <= Top.pc /\ Top.mode \notin DotModes
    BY <1>2, <2>1, <2>3 DEF Floor, DotModes
  <2> QED
    BY <1>1, <2>1, <2>2, <2>3, <2>4, MemberSafe
<1>4. CASE UnionJmp
  <2> DEFINE f == [Top EXCEPT !.mode = "skip", !.cnt = 0]
  <2>1. Top.mode = "inst" /\ Is(prog, Top.pc, {"UNION_JMP"}) /\ Go(f)
    BY <1>2, <1>4, AtInst DEF UnionJmp, At_, In
  <2>2. /\ f.mode = "skip" /\ f.own = Top.own /\ f.tmp = Top.tmp /\ f.ctx = Top.ctx
        /\ f.inctx = Top.inctx /\ f.ci = Top.ci /\ f.pc = Top.pc
    BY <1>2 DEF Frame
  <2> HIDE DEF f
  <2>3. InStep(call, f) /\ Is(prog, Top.pc, Stays)
    BY <2>1, <2>2 DEF InStep, Is, prog, Stays
  <2> QED
    BY <1>1, <1>2, <2>1, <2>2, <2>3, StaySafe
<1>5. CASE UnionEnd
  <2> DEFINE f == [Top EXCEPT !.pc = Top.pc + 1]
  <2>1. Top.mode = "inst" /\ Is(prog, Top.pc, {"UNION_END"}) /\ Go(f) /\ OnPath(L, Aim(L), Top.pc)
    BY <1>2, <1>5, AtInst DEF UnionEnd, At_, In
  <2>2. /\ f.mode = "inst" /\ f.own = Top.own /\ f.tmp = Top.tmp /\ f.ctx = Top.ctx
        /\ f.inctx = Top.inctx /\ f.ci = Top.ci /\ f.pc = Top.pc + 1
    BY <1>2, <2>1 DEF Frame
  <2> HIDE DEF f
  <2>3. Is(prog, Top.pc, Stays)
    BY <2>1 DEF Is, Stays
  <2>4. Top.pc \in 1..Len(prog)
    BY <1>2, <2>1, PathEnds
  <2>5. f.pc \in Nat /\ f.pc >= Top.pc /\ f.pc # 1
    BY <1>2, <2>2, <2>4
  <2> QED
    BY <1>1, <2>1, <2>2, <2>3, <2>5, StaySafe
<1> QED
  BY <1>3, <1>4, <1>5, AfterMemberSafe, NextMemberSafe, SkipUnionSafe DEF Union


--------------------------------------------------------------------------------
(***************************************************************************)
(* The theorems.                                                           *)
(***************************************************************************)

\* A call starts at the root, at the first instruction.
LEMMA BeginSafe ==
  ASSUME IInv, Begin, NEW L, NEW K, NEW rk, Survives(call, L, K, rk)
  PROVE  StaysSafe(K, rk)
<1> DEFINE f == NewFrame(1, call.root, NULL, NoInfo, 0)
<1>1. call' = call /\ heap' = heap /\ heap = call.doc /\ status' # "crash"
  BY DEF Begin, IInv, NotBegun
<1>2. CASE status' = "done"
  BY <1>2 DEF StaysSafe
<1>3. CASE stack' = <<f>>
  <2>1. /\ f.mode = "inst" /\ f.pc = 1 /\ f.tmp = call.root /\ f.own = 0 /\ f.ci = NoInfo
        /\ f.ctx = NULL
    BY DEF NewFrame
  <2> HIDE DEF f
  <2>2. Depth' = 1 /\ stack'[1] = f
    BY <1>3 DEF Depth
  <2>3. Document(rk, heap) /\ Alive(heap, f.tmp) /\ K \in Nat
    BY <1>1, <2>1 DEF Survives, Document, Pinned
  <2>4. Level(K, 1) = 1
    BY <2>3 DEF Level
  <2>5. FrameSafe(call, K, rk, heap, 1, f)
    BY <2>1, <2>3, <2>4 DEF FrameSafe, Living, Ranking, Bounded, InStep, Floor, Holding, Fetched,
       Counting, Stepping, LoopBacks, DotModes, ClauseModes
  <2>6. OwnSafe(call, heap, f)
    BY <2>1 DEF OwnSafe, NoInfo
  <2>7. \A d \in 1..Depth' : /\ FrameSafe(call, K, rk, heap', d, stack'[d])
                             /\ OwnSafe(call, heap', stack'[d])
    BY <1>1, <2>2, <2>5, <2>6
  <2>8. \A d \in 1..Depth' : \A e \in (d + 1)..Depth' :
          PairSafe(call, rk, d, stack'[d], e, stack'[e])
    BY <2>2
  <2>9. SafeOK(K, rk)'
    BY <1>1, <2>3, <2>7, <2>8, SafeAfter
  <2> QED
    BY <1>1, <2>9 DEF StaysSafe
<1> QED
  BY <1>2, <1>3 DEF Begin

\* Any other step of a call in progress.
LEMMA StepSafe ==
  ASSUME NEW L, NEW K, NEW rk, Saving(L, K, rk), Next, ~Begin, ~Finished
  PROVE  StaysSafe(K, rk)
<1>1. CASE ReturnRemove
  BY <1>1, ReturnsSafe DEF Return
<1>2. CASE ~ReturnRemove
  <2>1. heap' = heap
    BY <1>2, HeapKept
  <2> QED
    BY <2>1, ReturnsSafe, PlainSafe, GettingSafe, AllAndRangeSafe, DescentSafe, FilteringSafe,
       UnionSafe DEF Next, Looping
<1> QED
  BY <1>1, <1>2

\* A call that survives, and has room, does not crash.
Surviving == \A L, K, rk : Survives(call, L, K, rk) /\ Room(call, K) <= MaxDepth => NoCrash

LEMMA NextSafe ==
  ASSUME IInv, WalkInv, SafeInv, Surviving, [Next]_vars
  PROVE  SafeInv' /\ Surviving'
<1>1. CASE UNCHANGED vars
  <2>1. /\ call' = call /\ status' = status /\ heap' = heap /\ stack' = stack
        /\ Depth' = Depth
    BY <1>1 DEF vars, Depth
  <2>2. ASSUME NEW K, NEW rk, SafeOK(K, rk)
        PROVE  SafeOK(K, rk)'
    BY <2>1, <2>2 DEF SafeOK, Document, Pinned
  <2>3. SafeInv'
    BY <2>1, <2>2 DEF SafeInv
  <2> QED
    BY <2>1, <2>3 DEF Surviving, NoCrash
<1>2. CASE Finished
  BY <1>1, <1>2 DEF Finished
<1>3. CASE Begin
  <2>1. call' = call
    BY <1>3 DEF Begin
  <2> QED
    BY <1>3, <2>1, BeginSafe DEF SafeInv, Surviving, NoCrash, StaysSafe
<1>4. CASE Next /\ ~Begin /\ ~Finished
  <2>1. status = "run" /\ call' = call
    BY <1>4, Running
  <2>2. ASSUME NEW L, NEW K, NEW rk, Survives(call, L, K, rk)
        PROVE  StaysSafe(K, rk)
    <3>1. Walking(L)
      BY <2>1, <2>2 DEF Walking, WalkInv, Survives, prog
    <3>2. Saving(L, K, rk)
      BY <2>1, <2>2, <3>1 DEF Saving, SafeInv
    <3> QED
      BY <1>4, <3>2, StepSafe
  <2> QED
    BY <2>1, <2>2 DEF SafeInv, Surviving, NoCrash, StaysSafe
<1> QED
  BY <1>1, <1>2, <1>3, <1>4

LEMMA SafeInvariance == Spec => [](IInv /\ WalkInv /\ SafeInv /\ Surviving)
<1>1. Init => SafeInv /\ Surviving
  BY DEF Init, SafeInv, Surviving, NoCrash
<1>2. IInv /\ WalkInv /\ SafeInv /\ Surviving /\ [Next]_vars => SafeInv' /\ Surviving'
  BY NextSafe
<1> QED
  BY <1>1, <1>2, WalkInvariance, PTL DEF Spec

\* No loop runs over a container that was released under it, in every call
\* that finds, that hands values to a callback which writes nothing, or that
\* removes, and that is as Survives asks.
THEOREM SurvivingLoopsStayAlive ==
  Spec => []((\E L, K, rk : Survives(call, L, K, rk)) => LoopsStayAlive)
<1>1. ASSUME IInv, SafeInv, NEW L, NEW K, NEW rk, Survives(call, L, K, rk)
      PROVE  LoopsStayAlive
  <2>1. SUFFICES ASSUME status = "run", NEW d \in DOMAIN stack
                 PROVE  ~IsKind(heap, stack[d].tmp, "freed")
    BY DEF LoopsStayAlive
  <2>2. d \in 1..Depth
    BY <1>1, <2>1 DEF IInv, TypeOK, Depth
  <2>3. FrameSafe(call, K, rk, heap, d, stack[d])
    BY <1>1, <2>1, <2>2 DEF SafeInv, SafeOK
  <2> QED
    BY <2>3 DEF FrameSafe, Living, Alive
<1>2. IInv /\ SafeInv => ((\E L, K, rk : Survives(call, L, K, rk)) => LoopsStayAlive)
  BY <1>1
<1> QED
  BY <1>2, SafeInvariance, PTL

\* Such a call never fails an assertion, never reads what it has released nor
\* past the end of what a list holds, and never runs out of frames, when there
\* are as many as Room gives for the height of its document.
THEOREM SurvivorsDoNotCrash ==
  Spec => []((\E L, K, rk : Survives(call, L, K, rk) /\ Room(call, K) <= MaxDepth) => NoCrash)
<1>1. Surviving =>
        ((\E L, K, rk : Survives(call, L, K, rk) /\ Room(call, K) <= MaxDepth) => NoCrash)
  BY DEF Surviving
<1> QED
  BY <1>1, SafeInvariance, PTL

================================================================================
