-------------------------- MODULE CsonpathWalk_proofs --------------------------
(***************************************************************************)
(* The walker: in a program that is laid out, and is tame, it never leaves *)
(* the instructions, whatever the document and the operation are.          *)
(***************************************************************************)
EXTENDS CsonpathDo_proofs, CsonpathWalk

(***************************************************************************)
(* Where the walker of a frame is.  e is the END its path ends at: that of *)
(* the program, or of the sub-path the frame waits for that f.own names.   *)
(***************************************************************************)
OperandOf(g) == IF g.mode = "subpath" THEN g.pc ELSE g.ow
Goal(L, s, f) == IF f.own = 0 THEN L.exit[1] ELSE L.exit[OperandOf(s[f.own]) + 1]
OnPath(L, e, q) == q \in L.starts /\ L.exit[q] = e

\* between a GET_UNION or a UNION_JMP at u and the end of its union
InUnionOf(p, L, e, u, f) ==
  /\ OnPath(L, e, u) /\ Is(p, u, {"GET_UNION", "UNION_JMP"})
  /\ u < f.pc /\ f.pc < L.close[u]
  /\ f.cnt = L.nest[f.pc + 1] - L.nest[L.close[u]]
Skipping(p, L, e, u, f) ==
  /\ OnPath(L, e, u) /\ Is(p, u, {"UNION_JMP"})
  /\ u <= f.pc /\ f.pc <= L.close[u]
  /\ IF f.pc = L.close[u] THEN f.cnt = 0
     ELSE ~Is(p, f.pc, {"UNION_END"}) /\ f.cnt = L.nest[f.pc + 1] - L.nest[L.close[u]]

\* in the clause of a filter that starts at q
InClause(p, L, e, q, f) ==
  /\ q \in L.clauses /\ L.exit[q] = e /\ f.opn = CellAt(p, q).inst
  /\ f.cnt >= 0 /\ f.ow + f.cnt = OperandAt(p, q)
  /\ f.mode \in {"match", "operand"} => f.cnt = 0
  /\ f.mode = "operand" => f.opn # "FILTER_KEY_EXIST" /\ Is(p, f.ow, {"GET_SUBPATH"})

AllModes    == {"all", "all_back"}
DotModes    == {"dot", "dot_back", "descend", "dot_return"}
ClauseModes == {"crawl", "match", "operand"}
FilterModes == ClauseModes \cup {"filter", "filter_back"}

Placed(p, L, e, f) ==
  /\ f.mode \notin {"scan", "skip", "union", "member"} => OnPath(L, e, f.pc)
  /\ f.mode = "scan" => \E q \in L.starts : L.exit[q] = e /\ q <= f.pc /\ f.pc <= e
  /\ f.mode = "skip" => \E u \in L.starts : Skipping(p, L, e, u, f)
  /\ f.mode \in {"union", "member"} => \E u \in L.starts : InUnionOf(p, L, e, u, f)
  /\ f.mode = "union" => f.cnt = 0
  /\ f.mode \in AllModes => Is(p, f.pc, {"GET_ALL"})
  /\ f.mode \in DotModes => Is(p, f.pc, {"FIND_ALL"})
  /\ f.mode \in FilterModes => Is(p, f.pc, FilterOps)
  /\ f.mode \in ClauseModes => \E q \in L.clauses : InClause(p, L, e, q, f)
  /\ f.mode = "filter_back" => OnPath(L, e, f.ow)
  /\ f.mode = "subpath" => Is(p, f.pc, {"GET_SUBPATH"})
  /\ f.mode \in SubpathModes => f.sent <= L.exit[OperandOf(f) + 1]

\* A frame has the end_sentinel of its caller, or the one its caller owns.
Linked ==
  \A d \in 1..(Depth - 1) :
    stack[d + 1].own = IF stack[d].mode \in SubpathModes THEN d ELSE stack[d].own

\* What a sub-path has left when it has given a value: its end.
Arrived(L) ==
  /\ Top.mode \in SubpathModes /\ ret.val # NULL => Top.sent = L.exit[OperandOf(Top) + 1]
  /\ Top.mode \in WaitingModes \ SubpathModes /\ Top.own > 0 /\ ret.val # NULL =>
       stack[Top.own].sent = Goal(L, stack, Top)

WalkOK(L) ==
  /\ \A d \in 1..Depth : Placed(prog, L, Goal(L, stack, stack[d]), stack[d])
  /\ Linked
  /\ Arrived(L)
WalkInv == \A L : status = "run" /\ Laid(prog, L) /\ Tame(prog, L) => WalkOK(L)

\* The invariant, in a call in progress, and the END of the path of its top.
Walking(L) == IInv /\ status = "run" /\ Laid(prog, L) /\ Tame(prog, L) /\ WalkOK(L)
Aim(L) == Goal(L, stack, Top)

--------------------------------------------------------------------------------
(***************************************************************************)
(* The program: what follows an instruction.                               *)
(***************************************************************************)
LEMMA LayoutTypes ==
  ASSUME call \in Calls, NEW L, Laid(prog, L)
  PROVE  /\ Len(prog) \in Nat /\ DOMAIN prog = 1..Len(prog)
         /\ L.starts \subseteq 1..Len(prog) /\ L.clauses \subseteq 1..Len(prog)
         /\ \A q \in 1..Len(prog) : L.exit[q] \in 1..Len(prog) /\ L.close[q] \in 1..Len(prog)
         /\ \A q \in 1..(Len(prog) + 1) : L.nest[q] \in Nat
<1>1. prog \in Seq(Cells)
  BY CallAssumption DEF prog
<1>2. Len(prog) \in Nat /\ DOMAIN prog = 1..Len(prog)
  BY <1>1
<1>3. L \in Layouts(prog)
  BY DEF Laid
<1> QED
  BY <1>2, <1>3 DEF Layouts

\* What is beyond the program is none of the instructions.
LEMMA CellsInside ==
  ASSUME call \in Calls, NEW q, NEW insts, Is(prog, q, insts), "OUTSIDE" \notin insts
  PROVE  q \in 1..Len(prog)
<1>1. prog \in Seq(Cells)
  BY CallAssumption DEF prog
<1>2. DOMAIN prog = 1..Len(prog)
  BY <1>1
<1> QED
  BY <1>2 DEF Is, CellAt, Outside, Cell

\* A path ends at an END, its own.
LEMMA PathEnds ==
  ASSUME call \in Calls, NEW L, Laid(prog, L), NEW e, NEW q, OnPath(L, e, q)
  PROVE  /\ q \in 1..Len(prog) /\ e \in 1..Len(prog) /\ q <= e
         /\ OnPath(L, e, e) /\ Is(prog, e, {"END"})
         /\ Is(prog, q, {"END"}) => q = e
         /\ Is(prog, q, Executable \cup Endish)
<1>1. InstLaid(prog, L, q)
  BY DEF Laid, OnPath
<1> QED
  BY <1>1, LayoutTypes DEF InstLaid, OnPath

\* Most instructions are followed by one of the same path.
LEMMA GoesOn ==
  ASSUME call \in Calls, NEW L, Laid(prog, L), NEW e, NEW q, OnPath(L, e, q)
  PROVE  /\ ~Is(prog, q, FilterOps \cup {"END", "RANGE", "GET_SUBPATH"}) => OnPath(L, e, q + 1)
         /\ Is(prog, q, {"RANGE"}) => OnPath(L, e, q + 3)
         /\ Is(prog, q, {"GET_SUBPATH"}) =>
              SubpathAt(L, q + 1) /\ OnPath(L, e, L.exit[q + 1] + 1)
         /\ Is(prog, q, FilterOps) => q \in L.clauses
<1>1. InstLaid(prog, L, q)
  BY DEF Laid, OnPath
<1> QED
  BY <1>1 DEF InstLaid, OnPath, SamePath

\* A walk cell by cell steps over no END and no UNION_END, and over no edge of
\* a union.
LEMMA WalkTo ==
  ASSUME call \in Calls, NEW L, Laid(prog, L), NEW q \in 1..Len(prog), NEW t \in 1..Len(prog),
         q < t, Is(prog, t, {"END", "UNION_END"})
  PROVE  /\ NextInst(prog, q) \in (q + 1)..t
         /\ L.nest[NextInst(prog, q)] = L.nest[q + 1]
<1>1. Len(prog) \in Nat /\ DOMAIN prog = 1..Len(prog)
  BY LayoutTypes
<1>2. \A r \in 1..Len(prog) : CellLaid(prog, L, r)
  BY <1>1 DEF Laid
<1>3. CASE NextInst(prog, q) = q + 1
  BY <1>1, <1>3
<1>4. CASE NextInst(prog, q) # q + 1
  <2>1. /\ NextInst(prog, q) = q + 2
        /\ \/ Is(prog, q, WideOps)
           \/ Is(prog, q, {"LEN"}) /\ CellAt(prog, q).num \in {4, 20}
    BY <1>4 DEF NextInst, Is
  <2>2. Is(prog, q + 1, {"LEN", "GET_OBJ"})
    BY <1>2, <2>1 DEF CellLaid, Is
  <2>3. q + 1 # t /\ q + 1 \in 1..Len(prog)
    BY <1>1, <2>2 DEF Is
  <2>4. L.nest[q + 1 + 1] = L.nest[q + 1] + 0
    BY <1>2, <2>2, <2>3 DEF CellLaid, Is
  <2>5. L.nest[q + 1] \in Nat
    BY <1>1, <2>3, LayoutTypes
  <2>6. q + 1 + 1 = q + 2 /\ q + 2 \in (q + 1)..t
    BY <1>1, <2>3
  <2> QED
    BY <2>1, <2>4, <2>5, <2>6
<1> QED
  BY <1>3, <1>4

--------------------------------------------------------------------------------
(***************************************************************************)
(* The frame on top goes on, calls, or returns.                            *)
(***************************************************************************)

\* What is known of the frames.
LEMMA WalkingTop ==
  ASSUME NEW L, Walking(L)
  PROVE  /\ call \in Calls /\ IInv /\ status = "run" /\ Laid(prog, L) /\ Tame(prog, L)
         /\ stack \in Seq(Frame) /\ Depth \in Nat \ {0} /\ Depth = Len(stack)
         /\ Top \in Frame /\ Top = stack[Depth] /\ ret \in Result
         /\ Placed(prog, L, Aim(L), Top)
         /\ \A d \in 1..Depth : /\ stack[d] \in Frame
                                /\ Placed(prog, L, Goal(L, stack, stack[d]), stack[d])
                                /\ stack[d].own \in 0..(d - 1)
                                /\ stack[d].own > 0 => stack[stack[d].own].mode \in SubpathModes
         /\ Linked /\ Arrived(L)
<1>1. stack \in Seq(Frame) /\ Depth \in Nat \ {0} /\ Depth = Len(stack) /\ Top \in Frame
      /\ Depth \in 1..Depth
  BY TopType DEF Walking, Depth
<1>2. \A d \in 1..Depth : Placed(prog, L, Goal(L, stack, stack[d]), stack[d])
  BY DEF Walking, WalkOK
<1>3. \A d \in 1..Depth : stack[d] \in Frame /\ stack[d].own \in Nat
  BY <1>1, FrameFields
<1>4. \A d \in 1..Depth : stack[d].own > 0 => /\ stack[d].own < d
                                              /\ stack[stack[d].own].mode \in SubpathModes
  BY <1>1 DEF Walking, IInv, SentinelOwnerWaits
<1>5. \A d \in 1..Depth : stack[d].own \in 0..(d - 1)
  BY <1>1, <1>3, <1>4
<1> QED
  BY <1>1, <1>2, <1>3, <1>4, <1>5 DEF Walking, WalkOK, IInv, TypeOK, Aim, Top

\* Where the operand of a frame that waits for a sub-path is.
LEMMA OperandPlace ==
  ASSUME call \in Calls, NEW L, Laid(prog, L), NEW e, NEW g \in Frame,
         g.mode \in SubpathModes, Placed(prog, L, e, g)
  PROVE  Is(prog, OperandOf(g), {"GET_SUBPATH"}) /\ SubpathAt(L, OperandOf(g) + 1)
<1>1. CASE g.mode = "subpath"
  BY <1>1, GoesOn DEF Placed, OperandOf
<1>2. CASE g.mode # "subpath"
  <2>1. g.mode = "operand"
    BY <1>2 DEF SubpathModes
  <2>2. PICK q \in L.clauses : InClause(prog, L, e, q, g)
    BY <2>1 DEF Placed, ClauseModes
  <2>3. g.ow \in Nat /\ g.cnt = 0 /\ OperandAt(prog, q) = g.ow
    BY <2>1, <2>2, FrameFields DEF InClause
  <2>4. ~Is(prog, q, {"FILTER_KEY_EXIST"}) /\ Is(prog, g.ow, {"GET_SUBPATH"})
    BY <2>1, <2>2 DEF InClause, Is
  <2>5. ClauseLaid(prog, L, q)
    BY DEF Laid
  <2> QED
    BY <1>2, <2>3, <2>4, <2>5 DEF ClauseLaid, OperandOf
<1> QED
  BY <1>1, <1>2

\* The end of a frame's path: that of a sub-path is not the program's.
LEMMA GoalEnds ==
  ASSUME NEW L, Walking(L), NEW d \in 1..Depth
  PROVE  LET e == Goal(L, stack, stack[d]) IN
         /\ OnPath(L, e, e) /\ e \in 1..Len(prog) /\ Is(prog, e, {"END"})
         /\ stack[d].own > 0 => e # L.exit[1]
<1> DEFINE e == Goal(L, stack, stack[d])
           o == stack[d].own
<1>1. CASE o = 0
  <2>1. OnPath(L, e, 1)
    BY <1>1, WalkingTop DEF Laid, OnPath, Goal
  <2> QED
    BY <1>1, <2>1, WalkingTop, PathEnds
<1>2. CASE o # 0
  <2>1. o \in 1..Depth /\ stack[o] \in Frame /\ stack[o].mode \in SubpathModes
    BY <1>2, WalkingTop
  <2>2. SubpathAt(L, OperandOf(stack[o]) + 1)
    BY <2>1, WalkingTop, OperandPlace
  <2>3. OnPath(L, e, OperandOf(stack[o]) + 1) /\ e # L.exit[1]
    BY <1>2, <2>2 DEF SubpathAt, OnPath, Goal
  <2> QED
    BY <2>3, WalkingTop, PathEnds
<1> QED
  BY <1>1, <1>2

LEMMA AimEnds ==
  ASSUME NEW L, Walking(L)
  PROVE  /\ OnPath(L, Aim(L), Aim(L)) /\ Aim(L) \in 1..Len(prog)
         /\ Is(prog, Aim(L), {"END"})
         /\ Top.own > 0 => Aim(L) # L.exit[1]
<1>1. Depth \in 1..Depth
  BY WalkingTop
<1> QED
  BY <1>1, GoalEnds DEF Aim, Top

\* The end depends on the owner of the frame, and on where that one waits.
LEMMA SameGoal ==
  ASSUME NEW L, NEW s, NEW t, NEW f, NEW g, f.own = g.own,
         f.own # 0 => OperandOf(s[f.own]) = OperandOf(t[g.own])
  PROVE  Goal(L, s, f) = Goal(L, t, g)
  BY DEF Goal

LEMMA GoWalks ==
  ASSUME NEW L, Walking(L), call' = call,
         NEW f, f.own = Top.own, f.mode \in ActiveModes, Placed(prog, L, Aim(L), f), Go(f)
  PROVE  WalkOK(L)'
<1>1. /\ Depth' = Depth /\ Top' = f
      /\ \A d \in 1..Depth : stack'[d] = IF d = Depth THEN f ELSE stack[d]
  BY WalkingTop, GoEffect
<1>2. prog' = prog
  BY DEF prog
<1>3. ASSUME NEW d \in 1..Depth
      PROVE  Placed(prog, L, Goal(L, stack', stack'[d]), stack'[d])
  <2>1. stack'[d].own = stack[d].own
    BY <1>1, WalkingTop
  <2>2. stack[d].own # 0 => stack[d].own \in 1..Depth /\ stack[d].own # Depth
    BY WalkingTop
  <2>3. Goal(L, stack', stack'[d]) = Goal(L, stack, stack[d])
    BY <1>1, <2>1, <2>2, SameGoal
  <2> QED
    BY <1>1, <2>3, WalkingTop DEF Aim
<1>4. Linked'
  BY <1>1, WalkingTop DEF Linked
<1>5. Arrived(L)'
  BY <1>1 DEF Arrived, ActiveModes, WaitingModes, SubpathModes
<1> QED
  BY <1>1, <1>2, <1>3, <1>4, <1>5 DEF WalkOK

\* The frame on top calls: what it calls has the same end, or that of the
\* sub-path it waits for.
Callee(L, f, g) == IF f.mode \in SubpathModes
                   THEN g.own = Depth /\ Placed(prog, L, L.exit[OperandOf(f) + 1], g)
                   ELSE g.own = Top.own /\ Placed(prog, L, Aim(L), g)

LEMMA EnterWalks ==
  ASSUME NEW L, Walking(L), call' = call,
         NEW f \in Frame, f.own = Top.own, Placed(prog, L, Aim(L), f),
         NEW g \in Frame, g.mode \in ActiveModes, Callee(L, f, g), Enter(f, g)
  PROVE  status' = "run" => WalkOK(L)'
<1> SUFFICES ASSUME status' = "run" PROVE WalkOK(L)'
  OBVIOUS
<1>1. /\ Depth' = Depth + 1 /\ Top' = g
      /\ \A d \in 1..(Depth + 1) :
           stack'[d] = IF d = Depth THEN f ELSE IF d = Depth + 1 THEN g ELSE stack[d]
  BY WalkingTop, EnterEffect
<1>2. prog' = prog /\ Depth \in Nat \ {0}
  BY WalkingTop DEF prog
<1>3. ASSUME NEW d \in 1..Depth
      PROVE  Placed(prog, L, Goal(L, stack', stack'[d]), stack'[d])
  <2>1. stack'[d] = IF d = Depth THEN f ELSE stack[d]
    BY <1>1, <1>2
  <2>2. stack'[d].own = stack[d].own
    BY <2>1, WalkingTop
  <2>3. stack[d].own # 0 => stack'[stack[d].own] = stack[stack[d].own]
    <3>1. stack[d].own # 0 => stack[d].own \in 1..(Depth + 1) /\ stack[d].own < Depth
      BY <1>2, WalkingTop
    <3> QED
      BY <1>1, <1>2, <3>1
  <2>4. Goal(L, stack', stack'[d]) = Goal(L, stack, stack[d])
    BY <2>2, <2>3, SameGoal
  <2> QED
    BY <2>1, <2>4, WalkingTop DEF Aim
<1>4. Placed(prog, L, Goal(L, stack', g), g)
  <2>1. CASE f.mode \in SubpathModes
    <3>1. g.own = Depth /\ stack'[Depth] = f
      BY <1>1, <1>2, <2>1 DEF Callee
    <3> QED
      BY <1>2, <2>1, <3>1 DEF Callee, Goal
  <2>2. CASE f.mode \notin SubpathModes
    <3>1. Top.own # 0 => stack'[Top.own] = stack[Top.own]
      <4>1. Depth \in 1..Depth
        BY <1>2
      <4>2. Top.own # 0 => Top.own \in 1..(Depth + 1) /\ Top.own < Depth
        BY <1>2, <4>1, WalkingTop
      <4> QED
        BY <1>1, <1>2, <4>2
    <3>2. Goal(L, stack', g) = Goal(L, stack, Top)
      BY <2>2, <3>1, SameGoal DEF Callee
    <3> QED
      BY <2>2, <3>2 DEF Callee, Aim
  <2> QED
    BY <2>1, <2>2
<1>5. ASSUME NEW d \in 1..(Depth + 1)
      PROVE  Placed(prog, L, Goal(L, stack', stack'[d]), stack'[d])
  <2>1. CASE d = Depth + 1
    BY <1>1, <1>2, <1>4, <2>1
  <2>2. CASE d # Depth + 1
    BY <1>2, <1>3, <2>2
  <2> QED
    BY <2>1, <2>2
<1>6. Linked'
  <2> SUFFICES ASSUME NEW d \in 1..Depth
               PROVE  stack'[d + 1].own = IF stack'[d].mode \in SubpathModes
                                          THEN d ELSE stack'[d].own
    BY <1>1, <1>2 DEF Linked
  <2>1. stack'[d] = IF d = Depth THEN f ELSE stack[d]
    BY <1>1, <1>2
  <2>2. stack'[d + 1] = IF d = Depth THEN g ELSE IF d + 1 = Depth THEN f ELSE stack[d + 1]
    BY <1>1, <1>2
  <2>3. CASE d = Depth
    BY <2>1, <2>2, <2>3 DEF Callee
  <2>4. CASE d # Depth
    <3>1. d \in 1..(Depth - 1)
      BY <1>2, <2>4
    <3>2. stack'[d + 1].own = stack[d + 1].own /\ stack'[d] = stack[d]
      BY <2>1, <2>2, <2>4, WalkingTop
    <3> QED
      BY <3>1, <3>2, WalkingTop DEF Linked
  <2> QED
    BY <2>3, <2>4
<1>7. Arrived(L)'
  BY <1>1 DEF Arrived, ActiveModes, WaitingModes, SubpathModes
<1> QED
  BY <1>1, <1>2, <1>5, <1>6, <1>7 DEF WalkOK

\* What a callee writes to a frame does not move its walker.
LEMMA AlikePlaced ==
  ASSUME NEW p, NEW L, NEW e, NEW f, NEW g, Alike(f, g), Placed(p, L, e, g),
         f.sent = g.sent \/ f.sent <= L.exit[OperandOf(g) + 1]
  PROVE  Placed(p, L, e, f) /\ OperandOf(f) = OperandOf(g)
  BY DEF Alike, Placed, OperandOf, InUnionOf, Skipping, InClause

\* A function returns with the stack s.  What it has left for the sub-path it
\* belongs to is no further than the end of it; it is the end, with a value.
LEMMA LeaveWalks ==
  ASSUME NEW L, Walking(L), call' = call,
         NEW s, SameShape(s), NEW r, LeaveFrom(s, r),
         \A d \in 1..Depth :
           /\ Alike(s[d], stack[d])
           /\ s[d].sent = stack[d].sent \/ (d = Top.own /\ s[d].sent <= Aim(L)),
         r.val # NULL /\ Top.own > 0 => s[Top.own].sent = Aim(L)
  PROVE  status' = "run" => WalkOK(L)'
<1> SUFFICES ASSUME status' = "run" PROVE WalkOK(L)'
  OBVIOUS
<1>1. Depth \in Nat \ {0} /\ prog' = prog /\ Depth \in 1..Depth
  BY WalkingTop DEF prog
<1>2. /\ Depth' = Depth - 1 /\ ret' = r /\ Depth > 1 /\ Top' = s[Depth - 1]
      /\ \A d \in 1..(Depth - 1) : stack'[d] = s[d]
  BY <1>1, WalkingTop, LeaveEffect
<1>3. \A d \in 1..Depth : s[d].own = stack[d].own /\ s[d].mode = stack[d].mode
  BY DEF SameShape
<1>4. Top.own > 0 => Aim(L) = L.exit[OperandOf(stack[Top.own]) + 1]
  BY DEF Aim, Goal
<1>5. ASSUME NEW d \in 1..(Depth - 1)
      PROVE  /\ Placed(prog, L, Goal(L, stack, stack[d]), s[d])
             /\ OperandOf(s[d]) = OperandOf(stack[d])
  <2>1. d \in 1..Depth
    BY <1>1
  <2>2. s[d].sent = stack[d].sent \/ s[d].sent <= L.exit[OperandOf(stack[d]) + 1]
    BY <1>4, <2>1
  <2>3. Alike(s[d], stack[d]) /\ Placed(prog, L, Goal(L, stack, stack[d]), stack[d])
    BY <2>1, WalkingTop
  <2> QED
    BY <2>2, <2>3, AlikePlaced
<1>6. ASSUME NEW d \in 1..(Depth - 1)
      PROVE  Goal(L, stack', stack'[d]) = Goal(L, stack, stack[d])
  <2>1. d \in 1..Depth /\ stack'[d].own = stack[d].own
    BY <1>1, <1>2, <1>3
  <2>2. ASSUME stack[d].own # 0
        PROVE  OperandOf(stack'[stack[d].own]) = OperandOf(stack[stack[d].own])
    <3>1. stack[d].own \in 1..(Depth - 1)
      BY <1>1, <2>1, <2>2, WalkingTop
    <3> QED
      BY <1>2, <1>5, <3>1
  <2> QED
    BY <2>1, <2>2, SameGoal
<1>7. \A d \in 1..(Depth - 1) : Placed(prog, L, Goal(L, stack', stack'[d]), stack'[d])
  BY <1>2, <1>5, <1>6
<1>8. Linked'
  <2> SUFFICES ASSUME NEW d \in 1..(Depth - 2)
               PROVE  stack'[d + 1].own = IF stack'[d].mode \in SubpathModes
                                          THEN d ELSE stack'[d].own
    BY <1>1, <1>2 DEF Linked
  <2>1. d \in 1..(Depth - 1) /\ d + 1 \in 1..(Depth - 1) /\ d \in 1..Depth /\ d + 1 \in 1..Depth
    BY <1>1
  <2>2. stack[d + 1].own = IF stack[d].mode \in SubpathModes THEN d ELSE stack[d].own
    BY <2>1, WalkingTop DEF Linked
  <2>3. stack'[d] = s[d] /\ stack'[d + 1] = s[d + 1]
    BY <1>2, <2>1
  <2> QED
    BY <1>3, <2>1, <2>2, <2>3
<1>9. Arrived(L)'
  <2> DEFINE d == Depth - 1
  <2>1. d \in 1..(Depth - 1) /\ d \in 1..Depth /\ d + 1 = Depth
    BY <1>1, <1>2
  <2>2. Top.own = IF stack[d].mode \in SubpathModes THEN d ELSE stack[d].own
    BY <2>1, WalkingTop DEF Linked
  <2>3. /\ Top' = stack'[d] /\ stack'[d] = s[d] /\ Top'.own = stack[d].own
        /\ Top'.mode = stack[d].mode /\ OperandOf(Top') = OperandOf(stack[d])
    BY <1>2, <1>3, <1>5, <2>1
  <2>4. ASSUME Top'.mode \in SubpathModes, ret'.val # NULL
        PROVE  Top'.sent = L.exit[OperandOf(Top') + 1]
    <3>1. Top.own = d /\ d > 0
      BY <2>1, <2>2, <2>3, <2>4
    <3> QED
      BY <1>2, <1>4, <2>3, <2>4, <3>1
  <2>5. ASSUME Top'.mode \notin SubpathModes, Top'.own > 0, ret'.val # NULL
        PROVE  stack'[Top'.own].sent = Goal(L, stack', Top')
    <3>1. Top.own = Top'.own /\ Top.own > 0
      BY <2>2, <2>3, <2>5
    <3>2. Top.own \in 1..(Depth - 1)
      BY <1>1, <3>1, WalkingTop
    <3>3. stack'[Top.own].sent = Aim(L)
      BY <1>2, <2>5, <3>1, <3>2
    <3>4. Goal(L, stack', Top') = Goal(L, stack, stack[d])
      BY <1>6, <2>1, <2>3
    <3>5. Goal(L, stack, stack[d]) = Goal(L, stack, Top)
      BY <2>3, <3>1, SameGoal
    <3> QED
      BY <3>1, <3>3, <3>4, <3>5 DEF Aim
  <2> QED
    BY <2>4, <2>5 DEF Arrived
<1> QED
  BY <1>1, <1>2, <1>7, <1>8, <1>9 DEF WalkOK

\* It has no value, and leaves nothing.
LEMMA NullWalks ==
  ASSUME NEW L, Walking(L), call' = call, NEW r, r.val = NULL,
         Leave(r) \/ \E cond \in BOOLEAN : LeaveFrom(Reloop(cond), r)
  PROVE  status' = "run" => WalkOK(L)'
<1>1. CASE Leave(r)
  <2>1. SameShape(stack)
    BY WalkingTop, ShapeKept
  <2>2. \A d \in 1..Depth : Alike(stack[d], stack[d]) /\ stack[d].sent = stack[d].sent
    BY DEF Alike
  <2> QED
    BY <1>1, <2>1, <2>2, LeaveWalks DEF Leave
<1>2. ASSUME NEW cond \in BOOLEAN, LeaveFrom(Reloop(cond), r)
      PROVE  status' = "run" => WalkOK(L)'
  <2>1. /\ SameShape(Reloop(cond))
        /\ \A d \in 1..Depth : /\ Alike(Reloop(cond)[d], stack[d])
                               /\ Reloop(cond)[d].sent = stack[d].sent
    BY WalkingTop, ReloopEffect
  <2> QED
    BY <1>2, <2>1, LeaveWalks
<1> QED
  BY <1>1, <1>2

\* It leaves v, unless what is there is further than its own walker.
LEMMA SentinelWalks ==
  ASSUME NEW L, Walking(L), call' = call, NEW r,
         NEW walker \in Nat, NEW v \in Nat, LeaveAt(walker, v, r), v <= Aim(L),
         r.val # NULL /\ Top.own > 0 =>
           \/ walker = Aim(L) /\ v = Aim(L)
           \/ walker <= Aim(L) /\ stack[Top.own].sent = Aim(L)
  PROVE  status' = "run" => WalkOK(L)'
<1> DEFINE s == Sentinel(stack, Top, walker, v)
<1>1. /\ SameShape(s) /\ LeaveFrom(s, r)
      /\ \A d \in 1..Depth : /\ Alike(s[d], stack[d])
                             /\ s[d].sent = IF Top.own = d /\ stack[d].sent < walker
                                            THEN v ELSE stack[d].sent
  BY WalkingTop, SentinelEffect DEF LeaveAt
<1> HIDE DEF s
<1>2. ASSUME r.val # NULL, Top.own > 0
      PROVE  s[Top.own].sent = Aim(L)
  <2> DEFINE o == Top.own
  <2>1. Depth \in 1..Depth
    BY WalkingTop
  <2>2. o \in 1..Depth /\ stack[o].mode \in SubpathModes /\ stack[o] \in Frame
    BY <1>2, <2>1, WalkingTop
  <2>3. stack[o].sent <= Aim(L)
    BY <1>2, <2>2, WalkingTop DEF Placed, Aim, Goal
  <2>4. stack[o].sent \in Nat /\ Aim(L) \in Nat
    BY <2>2, FrameFields, AimEnds
  <2>5. s[o].sent = IF stack[o].sent < walker THEN v ELSE stack[o].sent
    BY <1>1, <2>2
  <2> QED
    BY <1>2, <2>3, <2>4, <2>5
<1>3. \A d \in 1..Depth : s[d].sent = stack[d].sent \/ (d = Top.own /\ s[d].sent <= Aim(L))
  BY <1>1
<1> QED
  BY <1>1, <1>2, <1>3, LeaveWalks

LEMMA FailWalks ==
  ASSUME NEW L, Walking(L), call' = call, Fail
  PROVE  status' = "run" => WalkOK(L)'
  BY NullWalks DEF Fail, ErrorOf, Count

\* A loop is over.
LEMMA OutWalks ==
  ASSUME NEW L, Walking(L), call' = call, NEW f, f.own = Top.own, f.pc \in Nat,
         f.pc <= Aim(L), Out(f)
  PROVE  status' = "run" => WalkOK(L)'
<1>1. \/ LeaveAt(f.pc, f.pc, None)
      \/ Leave(Count(IF call.emptyArray \/ f.nb > 0 THEN 1 ELSE 0))
      \/ Leave(Count(f.nb))
  BY DEF Out
<1>2. \A n : Count(n).val = NULL
  BY DEF Count
<1>3. CASE LeaveAt(f.pc, f.pc, None)
  BY <1>2, <1>3, SentinelWalks DEF None
<1> QED
  BY <1>1, <1>2, <1>3, NullWalks

--------------------------------------------------------------------------------
(***************************************************************************)
(* The ends of a path, the roots and the getters.                          *)
(***************************************************************************)

\* Where a frame is placed by its walker alone.
LEMMA PlacedAt ==
  ASSUME NEW L, NEW e, NEW f, OnPath(L, e, f.pc),
         \/ f.mode \in {"inst", "range", "range_back"}
         \/ f.mode \in AllModes /\ Is(prog, f.pc, {"GET_ALL"})
         \/ f.mode \in DotModes /\ Is(prog, f.pc, {"FIND_ALL"})
         \/ f.mode = "filter" /\ Is(prog, f.pc, FilterOps)
  PROVE  Placed(prog, L, e, f)
  BY DEF Placed, AllModes, DotModes, ClauseModes, FilterModes, SubpathModes

\* At an instruction.
LEMMA AtInst ==
  ASSUME NEW L, Walking(L), NEW insts, At_(insts)
  PROVE  OnPath(L, Aim(L), Top.pc) /\ Is(prog, Top.pc, insts)
  BY WalkingTop DEF At_, In, Here, Code, Is, Placed

LEMMA InstWalks ==
  ASSUME NEW L, Walking(L), call' = call, NEW f, f.own = Top.own, f.mode = "inst",
         OnPath(L, Aim(L), f.pc), Go(f)
  PROVE  WalkOK(L)'
<1>1. Placed(prog, L, Aim(L), f)
  BY PlacedAt
<1> QED
  BY <1>1, ModeNames, GoWalks

\* An alternative is the program's own: a sub-path has none.
LEMMA OrOutside ==
  ASSUME NEW L, Walking(L), NEW q, OnPath(L, Aim(L), q), NEW r \in q..Aim(L),
         Is(prog, r, {"OR"})
  PROVE  Aim(L) = L.exit[1] /\ Top.own = 0 /\ OnPath(L, Aim(L), r)
<1>1. q \in L.starts /\ Aim(L) = L.exit[1]
  BY WalkingTop DEF Tame, OnPath
<1>2. Top.own = 0
  BY <1>1, AimEnds, WalkingTop, FrameFields
<1>3. r \in 1..Len(prog)
  BY WalkingTop, CellsInside
<1>4. r \in L.starts
  BY <1>3, WalkingTop, LayoutTypes DEF Laid, CellLaid, Is
<1>5. r <= L.exit[r] /\ L.exit[r] \in 1..Len(prog)
  BY <1>4, WalkingTop, PathEnds DEF OnPath
<1>6. r \in r..L.exit[r]
  BY <1>3, <1>5
<1>7. L.exit[r] = L.exit[1]
  BY <1>4, <1>6, WalkingTop DEF Tame
<1> QED
  BY <1>1, <1>2, <1>4, <1>7 DEF OnPath

\* CSONPATH_DO_RETURN: a sub-path returns a value at its END.
LEMMA ReturnWalks ==
  ASSUME NEW L, Walking(L), Return
  PROVE  status' = "run" => WalkOK(L)'
<1>1. call' = call /\ \A n : Count(n).val = NULL
  BY DEF Return, ReturnFound, ReturnRemove, ReturnUpdate, ReturnCallback, Count
<1>2. CASE ReturnFound
  <2>1. \/ LeaveAt(Top.pc, Top.pc, Value(Top.tmp))
        \/ Leave(Count(1))
    BY <1>2 DEF ReturnFound
  <2>2. CASE LeaveAt(Top.pc, Top.pc, Value(Top.tmp))
    <3>1. OnPath(L, Aim(L), Top.pc) /\ Is(prog, Top.pc, Endish)
      BY <1>2, AtInst DEF ReturnFound
    <3>2. Top.pc \in 1..Len(prog) /\ Top.pc <= Aim(L) /\ Aim(L) \in 1..Len(prog)
          /\ (Is(prog, Top.pc, {"END"}) => Top.pc = Aim(L))
      BY <3>1, WalkingTop, PathEnds
    <3>3. Top.own > 0 => Top.pc = Aim(L)
      <4>1. CASE Is(prog, Top.pc, {"OR"})
        <5>1. Top.pc \in Top.pc..Aim(L)
          BY <3>2, WalkingTop, LayoutTypes
        <5> QED
          BY <3>1, <4>1, <5>1, OrOutside
      <4>2. CASE ~Is(prog, Top.pc, {"OR"})
        BY <3>1, <3>2, <4>2 DEF Is, Endish
      <4> QED
        BY <4>1, <4>2
    <3>4. Top.pc \in Nat
      BY WalkingTop, FrameFields
    <3> QED
      BY <1>1, <2>2, <3>2, <3>3, <3>4, SentinelWalks
  <2>3. CASE Leave(Count(1))
    BY <1>1, <2>3, NullWalks
  <2> QED
    BY <2>1, <2>2, <2>3
<1>3. CASE ReturnRemove
  <2> DEFINE cond == Top.ctx = Top.inctx /\ NeedForeachRedo(be, heap, Top.ctx)
  <2>1. \/ LeaveFrom(Reloop(cond), None)
        \/ LeaveFrom(Reloop(cond), Count(1))
        \/ Crash
    BY <1>3 DEF ReturnRemove
  <2>2. cond \in BOOLEAN
    OBVIOUS
  <2> HIDE DEF cond
  <2> QED
    BY <1>1, <2>1, <2>2, NullWalks DEF None, Crash
<1>4. CASE ReturnUpdate
  <2>1. \/ Leave(None)
        \/ LeaveFrom(Reloop(TRUE), Count(1))
        \/ LeaveFrom(Reloop(TRUE), Count(-1))
    BY <1>4 DEF ReturnUpdate
  <2> QED
    BY <1>1, <2>1, NullWalks DEF None
<1>5. CASE ReturnCallback
  <2> DEFINE cond == Op(Top) = "update_or_create_callback" /\ Top.tmp = Top.val
  <2>1. LeaveFrom(Reloop(cond), Count(1)) \/ LeaveFrom(Reloop(cond), Count(-1))
    BY <1>5 DEF ReturnCallback
  <2>2. cond \in BOOLEAN
    OBVIOUS
  <2> HIDE DEF cond
  <2> QED
    BY <1>1, <2>1, <2>2, NullWalks
<1> QED
  BY <1>2, <1>3, <1>4, <1>5 DEF Return

\* ROOT, SWITCH_ROOT, TYPECHECK, and what the switch has no case for.
LEMMA PlainWalks ==
  ASSUME NEW L, Walking(L), Root \/ SwitchRoot \/ TypeCheck \/ Unimplemented
  PROVE  status' = "run" => WalkOK(L)'
<1>1. call' = call /\ \A n : Count(n).val = NULL
  BY DEF Root, SwitchRoot, TypeCheck, Unimplemented, Count
<1>2. Top \in Frame
  BY WalkingTop
<1>3. ASSUME At_({"ROOT", "SWITCH_ROOT", "TYPECHECK"})
      PROVE  OnPath(L, Aim(L), Top.pc + 1)
  <2>1. OnPath(L, Aim(L), Top.pc) /\ Is(prog, Top.pc, {"ROOT", "SWITCH_ROOT", "TYPECHECK"})
    BY <1>3, AtInst
  <2>2. ~Is(prog, Top.pc, FilterOps \cup {"END", "RANGE", "GET_SUBPATH"})
    BY <2>1 DEF Is, FilterOps
  <2> QED
    BY <2>1, <2>2, WalkingTop, GoesOn
<1>4. ASSUME NEW root, Go(AtRoot(Top, root)), OnPath(L, Aim(L), Top.pc + 1),
             Top.mode = "inst"
      PROVE  WalkOK(L)'
  <2>1. /\ AtRoot(Top, root).own = Top.own /\ AtRoot(Top, root).mode = "inst"
        /\ AtRoot(Top, root).pc = Top.pc + 1
    BY <1>2, <1>4 DEF AtRoot, Frame
  <2> QED
    BY <1>1, <1>4, <2>1, InstWalks
<1>5. CASE Root
  <2>1. Leave(Count(1)) \/ Fail \/ Go(AtRoot(Top, call.root))
    BY <1>5 DEF Root
  <2>2. At_({"ROOT", "SWITCH_ROOT", "TYPECHECK"}) /\ Top.mode = "inst"
    BY <1>5 DEF Root, At_, In
  <2> QED
    BY <1>1, <1>3, <1>4, <2>1, <2>2, NullWalks, FailWalks
<1>6. CASE SwitchRoot
  <2>1. Fail \/ Go(AtRoot(Top, call.extras[Here.num + 1]))
    BY <1>6 DEF SwitchRoot
  <2>2. At_({"ROOT", "SWITCH_ROOT", "TYPECHECK"}) /\ Top.mode = "inst"
    BY <1>6 DEF SwitchRoot, At_, In
  <2> QED
    BY <1>1, <1>3, <1>4, <2>1, <2>2, FailWalks
<1>7. CASE TypeCheck
  <2> DEFINE f == [Top EXCEPT !.pc = Top.pc + 1]
  <2>1. Leave(None) \/ Go(f)
    BY <1>7 DEF TypeCheck
  <2>2. At_({"ROOT", "SWITCH_ROOT", "TYPECHECK"}) /\ Top.mode = "inst"
    BY <1>7 DEF TypeCheck, At_, In
  <2>3. f.own = Top.own /\ f.mode = "inst" /\ f.pc = Top.pc + 1
    BY <1>2, <2>2 DEF Frame
  <2> HIDE DEF f
  <2> QED
    BY <1>1, <1>3, <2>1, <2>2, <2>3, NullWalks, InstWalks DEF None
<1>8. CASE Unimplemented
  BY <1>1, <1>8, FailWalks DEF Unimplemented
<1> QED
  BY <1>5, <1>6, <1>7, <1>8

\* A getter goes on at the next instruction, or starts to look for an OR there.
LEMMA GetterWalks ==
  ASSUME NEW L, Walking(L), call' = call, NEW kind \in Kinds, NEW ci \in ChildInfo,
         NEW at \in Nat, OnPath(L, Aim(L), at + 1), Getter(Top, kind, ci, at)
  PROVE  status' = "run" => WalkOK(L)'
<1> DEFINE pre == PreGet(Top, kind, ci)
           v   == Refetch(pre.h, pre.f.tmp, ci)
           g   == [pre.f EXCEPT !.tmp = v, !.pc = at + 1, !.mode = "inst"]
<1>1. CASE Fail
  BY <1>1, FailWalks
<1>2. CASE Go(g) \/ Go([g EXCEPT !.mode = "scan"]) \/ Go([g EXCEPT !.ci = ci])
  <2>1. pre.f \in Frame /\ pre.f.own = Top.own
    BY WalkingTop, PreGetType DEF Attempt
  <2> HIDE DEF pre, v
  <2>2. /\ g.own = Top.own /\ g.mode = "inst" /\ g.pc = at + 1
        /\ [g EXCEPT !.ci = ci].own = Top.own /\ [g EXCEPT !.ci = ci].mode = "inst"
        /\ [g EXCEPT !.ci = ci].pc = at + 1
        /\ [g EXCEPT !.mode = "scan"].own = Top.own /\ [g EXCEPT !.mode = "scan"].mode = "scan"
        /\ [g EXCEPT !.mode = "scan"].pc = at + 1
    BY <2>1 DEF Frame
  <2> HIDE DEF g
  <2>3. CASE Go(g) \/ Go([g EXCEPT !.ci = ci])
    BY <2>2, <2>3, InstWalks
  <2>4. CASE Go([g EXCEPT !.mode = "scan"])
    <3> DEFINE f == [g EXCEPT !.mode = "scan"]
    <3>1. f.own = Top.own /\ f.mode = "scan" /\ f.pc = at + 1 /\ Go(f)
      BY <2>2, <2>4
    <3> HIDE DEF f
    <3>2. at + 1 \in L.starts /\ L.exit[at + 1] = Aim(L) /\ at + 1 <= at + 1 /\ at + 1 <= Aim(L)
      BY WalkingTop, PathEnds DEF OnPath
    <3>3. Placed(prog, L, Aim(L), f)
      BY <3>1, <3>2 DEF Placed, AllModes, DotModes, ClauseModes, FilterModes, SubpathModes
    <3> QED
      BY <3>1, <3>3, ModeNames, GoWalks
  <2> QED
    BY <1>2, <2>3, <2>4
<1> QED
  BY <1>1, <1>2 DEF Getter

\* A sub-path is called: the frame on top waits at a GET_SUBPATH, with an
\* end_sentinel that is before the end.
LEMMA SubpathWalks ==
  ASSUME NEW L, Walking(L), call' = call, NEW mode \in SubpathModes, NEW at \in Nat,
         SubpathAt(L, at + 1), IF mode = "subpath" THEN Top.pc = at ELSE Top.ow = at,
         \A f : /\ f.mode = mode /\ f.pc = Top.pc /\ f.ow = Top.ow /\ f.opn = Top.opn
                /\ f.cnt = Top.cnt /\ f.sent <= L.exit[at + 1]
                => Placed(prog, L, Aim(L), f),
         Enter([Top EXCEPT !.mode = mode, !.sent = at],
               NewFrame(at + 1, call.root, NULL, NoInfo, Depth))
  PROVE  status' = "run" => WalkOK(L)'
<1> DEFINE f == [Top EXCEPT !.mode = mode, !.sent = at]
           g == NewFrame(at + 1, call.root, NULL, NoInfo, Depth)
<1>1. Top \in Frame /\ Depth \in Nat /\ call \in Calls /\ Laid(prog, L)
  BY WalkingTop
<1>2. f \in Frame
  BY <1>1, Zenon DEF Frame, WaitingModes
<1>3. /\ f.own = Top.own /\ f.mode = mode /\ f.pc = Top.pc /\ f.ow = Top.ow
      /\ f.opn = Top.opn /\ f.cnt = Top.cnt /\ f.sent = at
  BY <1>1 DEF Frame
<1>4. at + 1 \in Nat /\ call.root \in ValueSet /\ NULL \in ValueSet
  BY <1>1, CallAssumption DEF ValueSet
<1>5. g \in Frame
  BY <1>1, <1>4, InfoType, NewFrameType
<1>6. g.own = Depth /\ g.mode = "inst" /\ g.pc = at + 1
  BY DEF NewFrame
<1>7. Enter(f, g)
  OBVIOUS
<1> HIDE DEF f, g
<1>8. OnPath(L, L.exit[at + 1], at + 1)
  BY DEF SubpathAt, OnPath
<1>9. at + 1 <= L.exit[at + 1] /\ L.exit[at + 1] \in 1..Len(prog)
  BY <1>1, <1>8, PathEnds
<1>10. at <= L.exit[at + 1]
  BY <1>9, <1>1, LayoutTypes
<1>11. Placed(prog, L, Aim(L), f)
  BY <1>3, <1>10
<1>12. OperandOf(f) = at
  BY <1>3 DEF OperandOf
<1>13. Placed(prog, L, L.exit[at + 1], g)
  BY <1>6, <1>8, PlacedAt
<1>14. Callee(L, f, g)
  BY <1>3, <1>6, <1>12, <1>13 DEF Callee
<1> QED
  BY <1>2, <1>3, <1>5, <1>6, <1>7, <1>11, <1>14, ModeNames, EnterWalks

LEMMA GettingWalks ==
  ASSUME NEW L, Walking(L), Getting
  PROVE  status' = "run" => WalkOK(L)'
<1>1. call' = call
  BY DEF Getting, GetObj, GetArray, ScanForOr, GetSubpath, AfterSubpath
<1>2. Top \in Frame /\ Top.pc \in Nat /\ Top.sent \in Nat /\ call \in Calls /\ Laid(prog, L)
      /\ Placed(prog, L, Aim(L), Top) /\ IInv
  BY WalkingTop, FrameFields
<1>3. Here.key \in Text /\ Here.num \in Nat /\ Here.num \in Int
  BY <1>2, CodeType DEF Here
<1>4. "obj" \in Kinds /\ "arr" \in Kinds
  BY DEF Kinds
<1>5. ASSUME At_(Getters)
      PROVE  OnPath(L, Aim(L), Top.pc + 1)
  <2>1. OnPath(L, Aim(L), Top.pc) /\ Is(prog, Top.pc, Getters)
    BY <1>5, AtInst
  <2>2. ~Is(prog, Top.pc, FilterOps \cup {"END", "RANGE", "GET_SUBPATH"})
    BY <2>1 DEF Is, FilterOps, Getters
  <2> QED
    BY <1>2, <2>1, <2>2, GoesOn
<1>6. CASE GetObj
  <2>1. Getter(Top, "obj", KeyInfo(Here.key), Top.pc) /\ At_(Getters)
    BY <1>6 DEF GetObj, At_, Getters
  <2> QED
    BY <1>1, <1>2, <1>3, <1>4, <1>5, <2>1, InfoType, GetterWalks
<1>7. CASE GetArray
  <2>1. Getter(Top, "arr", IdxInfo(Here.num), Top.pc) /\ At_(Getters)
    BY <1>7 DEF GetArray, At_, Getters
  <2> QED
    BY <1>1, <1>2, <1>3, <1>4, <1>5, <2>1, InfoType, GetterWalks
<1>8. CASE ScanForOr
  <2>1. Top.mode = "scan"
    BY <1>8 DEF ScanForOr, In
  <2>2. PICK q \in L.starts : L.exit[q] = Aim(L) /\ q <= Top.pc /\ Top.pc <= Aim(L)
    BY <1>2, <2>1 DEF Placed
  <2>3. /\ OnPath(L, Aim(L), q) /\ q \in 1..Len(prog) /\ Aim(L) \in 1..Len(prog)
        /\ Len(prog) \in Nat /\ Is(prog, Aim(L), {"END"})
    BY <1>2, <2>2, AimEnds, LayoutTypes DEF OnPath
  <2>4. Top.pc \in q..Aim(L) /\ Top.pc \in 1..Len(prog)
    BY <1>2, <2>2, <2>3
  <2> DEFINE f == [Top EXCEPT !.mode = "inst", !.pc = Top.pc + 1]
             g == [Top EXCEPT !.pc = NextInst(prog, Top.pc)]
  <2>5. \/ Leave(None)
        \/ Is(prog, Top.pc, {"OR"}) /\ Go(f)
        \/ Crash
        \/ ~Is(prog, Top.pc, {"END"}) /\ Go(g)
    BY <1>8 DEF ScanForOr, Is, Here, Code
  <2>6. f.own = Top.own /\ f.mode = "inst" /\ f.pc = Top.pc + 1
        /\ g.own = Top.own /\ g.mode = "scan" /\ g.pc = NextInst(prog, Top.pc)
    BY <1>2, <2>1 DEF Frame
  <2> HIDE DEF f, g
  <2>7. CASE Is(prog, Top.pc, {"OR"}) /\ Go(f)
    <3>1. OnPath(L, Aim(L), Top.pc)
      BY <2>3, <2>4, <2>7, OrOutside
    <3>2. ~Is(prog, Top.pc, FilterOps \cup {"END", "RANGE", "GET_SUBPATH"})
      BY <2>7 DEF Is, FilterOps
    <3>3. OnPath(L, Aim(L), f.pc)
      BY <1>2, <2>6, <3>1, <3>2, GoesOn
    <3> QED
      BY <1>1, <2>6, <2>7, <3>3, InstWalks
  <2>8. CASE ~Is(prog, Top.pc, {"END"}) /\ Go(g)
    <3>1. Top.pc < Aim(L)
      <4>1. Top.pc # Aim(L)
        BY <2>3, <2>8
      <4> QED
        BY <2>3, <2>4, <4>1
    <3>2. Is(prog, Aim(L), {"END", "UNION_END"})
      BY <2>3 DEF Is
    <3>3. NextInst(prog, Top.pc) \in (Top.pc + 1)..Aim(L)
      BY <1>2, <2>3, <2>4, <3>1, <3>2, WalkTo
    <3>4. q <= g.pc /\ g.pc <= Aim(L)
      BY <2>3, <2>4, <2>6, <3>3
    <3>5. Placed(prog, L, Aim(L), g)
      BY <2>2, <2>6, <3>4 DEF Placed, AllModes, DotModes, ClauseModes, FilterModes, SubpathModes
    <3> QED
      BY <1>1, <2>6, <2>8, <3>5, ModeNames, GoWalks
  <2> QED
    BY <1>1, <2>5, <2>7, <2>8, NullWalks DEF None, Count, Crash
<1>9. CASE GetSubpath
  <2>1. /\ OnPath(L, Aim(L), Top.pc) /\ Is(prog, Top.pc, {"GET_SUBPATH"})
        /\ Enter([Top EXCEPT !.mode = "subpath", !.sent = Top.pc],
                 NewFrame(Top.pc + 1, call.root, NULL, NoInfo, Depth))
    BY <1>9, AtInst DEF GetSubpath
  <2>2. SubpathAt(L, Top.pc + 1)
    BY <1>2, <2>1, GoesOn
  <2>3. ASSUME NEW f, f.mode = "subpath", f.pc = Top.pc, f.sent <= L.exit[Top.pc + 1]
        PROVE  Placed(prog, L, Aim(L), f)
    BY <2>1, <2>3 DEF Placed, AllModes, DotModes, ClauseModes, FilterModes, OperandOf
  <2> QED
    BY <1>1, <1>2, <2>1, <2>2, <2>3, SubpathWalks DEF SubpathModes
<1>10. CASE AfterSubpath
  <2>1. Top.mode = "subpath"
    BY <1>10 DEF AfterSubpath, In
  <2>2. \/ /\ IsNum(be, heap, ret.val)
           /\ Getter(Top, "arr", IdxInfo(heap[ret.val].num), Top.sent)
        \/ /\ IsStr(heap, ret.val)
           /\ Getter(Top, "obj", KeyInfo(heap[ret.val].str), Top.sent)
        \/ Fail
    BY <1>10 DEF AfterSubpath
  <2>3. ASSUME ret.val \in Nodes
        PROVE  /\ heap[ret.val].num \in Int /\ heap[ret.val].str \in Text
               /\ OnPath(L, Aim(L), Top.sent + 1)
    <3>1. heap[ret.val].num \in Int /\ heap[ret.val].str \in Text /\ ret.val # NULL
      BY <1>2, <2>3, RunTypes, DocAssumption DEF Heap, Node
    <3>2. Top.sent = L.exit[Top.pc + 1]
      BY <2>1, <3>1, WalkingTop DEF Arrived, OperandOf, SubpathModes
    <3>3. OnPath(L, Aim(L), Top.pc) /\ Is(prog, Top.pc, {"GET_SUBPATH"})
      BY <1>2, <2>1 DEF Placed
    <3> QED
      BY <1>2, <3>1, <3>2, <3>3, GoesOn
  <2>4. CASE /\ IsNum(be, heap, ret.val)
             /\ Getter(Top, "arr", IdxInfo(heap[ret.val].num), Top.sent)
    <3>1. ret.val \in Nodes
      BY <2>4 DEF IsNum, IsBool, IsKind
    <3>2. IdxInfo(heap[ret.val].num) \in ChildInfo
      BY <2>3, <3>1, InfoType
    <3> QED
      BY <1>1, <1>2, <1>4, <2>3, <2>4, <3>1, <3>2, GetterWalks
  <2>5. CASE /\ IsStr(heap, ret.val)
             /\ Getter(Top, "obj", KeyInfo(heap[ret.val].str), Top.sent)
    <3>1. ret.val \in Nodes
      BY <2>5 DEF IsStr, IsKind
    <3>2. KeyInfo(heap[ret.val].str) \in ChildInfo
      BY <2>3, <3>1, InfoType
    <3> QED
      BY <1>1, <1>2, <1>4, <2>3, <2>5, <3>1, <3>2, GetterWalks
  <2> QED
    BY <1>1, <2>2, <2>4, <2>5, FailWalks
<1> QED
  BY <1>6, <1>7, <1>8, <1>9, <1>10 DEF Getting

--------------------------------------------------------------------------------
(***************************************************************************)
(* Loops.                                                                  *)
(***************************************************************************)

\* CSONPATH_UPDATE_CHECK_EXIST does not touch the walker.
LEMMA CheckExistWalker ==
  ASSUME NEW f \in Frame, NEW kind
  PROVE  CheckExist(f, kind).f.pc = f.pc /\ CheckExist(f, kind).f.own = f.own
<1> DEFINE n == NewNode(heap)
           g == [f EXCEPT !.tmp = n, !.ctx = n]
<1>1. CheckExist(f, kind).f = f \/ CheckExist(f, kind).f = g
  BY DEF CheckExist
<1> HIDE DEF n
<1>2. g.pc = f.pc /\ g.own = f.own
  BY DEF Frame
<1> QED
  BY <1>1, <1>2

LEMMA PreLoopWalks ==
  ASSUME NEW L, Walking(L), NEW kind \in Kinds, OnPath(L, Aim(L), Top.pc),
         NEW loop, PreLoop(Top, kind, loop),
         \/ loop = "all" /\ Is(prog, Top.pc, {"GET_ALL"})
         \/ loop = "filter" /\ Is(prog, Top.pc, FilterOps)
  PROVE  status' = "run" => WalkOK(L)'
<1> DEFINE e == IF Op(Top) = "update_or_create" THEN CheckExist(Top, kind)
                ELSE [ok |-> TRUE, h |-> heap, f |-> Top]
           f == Start(e.f, loop)
<1>1. Top \in Frame /\ IInv
  BY WalkingTop
<1>2. e.f \in Frame /\ e.f.pc = Top.pc /\ e.f.own = Top.own
  BY <1>1, CheckExistType, CheckExistWalker DEF Attempt
<1>3. call' = call /\ (Fail \/ Go(f))
  BY DEF PreLoop
<1> HIDE DEF e
<1>4. f.mode = loop /\ f.pc = Top.pc /\ f.own = Top.own
  BY <1>2, StartFields
<1> HIDE DEF f
<1>5. Placed(prog, L, Aim(L), f)
  BY <1>4, PlacedAt DEF AllModes
<1>6. f.mode \in ActiveModes
  BY <1>4 DEF ActiveModes
<1> QED
  BY <1>3, <1>4, <1>5, <1>6, GoWalks, FailWalks

\* The call of a loop, on one of its entries.
LEMMA VisitWalks ==
  ASSUME NEW L, Walking(L), call' = call, NEW f \in Frame, f.own = Top.own,
         More(f), Element(f) # BAD, NEW mode \in WaitingModes \ SubpathModes, NEW pc \in Nat,
         \A g : g.mode = mode /\ g.pc = f.pc => Placed(prog, L, Aim(L), g),
         OnPath(L, Aim(L), pc), Visit(f, mode, pc)
  PROVE  status' = "run" => WalkOK(L)'
<1> DEFINE ci == CurrentInfo(f)
           el == Element(f)
           g  == [f EXCEPT !.mode = mode, !.ci = ci, !.rl = FALSE, !.el = el]
           callee == LoopChild(f, el, pc, ci)
<1>1. el \in ValueSet /\ ci \in ChildInfo /\ f.tmp \in ValueSet /\ f.own \in Nat
  BY ElementType, FrameFields, WalkingTop
<1>2. Enter(g, callee)
  BY DEF Visit
<1> HIDE DEF ci, el
<1>3. g \in Frame
  BY <1>1, Zenon DEF Frame
<1>4. g.own = f.own /\ g.mode = mode /\ g.pc = f.pc
  BY DEF Frame
<1>5. callee \in Frame
  BY <1>1, NewFrameType DEF LoopChild
<1>6. callee.own = f.own /\ callee.mode = "inst" /\ callee.pc = pc
  BY DEF LoopChild, NewFrame
<1> HIDE DEF g, callee
<1>7. Placed(prog, L, Aim(L), g) /\ Placed(prog, L, Aim(L), callee)
  BY <1>4, <1>6, PlacedAt
<1>8. Callee(L, g, callee)
  BY <1>4, <1>6, <1>7 DEF Callee
<1> QED
  BY <1>2, <1>3, <1>4, <1>5, <1>6, <1>7, <1>8, ModeNames, EnterWalks

\* What a loop does once the call has returned: what was left for the
\* sub-path it belongs to is left there, as it comes with a value.
LEMMA AfterVisitWalks ==
  ASSUME NEW L, Walking(L), call' = call, NEW macro, NEW loop, NEW next \in ActiveModes,
         Top.mode \in WaitingModes \ SubpathModes,
         loop \in ActiveModes \/ (macro = "UNION" /\ next # loop),
         Top.pc <= Aim(L), macro = "FILTER" => Top.ow <= Aim(L),
         \A f : /\ f.mode \in {loop, next} /\ f.pc = Top.pc /\ f.cnt = Top.cnt
                => Placed(prog, L, Aim(L), f),
         AfterVisit(macro, loop, next)
  PROVE  status' = "run" => WalkOK(L)'
<1> DEFINE nb  == Counted(Top, ret)
           end == IF macro = "RANGE" /\ Op(Top) = "remove" THEN Top.end - 1 ELSE Top.end
           f   == [Top EXCEPT !.nb = nb, !.end = end]
           v   == Verdict(Top, ret, macro)
<1>1. Top \in Frame /\ ret \in Result /\ Top.pc \in Nat /\ Top.ow \in Nat /\ Top.end \in Int
  BY WalkingTop, FrameFields
<1>2. nb \in Int /\ end \in Int
  BY <1>1, CountedType
<1>3. \/ LeaveAt(f.pc, IF macro = "FILTER" THEN f.ow ELSE f.pc, ret)
      \/ v = "again" /\ Go(Start(f, loop))
      \/ next = loop /\ Go(NextEntry(f, loop))
      \/ Go([f EXCEPT !.mode = next])
  BY DEF AfterVisit
<1>0. v = "again" => macro # "UNION"
  BY DEF Verdict
<1> HIDE DEF nb, end, v
<1>4. f \in Frame
  BY <1>1, <1>2, Zenon DEF Frame
<1>5. f.own = Top.own /\ f.pc = Top.pc /\ f.ow = Top.ow /\ f.cnt = Top.cnt
  BY <1>1 DEF Frame
<1> HIDE DEF f
<1>6. CASE LeaveAt(f.pc, IF macro = "FILTER" THEN f.ow ELSE f.pc, ret)
  <2>1. ret.val # NULL /\ Top.own > 0 => stack[Top.own].sent = Aim(L)
    BY WalkingTop DEF Arrived, Aim
  <2>2. CASE macro = "FILTER"
    <3>1. LeaveAt(Top.pc, Top.ow, ret)
      BY <1>5, <1>6, <2>2
    <3> QED
      BY <1>1, <2>1, <2>2, <3>1, SentinelWalks
  <2>3. CASE macro # "FILTER"
    <3>1. LeaveAt(Top.pc, Top.pc, ret)
      BY <1>5, <1>6, <2>3
    <3> QED
      BY <1>1, <2>1, <3>1, SentinelWalks
  <2> QED
    BY <2>2, <2>3
<1>7. ASSUME NEW g, g.own = Top.own, g.mode \in {loop, next} \cap ActiveModes,
             g.pc = Top.pc, g.cnt = Top.cnt, Go(g)
      PROVE  WalkOK(L)'
  BY <1>7, GoWalks
<1>8. CASE v = "again" /\ Go(Start(f, loop))
  <2> DEFINE g == Start(f, loop)
  <2>1. g.own = Top.own /\ g.mode = loop /\ g.pc = Top.pc /\ g.cnt = Top.cnt
    BY <1>4, <1>5, StartFields
  <2> HIDE DEF g
  <2> QED
    BY <1>0, <1>7, <1>8, <2>1 DEF g
<1>9. CASE next = loop /\ Go(NextEntry(f, loop))
  <2> DEFINE g == NextEntry(f, loop)
  <2>1. g.own = Top.own /\ g.mode = loop /\ g.pc = Top.pc /\ g.cnt = Top.cnt
    BY <1>4, <1>5, NextEntryFields
  <2> HIDE DEF g
  <2> QED
    BY <1>7, <1>9, <2>1 DEF g
<1>10. CASE Go([f EXCEPT !.mode = next])
  <2> DEFINE g == [f EXCEPT !.mode = next]
  <2>1. g.own = Top.own /\ g.mode = next /\ g.pc = Top.pc /\ g.cnt = Top.cnt
    BY <1>4, <1>5 DEF Frame
  <2> HIDE DEF g
  <2> QED
    BY <1>7, <1>10, <2>1 DEF g
<1> QED
  BY <1>3, <1>6, <1>8, <1>9, <1>10

\* GET_ALL and RANGE.
LEMMA AllAndRangeWalks ==
  ASSUME NEW L, Walking(L),
         GetAll \/ AllElement \/ AllBack \/ GetRange \/ RangeElement \/ RangeBack
  PROVE  status' = "run" => WalkOK(L)'
<1>1. call' = call
  BY DEF GetAll, AllElement, AllBack, GetRange, RangeElement, RangeBack, PreLoop
<1>2. Top \in Frame /\ Top.pc \in Nat /\ Top.pc + 1 \in Nat /\ call \in Calls /\ Laid(prog, L)
      /\ Placed(prog, L, Aim(L), Top) /\ Top.i \in Nat /\ Top.ow \in Nat
  BY WalkingTop, FrameFields
<1>3. ASSUME OnPath(L, Aim(L), Top.pc)
      PROVE  Top.pc <= Aim(L)
  BY <1>2, <1>3, PathEnds
<1>4. ASSUME Top.mode \in AllModes
      PROVE  /\ OnPath(L, Aim(L), Top.pc) /\ Is(prog, Top.pc, {"GET_ALL"})
             /\ OnPath(L, Aim(L), Top.pc + 1)
  <2>1. OnPath(L, Aim(L), Top.pc) /\ Is(prog, Top.pc, {"GET_ALL"})
    BY <1>2, <1>4 DEF Placed, AllModes
  <2>2. ~Is(prog, Top.pc, FilterOps \cup {"END", "RANGE", "GET_SUBPATH"})
    BY <2>1 DEF Is, FilterOps
  <2> QED
    BY <1>2, <2>1, <2>2, GoesOn
<1>5. ASSUME NEW f, f.mode \in AllModes, f.pc = Top.pc, Top.mode \in AllModes
      PROVE  Placed(prog, L, Aim(L), f)
  BY <1>4, <1>5, PlacedAt
<1>6. ASSUME NEW f, f.mode \in {"range", "range_back"}, f.pc = Top.pc,
             Top.mode \in {"range", "range_back"}
      PROVE  Placed(prog, L, Aim(L), f) /\ OnPath(L, Aim(L), Top.pc)
  <2>1. OnPath(L, Aim(L), Top.pc)
    BY <1>2, <1>6 DEF Placed
  <2> QED
    BY <1>6, <2>1, PlacedAt
<1>7. CASE GetAll
  <2>1. GuessContainer(Top.pc) \in Kinds
    BY DEF GuessContainer, Kinds
  <2>2. /\ OnPath(L, Aim(L), Top.pc) /\ Is(prog, Top.pc, {"GET_ALL"})
        /\ PreLoop(Top, GuessContainer(Top.pc), "all")
    BY <1>7, AtInst DEF GetAll
  <2> QED
    BY <2>1, <2>2, PreLoopWalks
<1>8. CASE AllElement
  <2>1. Top.mode \in AllModes
    BY <1>8 DEF AllElement, In, AllModes
  <2>2. \/ Out(Top)
        \/ More(Top) /\ Element(Top) # BAD /\ Visit(Top, "all_back", Top.pc + 1)
    BY <1>8 DEF AllElement
  <2>3. ASSUME NEW g, g.mode = "all_back", g.pc = Top.pc
        PROVE  Placed(prog, L, Aim(L), g)
    BY <1>5, <2>1, <2>3 DEF AllModes
  <2> QED
    BY <1>1, <1>2, <1>3, <1>4, <2>1, <2>2, <2>3, ModeNames, OutWalks, VisitWalks
<1>9. CASE AllBack
  <2>1. Top.mode = "all_back" /\ Top.mode \in AllModes /\ AfterVisit("ALL", "all", "all")
    BY <1>9 DEF AllBack, In, AllModes
  <2>2. ASSUME NEW g, g.mode \in {"all", "all"}, g.pc = Top.pc
        PROVE  Placed(prog, L, Aim(L), g)
    BY <1>5, <2>1, <2>2 DEF AllModes
  <2>3. Top.mode \in WaitingModes \ SubpathModes
    BY <2>1, ModeNames
  <2> QED
    BY <1>1, <1>3, <1>4, <2>1, <2>2, <2>3, ModeNames, AfterVisitWalks
<1>10. CASE GetRange
  <2> DEFINE beg == Code(Top.pc + 1).num
             last == Code(Top.pc + 2).num
             end == IF last = 0 THEN Unbounded ELSE last
             s == Start(Top, "range")
             f == [s EXCEPT !.pc = Top.pc + 3, !.end = end, !.ow = beg]
  <2>1. Leave(None) \/ Go(f)
    BY <1>10 DEF GetRange
  <2>2. OnPath(L, Aim(L), Top.pc + 3)
    BY <1>2, <1>10, AtInst, GoesOn DEF GetRange
  <2>3. s \in Frame /\ s.own = Top.own /\ s.mode = "range"
    BY <1>2, WalkingTop, ModeNames, StartType, StartFields
  <2> HIDE DEF beg, last, end, s
  <2>4. f.own = Top.own /\ f.mode = "range" /\ f.pc = Top.pc + 3
    BY <2>3 DEF Frame
  <2> HIDE DEF f
  <2>5. Placed(prog, L, Aim(L), f)
    BY <2>2, <2>4, PlacedAt
  <2> QED
    BY <1>1, <2>1, <2>4, <2>5, ModeNames, GoWalks, NullWalks DEF None, Count
<1>11. CASE RangeElement
  <2> DEFINE i == IF Top.i < Top.ow THEN Top.ow ELSE Top.i
             f == [Top EXCEPT !.i = i]
  <2>1. Out(f) \/ Crash \/ (More(f) /\ Element(f) # BAD /\ Visit(f, "range_back", f.pc))
    BY <1>11 DEF RangeElement
  <2>2. i \in Nat
    BY <1>2
  <2> HIDE DEF i
  <2>3. f \in Frame
    BY <1>2, <2>2, Zenon DEF Frame
  <2>4. f.own = Top.own /\ f.pc = Top.pc
    BY <1>2 DEF Frame
  <2> HIDE DEF f
  <2>5. Top.mode = "range" /\ OnPath(L, Aim(L), Top.pc)
    BY <1>2, <1>11 DEF RangeElement, In, Placed
  <2>6. ASSUME NEW g, g.mode = "range_back", g.pc = f.pc
        PROVE  Placed(prog, L, Aim(L), g)
    BY <1>6, <2>4, <2>5, <2>6
  <2>7. CASE Out(f)
    BY <1>1, <1>2, <1>3, <2>4, <2>5, <2>7, OutWalks
  <2>8. CASE More(f) /\ Element(f) # BAD /\ Visit(f, "range_back", f.pc)
    BY <1>1, <1>2, <2>3, <2>4, <2>5, <2>6, <2>8, ModeNames, VisitWalks
  <2> QED
    BY <2>1, <2>7, <2>8 DEF Crash
<1>12. CASE RangeBack
  <2>1. Top.mode = "range_back" /\ AfterVisit("RANGE", "range", "range")
    BY <1>12 DEF RangeBack, In
  <2>2. OnPath(L, Aim(L), Top.pc)
    BY <1>6, <2>1
  <2>3. ASSUME NEW g, g.mode \in {"range", "range"}, g.pc = Top.pc
        PROVE  Placed(prog, L, Aim(L), g)
    BY <1>6, <2>1, <2>3
  <2>4. Top.mode \in WaitingModes \ SubpathModes
    BY <2>1, ModeNames
  <2> QED
    BY <1>1, <1>3, <2>1, <2>2, <2>3, <2>4, ModeNames, AfterVisitWalks
<1> QED
  BY <1>7, <1>8, <1>9, <1>10, <1>11, <1>12

\* FIND_ALL and csonpath_<op>_dotdot: all of it at the same instruction.
LEMMA DescentWalks ==
  ASSUME NEW L, Walking(L), FindAll \/ DotElement \/ DotBack \/ Descend \/ DotReturn
  PROVE  status' = "run" => WalkOK(L)'
<1>1. call' = call
  BY DEF FindAll, DotElement, DotBack, Descend, DotReturn
<1>2. Top \in Frame /\ Top.pc \in Nat /\ Top.pc + 1 \in Nat /\ call \in Calls /\ Laid(prog, L)
      /\ Placed(prog, L, Aim(L), Top) /\ IInv /\ Top.own \in Nat /\ Top.ci \in ChildInfo
  BY WalkingTop, FrameFields
<1>3. OnPath(L, Aim(L), Top.pc) /\ Is(prog, Top.pc, {"FIND_ALL"})
  <2>1. CASE FindAll
    BY <2>1, AtInst DEF FindAll
  <2>2. CASE ~FindAll
    <3>1. Top.mode \in DotModes
      BY <2>2 DEF DotElement, DotBack, Descend, DotReturn, In, DotModes
    <3> QED
      BY <1>2, <3>1 DEF Placed, DotModes
  <2> QED
    BY <2>1, <2>2
<1>4. Top.pc <= Aim(L) /\ OnPath(L, Aim(L), Top.pc + 1)
  <2>1. ~Is(prog, Top.pc, FilterOps \cup {"END", "RANGE", "GET_SUBPATH"})
    BY <1>3 DEF Is, FilterOps
  <2> QED
    BY <1>2, <1>3, <2>1, PathEnds, GoesOn
<1>5. ASSUME NEW f, f.mode \in DotModes, f.pc = Top.pc
      PROVE  Placed(prog, L, Aim(L), f)
  BY <1>3, <1>5, PlacedAt
<1>6. {"dot", "dot_back", "descend", "dot_return"} \subseteq DotModes
  BY DEF DotModes
<1>7. ASSUME NEW g, g.own = Top.own, g.mode \in {"dot", "descend"}, g.pc = Top.pc, Go(g)
      PROVE  WalkOK(L)'
  BY <1>1, <1>5, <1>6, <1>7, ModeNames, GoWalks
<1>8. CASE FindAll
  <2> DEFINE f == [Top EXCEPT !.fn = "dotdot"]
             g == Start(f, "dot")
  <2>1. Go(g) \/ Leave(None)
    BY <1>8 DEF FindAll
  <2>2. f \in Frame
    BY <1>2, Zenon DEF Frame
  <2>3. f.own = Top.own /\ f.pc = Top.pc
    BY <1>2 DEF Frame
  <2> HIDE DEF f
  <2>4. g.own = Top.own /\ g.mode = "dot" /\ g.pc = Top.pc
    BY <2>2, <2>3, StartFields
  <2> HIDE DEF g
  <2> QED
    BY <1>1, <1>7, <2>1, <2>4, NullWalks DEF None, Count
<1>9. CASE DotElement
  <2> DEFINE ci == CurrentInfo(Top)
             el == Element(Top)
             f  == [Top EXCEPT !.ci = ci, !.rl = FALSE, !.el = el]
             g  == [f EXCEPT !.mode = "descend"]
  <2>1. \/ Out(Top)
        \/ Crash
        \/ More(Top) /\ el # BAD /\ Visit(Top, "dot_back", Top.pc + 1)
        \/ Go(g)
    BY <1>9 DEF DotElement
  <2>2. g.own = Top.own /\ g.mode = "descend" /\ g.pc = Top.pc
    BY <1>2 DEF Frame
  <2> HIDE DEF g
  <2>3. ASSUME NEW h, h.mode = "dot_back", h.pc = Top.pc
        PROVE  Placed(prog, L, Aim(L), h)
    BY <1>5, <1>6, <2>3
  <2>4. CASE Out(Top)
    BY <1>1, <1>2, <1>4, <2>4, OutWalks
  <2>5. CASE More(Top) /\ el # BAD /\ Visit(Top, "dot_back", Top.pc + 1)
    BY <1>1, <1>2, <1>4, <2>3, <2>5, ModeNames, VisitWalks
  <2> QED
    BY <1>7, <2>1, <2>2, <2>4, <2>5 DEF Crash
<1>10. CASE DotBack \/ DotReturn
  <2>1. /\ Top.mode \in {"dot_back", "dot_return"}
        /\ AfterVisit("ALL", "dot", "descend") \/ AfterVisit("ALL", "dot", "dot")
    BY <1>10 DEF DotBack, DotReturn, In
  <2>2. ASSUME NEW g, g.mode \in {"dot", "descend"}, g.pc = Top.pc
        PROVE  Placed(prog, L, Aim(L), g)
    BY <1>5, <1>6, <2>2
  <2>3. Top.mode \in WaitingModes \ SubpathModes
    BY <2>1, ModeNames
  <2>4. CASE AfterVisit("ALL", "dot", "descend")
    BY <1>1, <1>4, <2>2, <2>3, <2>4, ModeNames, AfterVisitWalks
  <2>5. CASE AfterVisit("ALL", "dot", "dot")
    BY <1>1, <1>4, <2>2, <2>3, <2>5, ModeNames, AfterVisitWalks
  <2> QED
    BY <2>1, <2>4, <2>5
<1>11. CASE Descend
  <2> DEFINE el == IF Op(Top) \in CreateOps THEN Refetch(heap, Top.tmp, Top.ci) ELSE Top.el
             f  == [Top EXCEPT !.el = el]
             child == LoopChild(f, el, f.pc, f.ci)
             dotdot == [child EXCEPT !.fn = "dotdot"]
             callee == Start(dotdot, "dot")
             waiting == [f EXCEPT !.mode = "dot_return"]
             going == NextEntry(f, "dot")
  <2>1. Crash \/ Enter(waiting, callee) \/ Go(going)
    BY <1>11 DEF Descend
  <2>2. el \in ValueSet
    BY <1>2, RunTypes, FrameFields, RefetchType
  <2> HIDE DEF el
  <2>3. f \in Frame
    BY <1>2, <2>2, Zenon DEF Frame
  <2>4. f.own = Top.own /\ f.pc = Top.pc
    BY <1>2 DEF Frame
  <2> HIDE DEF f
  <2>5. child \in Frame
    BY <2>2, <2>3, FrameFields, NewFrameType DEF LoopChild
  <2>6. child.own = f.own /\ child.pc = f.pc
    BY DEF LoopChild, NewFrame
  <2> HIDE DEF child
  <2>7. dotdot \in Frame
    BY <2>5, Zenon DEF Frame
  <2>8. dotdot.own = Top.own /\ dotdot.pc = Top.pc
    BY <2>4, <2>5, <2>6 DEF Frame
  <2> HIDE DEF dotdot
  <2>9. callee \in Frame /\ callee.own = Top.own /\ callee.pc = Top.pc /\ callee.mode = "dot"
    BY <1>2, <2>7, <2>8, ModeNames, StartType, StartFields
  <2>10. waiting \in Frame
    BY <2>3, Zenon DEF Frame, WaitingModes
  <2>11. waiting.own = Top.own /\ waiting.mode = "dot_return" /\ waiting.pc = Top.pc
    BY <2>3, <2>4 DEF Frame
  <2>12. going.own = Top.own /\ going.mode = "dot" /\ going.pc = Top.pc
    BY <2>3, <2>4, NextEntryFields
  <2> HIDE DEF callee, waiting, going
  <2>13. CASE Enter(waiting, callee)
    <3>1. Placed(prog, L, Aim(L), waiting) /\ Placed(prog, L, Aim(L), callee)
      BY <1>5, <1>6, <2>9, <2>11
    <3>2. Callee(L, waiting, callee)
      BY <2>9, <2>11, <3>1 DEF Callee, SubpathModes
    <3> QED
      BY <1>1, <2>9, <2>10, <2>11, <2>13, <3>1, <3>2, ModeNames, EnterWalks
  <2> QED
    BY <1>7, <2>1, <2>12, <2>13 DEF Crash
<1> QED
  BY <1>8, <1>9, <1>10, <1>11

--------------------------------------------------------------------------------
(***************************************************************************)
(* Filters.                                                                *)
(***************************************************************************)

\* A clause starts where the program has one.
LEMMA StartClauseWalks ==
  ASSUME NEW L, Walking(L), call' = call, NEW el \in ValueSet, NEW op \in Nat,
         op \in L.clauses, L.exit[op] = Aim(L),
         op = Top.pc \/ Is(prog, op - 1, {"FILTER_AND"}),
         OnPath(L, Aim(L), Top.pc), Is(prog, Top.pc, FilterOps), Go(StartClause(Top, el, op))
  PROVE  WalkOK(L)'
<1> DEFINE cnt == IF op # Top.pc /\ Code(op + 1).num > 127 THEN 0 ELSE Code(op + 1).cnt
           ci  == IF Op(Top) = "remove" THEN IdxInfo(Top.i) ELSE Top.ci
           opn == Code(op).inst
           f   == [Top EXCEPT !.mode = "crawl", !.opn = opn, !.ow = op + 2, !.cnt = cnt,
                            !.el = el, !.el2 = el, !.ci = ci]
<1>1. Top \in Frame /\ call \in Calls /\ Laid(prog, L)
  BY WalkingTop
<1>2. Code(op + 1).num \in Nat /\ Code(op + 1).cnt \in Nat
  BY <1>1, CodeType
<1>3. cnt = Code(op + 1).cnt
  <2>1. CASE op = Top.pc
    BY <2>1
  <2>2. CASE op # Top.pc
    <3>1. Is(prog, op - 1, {"FILTER_AND"})
      BY <2>2
    <3>2. op - 1 \in 1..Len(prog)
      BY <1>1, <3>1, CellsInside
    <3>3. op - 1 \in DOMAIN prog /\ op - 1 + 2 = op + 1
      BY <1>1, <3>2, LayoutTypes
    <3>4. Code(op + 1).num <= 127
      BY <3>1, <3>3, WalkingTop DEF Tame, Code
    <3> QED
      BY <1>2, <3>4
  <2> QED
    BY <2>1, <2>2
<1>4. Go(f)
  BY DEF StartClause
<1> HIDE DEF cnt, ci, opn
<1>5. /\ f.own = Top.own /\ f.mode = "crawl" /\ f.pc = Top.pc /\ f.opn = opn
      /\ f.ow = op + 2 /\ f.cnt = cnt
  BY <1>1 DEF Frame
<1> HIDE DEF f
<1>6. InClause(prog, L, Aim(L), op, f)
  BY <1>2, <1>3, <1>5 DEF InClause, OperandAt, Code, opn
<1>7. Placed(prog, L, Aim(L), f)
  BY <1>5, <1>6 DEF Placed, AllModes, DotModes, ClauseModes, FilterModes, SubpathModes
<1> QED
  BY <1>4, <1>5, <1>7, ModeNames, GoWalks

\* The comparison is made; if it holds the walker is after the clause.
LEMMA JudgeWalks ==
  ASSUME NEW L, Walking(L), call' = call, NEW ow \in Nat, NEW match, Judge(ow, match),
         OnPath(L, Aim(L), Top.pc), Is(prog, Top.pc, FilterOps),
         NEW q \in L.clauses, L.exit[q] = Aim(L), match => ow = AfterClause(prog, L, q)
  PROVE  status' = "run" => WalkOK(L)'
<1> DEFINE f == [Top EXCEPT !.ow = ow, !.mode = "filter_back", !.rl = FALSE]
           g == LoopChild(f, f.el, ow, IdxInfo(f.i))
           going == NextEntry(Top, "filter")
<1>1. Top \in Frame /\ Top.el \in ValueSet /\ call \in Calls /\ Laid(prog, L) /\ ow + 1 \in Nat
  BY WalkingTop, FrameFields
<1>2. \/ Go(going)
      \/ match /\ Is(prog, ow, {"FILTER_AND"}) /\ Go(StartClause(Top, Top.el, ow + 1))
      \/ match /\ ~Is(prog, ow, {"FILTER_AND"}) /\ Enter(f, g)
  BY DEF Judge, Is, Code
<1>3. CASE Go(going)
  <2>1. going.own = Top.own /\ going.mode = "filter" /\ going.pc = Top.pc
    BY <1>1, NextEntryFields
  <2> HIDE DEF going
  <2>2. Placed(prog, L, Aim(L), going)
    BY <2>1, PlacedAt
  <2> QED
    BY <1>3, <2>1, <2>2, ModeNames, GoWalks
<1>4. ClauseLaid(prog, L, q)
  BY <1>1 DEF Laid
<1>5. CASE match /\ Is(prog, ow, {"FILTER_AND"}) /\ Go(StartClause(Top, Top.el, ow + 1))
  <2>1. ow + 1 \in L.clauses /\ L.exit[ow + 1] = Aim(L)
    BY <1>4, <1>5 DEF ClauseLaid
  <2>2. ow + 1 - 1 = ow
    OBVIOUS
  <2> QED
    BY <1>1, <1>5, <2>1, <2>2, StartClauseWalks
<1>6. CASE match /\ ~Is(prog, ow, {"FILTER_AND"}) /\ Enter(f, g)
  <2>1. OnPath(L, Aim(L), ow)
    BY <1>4, <1>6 DEF ClauseLaid, SamePath, OnPath
  <2>2. f \in Frame
    BY <1>1, Zenon DEF Frame, WaitingModes
  <2>3. f.own = Top.own /\ f.mode = "filter_back" /\ f.pc = Top.pc /\ f.ow = ow
    BY <1>1 DEF Frame
  <2> HIDE DEF f
  <2>4. g \in Frame
    <3>1. f.tmp \in ValueSet /\ f.el \in ValueSet /\ f.own \in Nat /\ f.i \in Int
      BY <2>2, FrameFields
    <3>2. IdxInfo(f.i) \in ChildInfo
      BY <3>1, InfoType
    <3> QED
      BY <3>1, <3>2, NewFrameType DEF LoopChild
  <2>5. g.own = f.own /\ g.mode = "inst" /\ g.pc = ow
    BY DEF LoopChild, NewFrame
  <2> HIDE DEF g
  <2>6. Placed(prog, L, Aim(L), f)
    BY <2>1, <2>3 DEF Placed, AllModes, DotModes, ClauseModes, FilterModes, SubpathModes
  <2>7. Placed(prog, L, Aim(L), g)
    BY <2>1, <2>5, PlacedAt
  <2>8. Callee(L, f, g)
    BY <2>3, <2>5, <2>7 DEF Callee, SubpathModes
  <2> QED
    BY <1>6, <2>2, <2>3, <2>4, <2>5, <2>6, <2>8, ModeNames, EnterWalks
<1> QED
  BY <1>2, <1>3, <1>5, <1>6

\* In a program that is laid out, what stands behind "=~" is the index of its
\* regex: no opcode is read for one.
LEMMA RegexOperand ==
  ASSUME NEW L, Laid(prog, L), NEW q \in L.clauses, NEW op, op = CellAt(prog, q).inst
  PROVE  LET o == OperandAt(prog, q)
         IN  ConstantAt(op, o) = CellAt(prog, o) /\ ~RegexIsOpcode(op, o)
<1>1. op = "FILTER_KEY_REG_EQ" => Is(prog, OperandAt(prog, q), {"GET_ARRAY_SMALL"})
  BY DEF Laid, ClauseLaid, Is
<1>2. ~RegexIsOpcode(op, OperandAt(prog, q))
  BY <1>1 DEF RegexIsOpcode, Is, Code, Getters
<1> QED
  BY <1>2 DEF ConstantAt, Code

\* FILTER_KEY_*.
LEMMA FilteringWalks ==
  ASSUME NEW L, Walking(L), Filtering
  PROVE  status' = "run" => WalkOK(L)'
<1>1. call' = call
  BY DEF Filtering, Filter, FilterElement, Crawl, Match, AfterOperand, FilterBack, PreLoop
<1>2. /\ Top \in Frame /\ Top.pc \in Nat /\ Top.ow \in Nat /\ Top.sent \in Nat
      /\ Top.cnt \in Int /\ Top.el \in ValueSet /\ Top.own \in Nat
      /\ Top.ow + 1 \in Nat /\ Top.sent + 1 \in Nat
      /\ call \in Calls /\ Laid(prog, L) /\ Placed(prog, L, Aim(L), Top) /\ IInv
  BY WalkingTop, FrameFields
<1>3. OnPath(L, Aim(L), Top.pc) /\ Is(prog, Top.pc, FilterOps)
  <2>1. CASE Filter
    BY <2>1, AtInst DEF Filter
  <2>2. CASE ~Filter
    <3>1. Top.mode \in FilterModes
      BY <2>2 DEF Filtering, FilterElement, Crawl, Match, AfterOperand, FilterBack, In,
                  FilterModes, ClauseModes
    <3> QED
      BY <1>2, <3>1 DEF Placed, FilterModes, ClauseModes
  <2> QED
    BY <2>1, <2>2
<1>4. Top.pc <= Aim(L) /\ Top.pc \in L.clauses /\ L.exit[Top.pc] = Aim(L)
  BY <1>2, <1>3, PathEnds, GoesOn DEF OnPath
<1>5. ASSUME NEW g, g.own = Top.own, g.mode = "filter", g.pc = Top.pc, Go(g)
      PROVE  WalkOK(L)'
  <2>1. Placed(prog, L, Aim(L), g)
    BY <1>3, <1>5, PlacedAt
  <2> QED
    BY <1>1, <1>5, <2>1, ModeNames, GoWalks
<1>6. ASSUME Top.mode \in ClauseModes
      PROVE  \E q \in L.clauses : InClause(prog, L, Aim(L), q, Top)
  BY <1>2, <1>6 DEF Placed
<1>7. ASSUME NEW g, g.own = Top.own, g.mode \in {"crawl", "match"}, g.pc = Top.pc,
             NEW q \in L.clauses, InClause(prog, L, Aim(L), q, g), Go(g)
      PROVE  WalkOK(L)'
  <2>1. Placed(prog, L, Aim(L), g)
    BY <1>3, <1>7 DEF Placed, AllModes, DotModes, ClauseModes, FilterModes, SubpathModes
  <2> QED
    BY <1>1, <1>7, <2>1, ModeNames, GoWalks
<1>8. CASE Filter
  <2>1. "obj" \in Kinds
    BY DEF Kinds
  <2> QED
    BY <1>3, <1>8, <2>1, PreLoopWalks DEF Filter
<1>9. CASE FilterElement
  <2> DEFINE going == NextEntry(Top, "filter")
  <2>1. \/ Out(Top)
        \/ Crash
        \/ /\ IsObj(heap, Element(Top))
           /\ Go(StartClause(Top, Element(Top), Top.pc))
        \/ Go(going)
    BY <1>9 DEF FilterElement
  <2>2. IsObj(heap, Element(Top)) => Element(Top) \in ValueSet
    BY DEF IsObj, IsKind, ValueSet
  <2>3. going.own = Top.own /\ going.mode = "filter" /\ going.pc = Top.pc
    BY <1>2, NextEntryFields
  <2> HIDE DEF going
  <2>4. CASE Out(Top)
    BY <1>1, <1>2, <1>4, <2>4, OutWalks
  <2>5. CASE IsObj(heap, Element(Top)) /\ Go(StartClause(Top, Element(Top), Top.pc))
    BY <1>1, <1>2, <1>3, <1>4, <2>2, <2>5, StartClauseWalks
  <2> QED
    BY <1>5, <2>1, <2>3, <2>4, <2>5 DEF Crash
<1>10. CASE Crawl
  <2> DEFINE v == Get(heap, Top.el2, Code(Top.ow).key)
             f == [Top EXCEPT !.el2 = v, !.ow = Top.ow + 1, !.cnt = Top.cnt - 1]
             g == [Top EXCEPT !.mode = "match"]
  <2>1. (Top.cnt = 0 /\ Go(g)) \/ (Top.cnt # 0 /\ Go(f))
    BY <1>10 DEF Crawl
  <2>2. Top.mode = "crawl"
    BY <1>10 DEF Crawl, In
  <2>3. PICK q \in L.clauses : InClause(prog, L, Aim(L), q, Top)
    BY <1>6, <2>2 DEF ClauseModes
  <2>4. /\ f.own = Top.own /\ f.mode = "crawl" /\ f.pc = Top.pc /\ f.opn = Top.opn
        /\ f.ow = Top.ow + 1 /\ f.cnt = Top.cnt - 1
        /\ g.own = Top.own /\ g.mode = "match" /\ g.pc = Top.pc /\ g.opn = Top.opn
        /\ g.ow = Top.ow /\ g.cnt = Top.cnt
    BY <1>2, <2>2 DEF Frame
  <2> HIDE DEF f, g
  <2>5. Top.cnt = 0 => InClause(prog, L, Aim(L), q, g)
    BY <2>3, <2>4 DEF InClause
  <2>6. Top.cnt # 0 => InClause(prog, L, Aim(L), q, f)
    <3>1. Top.cnt >= 0 /\ Top.ow + Top.cnt = OperandAt(prog, q)
      BY <2>3 DEF InClause
    <3>2. ASSUME Top.cnt # 0
          PROVE  f.cnt >= 0 /\ f.ow + f.cnt = OperandAt(prog, q)
      BY <1>2, <2>4, <3>1, <3>2
    <3> QED
      BY <2>3, <2>4, <3>2 DEF InClause
  <2> QED
    BY <1>7, <2>1, <2>4, <2>5, <2>6
<1>11. CASE Match
  <2>1. Top.mode = "match"
    BY <1>11 DEF Match, In
  <2>2. PICK q \in L.clauses : InClause(prog, L, Aim(L), q, Top)
    BY <1>6, <2>1 DEF ClauseModes
  <2>3. /\ L.exit[q] = Aim(L) /\ Top.opn = CellAt(prog, q).inst
        /\ Top.cnt = 0 /\ Top.ow = OperandAt(prog, q)
    BY <1>2, <2>1, <2>2 DEF InClause
  <2>4. Is(prog, q, {"FILTER_KEY_EXIST"}) <=> Top.opn = "FILTER_KEY_EXIST"
    BY <2>3 DEF Is
  <2>5. \/ Top.opn = "FILTER_KEY_EXIST" /\ \E match : Judge(Top.ow, match)
        \/ /\ Top.opn # "FILTER_KEY_EXIST" /\ Is(prog, Top.ow, {"GET_SUBPATH"})
           /\ Enter([Top EXCEPT !.mode = "operand", !.sent = Top.ow],
                    NewFrame(Top.ow + 1, call.root, NULL, NoInfo, Depth))
        \/ /\ Top.opn # "FILTER_KEY_EXIST" /\ ~Is(prog, Top.ow, {"GET_SUBPATH"})
           /\ \E match : Judge(Top.ow + 1, match)
    <3>1. ConstantAt(Top.opn, Top.ow) = CellAt(prog, Top.ow) /\ ~RegexIsOpcode(Top.opn, Top.ow)
      BY <1>2, <2>2, <2>3, RegexOperand
    <3> QED
      BY <1>11, <3>1 DEF Match, Is, Code
  <2>6. CASE Top.opn = "FILTER_KEY_EXIST" /\ \E match : Judge(Top.ow, match)
    <3>1. Top.ow = AfterClause(prog, L, q)
      BY <2>3, <2>4, <2>6 DEF AfterClause
    <3> QED
      BY <1>1, <1>2, <1>3, <2>3, <2>6, <3>1, JudgeWalks
  <2>7. CASE /\ Top.opn # "FILTER_KEY_EXIST" /\ ~Is(prog, Top.ow, {"GET_SUBPATH"})
             /\ \E match : Judge(Top.ow + 1, match)
    <3>1. Top.ow + 1 = AfterClause(prog, L, q)
      BY <2>3, <2>4, <2>7 DEF AfterClause
    <3> QED
      BY <1>1, <1>2, <1>3, <2>3, <2>7, <3>1, JudgeWalks
  <2>8. CASE /\ Top.opn # "FILTER_KEY_EXIST" /\ Is(prog, Top.ow, {"GET_SUBPATH"})
             /\ Enter([Top EXCEPT !.mode = "operand", !.sent = Top.ow],
                      NewFrame(Top.ow + 1, call.root, NULL, NoInfo, Depth))
    <3>1. ClauseLaid(prog, L, q)
      BY <1>2 DEF Laid
    <3>2. SubpathAt(L, Top.ow + 1)
      BY <2>3, <2>4, <2>8, <3>1 DEF ClauseLaid
    <3>3. ASSUME NEW f, f.mode = "operand", f.pc = Top.pc, f.ow = Top.ow, f.opn = Top.opn,
                 f.cnt = Top.cnt, f.sent <= L.exit[Top.ow + 1]
          PROVE  Placed(prog, L, Aim(L), f)
      <4>1. InClause(prog, L, Aim(L), q, f)
        BY <2>2, <2>3, <2>8, <3>3 DEF InClause
      <4> QED
        BY <1>3, <3>3, <4>1 DEF Placed, AllModes, DotModes, ClauseModes, FilterModes, OperandOf
    <3> QED
      BY <1>1, <1>2, <2>8, <3>2, <3>3, SubpathWalks DEF SubpathModes
  <2> QED
    BY <2>5, <2>6, <2>7, <2>8
<1>12. CASE AfterOperand
  <2>1. Top.mode = "operand" /\ Judge(Top.sent + 1, MatchValue(Top.opn, Top.el2, ret.val))
    BY <1>12 DEF AfterOperand, In
  <2>2. PICK q \in L.clauses : InClause(prog, L, Aim(L), q, Top)
    BY <1>6, <2>1 DEF ClauseModes
  <2>3. /\ L.exit[q] = Aim(L) /\ Top.ow = OperandAt(prog, q)
        /\ ~Is(prog, q, {"FILTER_KEY_EXIST"}) /\ Is(prog, Top.ow, {"GET_SUBPATH"})
    BY <1>2, <2>1, <2>2 DEF InClause, Is
  <2>4. ASSUME MatchValue(Top.opn, Top.el2, ret.val)
        PROVE  Top.sent + 1 = AfterClause(prog, L, q)
    <3>1. ret.val # NULL
      BY <2>4, DocAssumption DEF MatchValue, IsNum, IsBool, IsStr, IsKind
    <3>2. Top.sent = L.exit[Top.ow + 1]
      BY <2>1, <3>1, WalkingTop DEF Arrived, OperandOf, SubpathModes
    <3> QED
      BY <2>3, <3>2 DEF AfterClause
  <2> QED
    BY <1>1, <1>2, <1>3, <2>1, <2>3, <2>4, JudgeWalks
<1>13. CASE FilterBack
  <2>1. Top.mode = "filter_back" /\ AfterVisit("FILTER", "filter", "filter")
    BY <1>13 DEF FilterBack, In
  <2>2. OnPath(L, Aim(L), Top.ow)
    BY <1>2, <2>1 DEF Placed
  <2>3. Top.ow <= Aim(L)
    BY <1>2, <2>2, PathEnds
  <2>4. ASSUME NEW g, g.mode \in {"filter", "filter"}, g.pc = Top.pc
        PROVE  Placed(prog, L, Aim(L), g)
    BY <1>3, <2>4, PlacedAt
  <2>5. Top.mode \in WaitingModes \ SubpathModes
    BY <2>1, ModeNames
  <2> QED
    BY <1>1, <1>4, <2>1, <2>3, <2>4, <2>5, ModeNames, AfterVisitWalks
<1> QED
  BY <1>8, <1>9, <1>10, <1>11, <1>12, <1>13 DEF Filtering

--------------------------------------------------------------------------------
(***************************************************************************)
(* Unions.                                                                 *)
(***************************************************************************)

\* How many unions are open, from one cell to the next.
LEMMA NestStep ==
  ASSUME call \in Calls, NEW L, Laid(prog, L), NEW q \in 1..Len(prog)
  PROVE  /\ L.nest[q] \in Nat /\ L.nest[q + 1] \in Nat
         /\ Is(prog, q, {"GET_UNION"}) => L.nest[q + 1] = L.nest[q] + 1
         /\ Is(prog, q, {"UNION_END"}) => L.nest[q + 1] = L.nest[q] - 1
         /\ ~Is(prog, q, UnionEdges) => L.nest[q + 1] = L.nest[q]
<1>1. Len(prog) \in Nat /\ q \in 1..(Len(prog) + 1) /\ q + 1 \in 1..(Len(prog) + 1)
  BY LayoutTypes
<1>2. L.nest[q] \in Nat /\ L.nest[q + 1] \in Nat
  BY <1>1, LayoutTypes
<1>3. CellLaid(prog, L, q)
  BY LayoutTypes DEF Laid
<1>4. CASE Is(prog, q, {"GET_UNION"})
  BY <1>2, <1>3, <1>4 DEF CellLaid, Is, UnionEdges
<1>5. CASE Is(prog, q, {"UNION_END"})
  BY <1>2, <1>3, <1>5 DEF CellLaid, Is, UnionEdges
<1>6. CASE ~Is(prog, q, UnionEdges)
  BY <1>2, <1>3, <1>6 DEF CellLaid, Is, UnionEdges
<1> QED
  BY <1>2, <1>4, <1>5, <1>6 DEF Is, UnionEdges

\* Where the union of u, a GET_UNION or a UNION_JMP, ends.
LEMMA UnionClose ==
  ASSUME call \in Calls, NEW L, Laid(prog, L), NEW e, NEW u, OnPath(L, e, u),
         Is(prog, u, {"GET_UNION", "UNION_JMP"})
  PROVE  /\ u \in 1..Len(prog) /\ L.close[u] \in 1..Len(prog) /\ u < L.close[u]
         /\ L.nest[L.close[u]] = L.nest[u + 1] /\ L.nest[L.close[u]] \in Nat
<1>1. UnionTo(prog, L, u, L.close[u])
  BY DEF Laid, OnPath, InstLaid
<1>2. u \in 1..Len(prog) /\ L.close[u] \in 1..Len(prog)
  BY LayoutTypes DEF OnPath
<1>3. L.nest[L.close[u]] \in Nat
  BY <1>2, NestStep
<1>4. u < L.close[u] /\ L.nest[L.close[u]] = L.nest[u + 1]
  BY <1>1 DEF UnionTo
<1> QED
  BY <1>2, <1>3, <1>4

\* From u to the end of its union.
LEMMA UnionEnds ==
  ASSUME call \in Calls, NEW L, Laid(prog, L), NEW e, NEW u, OnPath(L, e, u),
         Is(prog, u, {"GET_UNION", "UNION_JMP"})
  PROVE  LET t == L.close[u] IN
         /\ u \in 1..Len(prog) /\ t \in 1..Len(prog) /\ u < t /\ t <= e
         /\ Is(prog, t, {"UNION_END"}) /\ OnPath(L, e, t + 1)
         /\ L.nest[t] = L.nest[u + 1] /\ L.nest[t] \in Nat /\ L.nest[t] >= 1
         /\ OnPath(L, e, u + 1) /\ ~Is(prog, u + 1, UnionEdges)
         /\ \A r \in (u + 1)..(t - 1) :
              /\ Is(prog, r, {"UNION_END"}) => L.nest[r] > L.nest[t]
              /\ Is(prog, r, {"UNION_JMP"}) /\ L.nest[r] = L.nest[t] =>
                   L.close[r] = t /\ OnPath(L, e, r)
<1> DEFINE t == L.close[u]
<1>1. UnionTo(prog, L, u, t) /\ ~Is(prog, u + 1, UnionEdges)
  BY DEF Laid, OnPath, InstLaid
<1>2. u \in 1..Len(prog) /\ t \in 1..Len(prog) /\ Len(prog) \in Nat
  BY LayoutTypes DEF OnPath
<1>3. /\ u < t /\ Is(prog, t, {"UNION_END"}) /\ OnPath(L, e, t + 1)
      /\ L.nest[t] = L.nest[u + 1]
      /\ \A r \in (u + 1)..(t - 1) :
           /\ Is(prog, r, {"UNION_END"}) => L.nest[r] > L.nest[t]
           /\ Is(prog, r, {"UNION_JMP"}) /\ L.nest[r] = L.nest[t] =>
                L.close[r] = t /\ OnPath(L, e, r)
  BY <1>1 DEF UnionTo, SamePath, OnPath
<1>4. t + 1 <= e /\ e \in 1..Len(prog)
  BY <1>3, PathEnds
<1>5. L.nest[t] \in Nat /\ L.nest[t + 1] \in Nat /\ L.nest[t + 1] = L.nest[t] - 1
  BY <1>2, <1>3, NestStep
<1>6. L.nest[t] >= 1
  BY <1>5
<1>7. OnPath(L, e, u + 1)
  <2>1. ~Is(prog, u, FilterOps \cup {"END", "RANGE", "GET_SUBPATH"})
    BY DEF Is, FilterOps
  <2> QED
    BY <2>1, GoesOn
<1>8. t <= e
  BY <1>2, <1>4
<1> QED
  BY <1>1, <1>2, <1>3, <1>5, <1>6, <1>7, <1>8

\* A member is called: the union waits at the first instruction of it.
LEMMA MemberWalks ==
  ASSUME NEW L, Walking(L), call' = call, NEW u, OnPath(L, Aim(L), u),
         Is(prog, u, {"GET_UNION", "UNION_JMP"}), Member(u + 1)
  PROVE  status' = "run" => WalkOK(L)'
<1> DEFINE ci == IF Op(Top) = "remove" THEN Top.ci ELSE InfoSet(heap, Top.tmp, NoKey, 0)
           f  == [Top EXCEPT !.mode = "union", !.pc = u + 1, !.cnt = 0, !.rl = FALSE]
           g  == NewFrame(u + 1, Top.tmp, NULL, ci, Top.own)
           t  == L.close[u]
<1>1. Top \in Frame /\ call \in Calls /\ Laid(prog, L) /\ Len(prog) \in Nat
      /\ Top.tmp \in ValueSet /\ Top.own \in Nat /\ NULL \in ValueSet
  BY WalkingTop, FrameFields, LayoutTypes DEF ValueSet
<1>2. Enter(f, g)
  BY DEF Member
<1>3. ci \in ChildInfo
  <2>1. 0 \in Int /\ NoKey \in Text
    BY DEF Text
  <2>2. InfoSet(heap, Top.tmp, NoKey, 0) \in ChildInfo
    BY <2>1, InfoType
  <2> QED
    BY <1>1, <2>2, FrameFields
<1> HIDE DEF ci
<1>4. /\ u \in 1..Len(prog) /\ t \in 1..Len(prog) /\ u < t /\ Is(prog, t, {"UNION_END"})
      /\ L.nest[t] = L.nest[u + 1] /\ OnPath(L, Aim(L), u + 1) /\ ~Is(prog, u + 1, UnionEdges)
  BY <1>1, UnionEnds
<1>5. u + 1 \in Nat /\ u + 1 \in 1..Len(prog) /\ u + 1 < t
  <2>1. u + 1 # t
    BY <1>4 DEF Is, UnionEdges
  <2> QED
    BY <1>1, <1>4, <2>1
<1>6. g \in Frame
  BY <1>1, <1>3, <1>5, NewFrameType
<1>7. g.own = Top.own /\ g.mode = "inst" /\ g.pc = u + 1
  BY DEF NewFrame
<1>8. 0 \in Int
  OBVIOUS
<1>9. f \in Frame
  BY <1>1, <1>5, <1>8, Zenon DEF Frame, WaitingModes
<1>10. f.own = Top.own /\ f.mode = "union" /\ f.pc = u + 1 /\ f.cnt = 0
  BY <1>1 DEF Frame
<1> HIDE DEF f, g
<1>11. L.nest[u + 1 + 1] = L.nest[u + 1] /\ L.nest[u + 1] \in Nat
  BY <1>1, <1>4, <1>5, NestStep
<1>12. InUnionOf(prog, L, Aim(L), u, f)
  BY <1>4, <1>5, <1>10, <1>11 DEF InUnionOf
<1>13. Placed(prog, L, Aim(L), f)
  BY <1>10, <1>12 DEF Placed, OnPath, AllModes, DotModes, ClauseModes, FilterModes, SubpathModes
<1>14. Placed(prog, L, Aim(L), g)
  BY <1>4, <1>7, PlacedAt
<1>15. Callee(L, f, g)
  BY <1>7, <1>10, <1>14 DEF Callee, SubpathModes
<1> QED
  BY <1>2, <1>6, <1>7, <1>9, <1>10, <1>13, <1>15, ModeNames, EnterWalks

\* The inner loop of GET_UNION.
LEMMA NextMemberWalks ==
  ASSUME NEW L, Walking(L), NextMember
  PROVE  status' = "run" => WalkOK(L)'
<1> DEFINE q == NextInst(prog, Top.pc)
           f == [Top EXCEPT !.pc = q]
           fp == [f EXCEPT !.cnt = Top.cnt + 1]
           fm == [f EXCEPT !.cnt = Top.cnt - 1]
<1>1. call' = call /\ Top.mode = "member"
  BY DEF NextMember, In
<1>2. Top \in Frame /\ Top.pc \in Nat /\ Top.cnt \in Int /\ Top.own \in Nat
      /\ call \in Calls /\ Laid(prog, L)
      /\ Placed(prog, L, Aim(L), Top) /\ Len(prog) \in Nat
  BY WalkingTop, FrameFields, LayoutTypes
<1>3. PICK u \in L.starts : InUnionOf(prog, L, Aim(L), u, Top)
  BY <1>1, <1>2 DEF Placed
<1> DEFINE t == L.close[u]
<1>4. /\ OnPath(L, Aim(L), u) /\ Is(prog, u, {"GET_UNION", "UNION_JMP"})
      /\ u < Top.pc /\ Top.pc < t /\ Top.cnt = L.nest[Top.pc + 1] - L.nest[t]
  BY <1>3 DEF InUnionOf
<1>5. /\ u \in 1..Len(prog) /\ t \in 1..Len(prog) /\ t <= Aim(L)
      /\ Is(prog, t, {"UNION_END"}) /\ L.nest[t] \in Nat
      /\ \A r \in (u + 1)..(t - 1) :
           /\ Is(prog, r, {"UNION_END"}) => L.nest[r] > L.nest[t]
           /\ Is(prog, r, {"UNION_JMP"}) /\ L.nest[r] = L.nest[t] =>
                L.close[r] = t /\ OnPath(L, Aim(L), r)
  BY <1>2, <1>4, UnionEnds
<1>6. \/ Crash
      \/ Is(prog, q, {"GET_UNION"}) /\ Go(fp)
      \/ Is(prog, q, {"UNION_JMP"}) /\ Top.cnt = 0 /\ Member(q + 1)
      \/ Is(prog, q, {"UNION_END"}) /\ Top.cnt = 0 /\ Out(f)
      \/ Is(prog, q, {"UNION_END"}) /\ Top.cnt # 0 /\ Go(fm)
      \/ ~Is(prog, q, UnionEdges) /\ Go(f)
  BY DEF NextMember, Is, Code, UnionEdges
<1>7. q \in (Top.pc + 1)..t /\ L.nest[q] = L.nest[Top.pc + 1]
  <2>1. Top.pc \in 1..Len(prog) /\ Is(prog, t, {"END", "UNION_END"})
    BY <1>2, <1>4, <1>5 DEF Is
  <2> QED
    BY <1>2, <1>4, <1>5, <2>1, WalkTo
<1> HIDE DEF q
<1>8. q \in Nat /\ q \in 1..Len(prog) /\ u < q /\ q <= t /\ (q # t => q \in (u + 1)..(t - 1))
  BY <1>2, <1>4, <1>5, <1>7
<1>9. /\ L.nest[q] \in Nat /\ L.nest[q + 1] \in Nat /\ Top.cnt = L.nest[q] - L.nest[t]
      /\ Is(prog, q, {"GET_UNION"}) => L.nest[q + 1] = L.nest[q] + 1
      /\ Is(prog, q, {"UNION_END"}) => L.nest[q + 1] = L.nest[q] - 1
      /\ ~Is(prog, q, UnionEdges) => L.nest[q + 1] = L.nest[q]
  BY <1>2, <1>4, <1>7, <1>8, NestStep
<1>10. /\ f.own = Top.own /\ f.mode = "member" /\ f.pc = q /\ f.cnt = Top.cnt
       /\ fp.own = Top.own /\ fp.mode = "member" /\ fp.pc = q /\ fp.cnt = Top.cnt + 1
       /\ fm.own = Top.own /\ fm.mode = "member" /\ fm.pc = q /\ fm.cnt = Top.cnt - 1
  BY <1>1, <1>2 DEF Frame
<1> HIDE DEF f, fp, fm
<1>11. ASSUME NEW g, g.own = Top.own, g.mode = "member", g.pc = q, q # t,
              g.cnt = L.nest[q + 1] - L.nest[t], Go(g)
       PROVE  WalkOK(L)'
  <2>1. InUnionOf(prog, L, Aim(L), u, g)
    BY <1>4, <1>5, <1>8, <1>11 DEF InUnionOf
  <2>2. Placed(prog, L, Aim(L), g)
    BY <1>11, <2>1 DEF Placed, AllModes, DotModes, ClauseModes, FilterModes, SubpathModes
  <2> QED
    BY <1>1, <1>11, <2>2, ModeNames, GoWalks
<1>12. CASE Is(prog, q, {"GET_UNION"}) /\ Go(fp)
  <2>1. q # t
    BY <1>5, <1>12 DEF Is
  <2>2. fp.cnt = L.nest[q + 1] - L.nest[t]
    BY <1>5, <1>9, <1>10, <1>12
  <2> QED
    BY <1>10, <1>11, <1>12, <2>1, <2>2
<1>13. CASE Is(prog, q, {"UNION_JMP"}) /\ Top.cnt = 0 /\ Member(q + 1)
  <2>1. q # t
    BY <1>5, <1>13 DEF Is
  <2>2. L.nest[q] = L.nest[t]
    BY <1>5, <1>9, <1>13
  <2>3. OnPath(L, Aim(L), q)
    BY <1>5, <1>8, <1>13, <2>1, <2>2
  <2>4. Is(prog, q, {"GET_UNION", "UNION_JMP"})
    BY <1>13 DEF Is
  <2> QED
    BY <1>1, <1>13, <2>3, <2>4, MemberWalks
<1>14. CASE Is(prog, q, {"UNION_END"}) /\ Top.cnt = 0 /\ Out(f)
  BY <1>1, <1>5, <1>8, <1>10, <1>14, AimEnds, OutWalks
<1>15. CASE Is(prog, q, {"UNION_END"}) /\ Top.cnt # 0 /\ Go(fm)
  <2>1. q # t
    BY <1>5, <1>9, <1>15
  <2>2. fm.cnt = L.nest[q + 1] - L.nest[t]
    BY <1>5, <1>9, <1>10, <1>15
  <2> QED
    BY <1>10, <1>11, <1>15, <2>1, <2>2
<1>16. CASE ~Is(prog, q, UnionEdges) /\ Go(f)
  <2>1. q # t
    BY <1>5, <1>16 DEF Is, UnionEdges
  <2>2. f.cnt = L.nest[q + 1] - L.nest[t]
    BY <1>5, <1>9, <1>10, <1>16
  <2> QED
    BY <1>10, <1>11, <1>16, <2>1, <2>2
<1> QED
  BY <1>6, <1>12, <1>13, <1>14, <1>15, <1>16 DEF Crash

\* csonpath_skipp_union_jmp.
LEMMA SkipUnionWalks ==
  ASSUME NEW L, Walking(L), SkipUnion
  PROVE  status' = "run" => WalkOK(L)'
<1> DEFINE q  == NextInst(prog, Top.pc)
           f  == [Top EXCEPT !.pc = q]
           f1 == [Top EXCEPT !.mode = "inst", !.pc = Top.pc + 1]
           fp == [Top EXCEPT !.pc = q, !.cnt = Top.cnt + 1]
           fm == [Top EXCEPT !.pc = q + 1, !.cnt = Top.cnt - 1]
<1>1. call' = call /\ Top.mode = "skip"
  BY DEF SkipUnion, In
<1>2. Top \in Frame /\ Top.pc \in Nat /\ Top.cnt \in Int /\ Top.own \in Nat
      /\ call \in Calls /\ Laid(prog, L) /\ Tame(prog, L)
      /\ Placed(prog, L, Aim(L), Top) /\ Len(prog) \in Nat /\ DOMAIN prog = 1..Len(prog)
  BY WalkingTop, FrameFields, LayoutTypes
<1>3. PICK u \in L.starts : Skipping(prog, L, Aim(L), u, Top)
  BY <1>1, <1>2 DEF Placed
<1> DEFINE t == L.close[u]
<1>4. /\ OnPath(L, Aim(L), u) /\ Is(prog, u, {"UNION_JMP"})
      /\ u <= Top.pc /\ Top.pc <= t
      /\ Top.pc = t => Top.cnt = 0
      /\ Top.pc # t => /\ ~Is(prog, Top.pc, {"UNION_END"})
                       /\ Top.cnt = L.nest[Top.pc + 1] - L.nest[t]
  BY <1>3 DEF Skipping
<1>5. /\ u \in 1..Len(prog) /\ t \in 1..Len(prog) /\ t <= Aim(L)
      /\ Is(prog, t, {"UNION_END"}) /\ OnPath(L, Aim(L), t + 1)
      /\ L.nest[t] \in Nat /\ L.nest[t] >= 1
      /\ \A r \in (u + 1)..(t - 1) : Is(prog, r, {"UNION_END"}) => L.nest[r] > L.nest[t]
  <2>1. Is(prog, u, {"GET_UNION", "UNION_JMP"})
    BY <1>4 DEF Is
  <2> QED
    BY <1>2, <1>4, <2>1, UnionEnds
<1>6. \/ Is(prog, Top.pc, {"UNION_END"}) /\ Go(f1)
      \/ Crash
      \/ /\ ~(Top.cnt = 0 /\ Is(prog, Top.pc, {"UNION_END"}))
         /\ \/ Is(prog, q, {"GET_UNION"}) /\ Go(fp)
            \/ Is(prog, q, {"UNION_END"}) /\ Top.cnt > 0 /\ Go(fm)
            \/ Is(prog, q, {"UNION_END"}) /\ ~(Top.cnt > 0) /\ Go(f)
            \/ ~Is(prog, q, UnionEdges) /\ Go(f)
  BY DEF SkipUnion, Is, Code, Here, UnionEdges
<1>7. /\ f1.own = Top.own /\ f1.mode = "inst" /\ f1.pc = Top.pc + 1
      /\ f.own = Top.own /\ f.mode = "skip" /\ f.pc = q /\ f.cnt = Top.cnt
      /\ fp.own = Top.own /\ fp.mode = "skip" /\ fp.pc = q /\ fp.cnt = Top.cnt + 1
      /\ fm.own = Top.own /\ fm.mode = "skip" /\ fm.pc = q + 1 /\ fm.cnt = Top.cnt - 1
  BY <1>1, <1>2 DEF Frame
<1> HIDE DEF f1, f, fp, fm
<1>8. CASE Is(prog, Top.pc, {"UNION_END"}) /\ Go(f1)
  <2>1. Top.pc = t
    BY <1>4, <1>8
  <2> QED
    BY <1>1, <1>5, <1>7, <1>8, <2>1, InstWalks
<1>9. CASE /\ ~(Top.cnt = 0 /\ Is(prog, Top.pc, {"UNION_END"}))
           /\ \/ Is(prog, q, {"GET_UNION"}) /\ Go(fp)
              \/ Is(prog, q, {"UNION_END"}) /\ Top.cnt > 0 /\ Go(fm)
              \/ Is(prog, q, {"UNION_END"}) /\ ~(Top.cnt > 0) /\ Go(f)
              \/ ~Is(prog, q, UnionEdges) /\ Go(f)
  <2>1. Top.pc # t
    BY <1>4, <1>5, <1>9
  <2>2. Top.pc < t /\ Top.pc \in 1..Len(prog)
    BY <1>2, <1>4, <1>5, <2>1
  <2>3. q \in (Top.pc + 1)..t /\ L.nest[q] = L.nest[Top.pc + 1]
    <3>1. Is(prog, t, {"END", "UNION_END"})
      BY <1>5 DEF Is
    <3> QED
      BY <1>2, <1>5, <2>2, <3>1, WalkTo
  <2> HIDE DEF q
  <2>4. q \in Nat /\ q \in 1..Len(prog) /\ u <= q /\ q <= t /\ (q # t => q \in (u + 1)..(t - 1))
    BY <1>2, <1>4, <1>5, <2>3
  <2>5. /\ L.nest[q] \in Nat /\ L.nest[q + 1] \in Nat /\ Top.cnt = L.nest[q] - L.nest[t]
        /\ Is(prog, q, {"GET_UNION"}) => L.nest[q + 1] = L.nest[q] + 1
        /\ Is(prog, q, {"UNION_END"}) => L.nest[q + 1] = L.nest[q] - 1
        /\ ~Is(prog, q, UnionEdges) => L.nest[q + 1] = L.nest[q]
    BY <1>2, <1>4, <2>1, <2>3, <2>4, NestStep
  <2>6. ASSUME NEW g, g.own = Top.own, g.mode = "skip", u <= g.pc, g.pc <= t, Go(g),
               IF g.pc = t THEN g.cnt = 0
               ELSE ~Is(prog, g.pc, {"UNION_END"}) /\ g.cnt = L.nest[g.pc + 1] - L.nest[t]
        PROVE  WalkOK(L)'
    <3>1. Skipping(prog, L, Aim(L), u, g)
      BY <1>4, <2>6 DEF Skipping
    <3>2. Placed(prog, L, Aim(L), g)
      BY <2>6, <3>1 DEF Placed, AllModes, DotModes, ClauseModes, FilterModes, SubpathModes
    <3> QED
      BY <1>1, <2>6, <3>2, ModeNames, GoWalks
  <2>7. CASE Is(prog, q, {"GET_UNION"}) /\ Go(fp)
    <3>1. q # t /\ ~Is(prog, q, {"UNION_END"})
      BY <1>5, <2>7 DEF Is
    <3>2. fp.cnt = L.nest[q + 1] - L.nest[t]
      BY <1>5, <1>7, <2>5, <2>7
    <3> QED
      BY <1>7, <2>4, <2>6, <2>7, <3>1, <3>2
  <2>8. CASE Is(prog, q, {"UNION_END"}) /\ Top.cnt > 0 /\ Go(fm)
    <3>1. q # t
      BY <1>5, <2>5, <2>8
    <3>2. L.nest[q + 1] > 0 /\ q + 1 <= t /\ u <= q + 1 /\ q + 1 \in 1..Len(prog)
      <4>1. L.nest[q + 1] > 0
        BY <1>2, <1>5, <2>5, <2>8
      <4> QED
        BY <1>2, <1>5, <2>4, <3>1, <4>1
    <3>3. ~Is(prog, q + 1, UnionEdges)
      BY <1>2, <2>4, <2>8, <3>2 DEF Tame
    <3>4. q + 1 # t /\ ~Is(prog, q + 1, {"UNION_END"})
      BY <1>5, <3>3 DEF Is, UnionEdges
    <3>5. L.nest[q + 1 + 1] = L.nest[q + 1]
      BY <1>2, <3>2, <3>3, NestStep
    <3>6. fm.cnt = L.nest[q + 1 + 1] - L.nest[t]
      <4>1. L.nest[q + 1 + 1] = L.nest[q] - 1 /\ Top.cnt = L.nest[q] - L.nest[t]
        BY <2>5, <2>8, <3>5
      <4>2. L.nest[q] \in Nat /\ L.nest[t] \in Nat /\ fm.cnt = Top.cnt - 1
        BY <1>5, <1>7, <2>5
      <4> QED
        BY <4>1, <4>2
    <3> QED
      BY <1>7, <2>6, <2>8, <3>2, <3>4, <3>6
  <2>9. CASE Is(prog, q, {"UNION_END"}) /\ ~(Top.cnt > 0) /\ Go(f)
    <3>1. q = t
      BY <1>5, <2>4, <2>5, <2>9
    <3>2. f.cnt = 0
      BY <1>5, <1>7, <2>5, <3>1
    <3> QED
      BY <1>7, <2>4, <2>6, <2>9, <3>1, <3>2
  <2>10. CASE ~Is(prog, q, UnionEdges) /\ Go(f)
    <3>1. q # t /\ ~Is(prog, q, {"UNION_END"})
      BY <1>5, <2>10 DEF Is, UnionEdges
    <3>2. f.cnt = L.nest[q + 1] - L.nest[t]
      BY <1>5, <1>7, <2>5, <2>10
    <3> QED
      BY <1>7, <2>4, <2>6, <2>10, <3>1, <3>2
  <2> QED
    BY <1>9, <2>7, <2>8, <2>9, <2>10
<1> QED
  BY <1>6, <1>8, <1>9 DEF Crash

\* UNION_JMP: a member is done, the others are skipped.
LEMMA UnionJmpWalks ==
  ASSUME NEW L, Walking(L), call' = call, NEW u, u = Top.pc, OnPath(L, Aim(L), u),
         Is(prog, u, {"UNION_JMP"}), Go([Top EXCEPT !.mode = "skip", !.cnt = 0])
  PROVE  status' = "run" => WalkOK(L)'
<1> DEFINE f == [Top EXCEPT !.mode = "skip", !.cnt = 0]
           t == L.close[u]
<1>1. Top \in Frame /\ call \in Calls /\ Laid(prog, L) /\ Len(prog) \in Nat
  BY WalkingTop, FrameFields, LayoutTypes
<1>2. Is(prog, u, {"GET_UNION", "UNION_JMP"}) /\ ~Is(prog, u, {"UNION_END"})
  BY DEF Is
<1>3. /\ u \in 1..Len(prog) /\ t \in 1..Len(prog) /\ u < t
      /\ L.nest[t] = L.nest[u + 1] /\ L.nest[t] \in Nat
  BY <1>1, <1>2, UnionClose, Zenon
<1>4. f.own = Top.own /\ f.mode = "skip" /\ f.pc = u /\ f.cnt = 0
  BY <1>1 DEF Frame
<1> HIDE DEF f
<1>5. u <= u /\ u <= t /\ u # t /\ 0 = L.nest[u + 1] - L.nest[t]
  BY <1>1, <1>3
<1>6. Skipping(prog, L, Aim(L), u, f)
  BY <1>2, <1>4, <1>5, Zenon DEF Skipping
<1>7. Placed(prog, L, Aim(L), f)
  BY <1>4, <1>6 DEF Placed, OnPath, AllModes, DotModes, ClauseModes, FilterModes, SubpathModes
<1> QED
  BY <1>4, <1>7, ModeNames, GoWalks DEF f

LEMMA UnionWalks ==
  ASSUME NEW L, Walking(L), Union
  PROVE  status' = "run" => WalkOK(L)'
<1>1. call' = call
  BY DEF Union, GetUnion, AfterMember, NextMember, UnionJmp, SkipUnion, UnionEnd
<1>2. Top \in Frame /\ Top.pc \in Nat /\ Top.own \in Nat /\ call \in Calls /\ Laid(prog, L)
      /\ Placed(prog, L, Aim(L), Top)
  BY WalkingTop, FrameFields
<1>3. CASE GetUnion
  <2>1. OnPath(L, Aim(L), Top.pc) /\ Is(prog, Top.pc, {"GET_UNION"}) /\ Member(Top.pc + 1)
    BY <1>3, AtInst DEF GetUnion
  <2>2. Is(prog, Top.pc, {"GET_UNION", "UNION_JMP"})
    BY <2>1 DEF Is
  <2> QED
    BY <1>1, <2>1, <2>2, MemberWalks
<1>4. CASE AfterMember
  <2>1. Top.mode = "union" /\ AfterVisit("UNION", "union", "member")
    BY <1>4 DEF AfterMember, In
  <2>2. PICK u \in L.starts : InUnionOf(prog, L, Aim(L), u, Top)
    BY <1>2, <2>1 DEF Placed
  <2>3. Top.cnt = 0
    BY <1>2, <2>1 DEF Placed
  <2>4. Top.pc <= Aim(L)
    <3>1. Top.pc < L.close[u] /\ L.close[u] <= Aim(L) /\ L.close[u] \in 1..Len(prog)
      BY <1>2, <2>2, UnionEnds DEF InUnionOf
    <3> QED
      BY <1>2, <3>1, AimEnds
  <2>5. ASSUME NEW g, g.mode \in {"union", "member"}, g.pc = Top.pc, g.cnt = Top.cnt
        PROVE  Placed(prog, L, Aim(L), g)
    <3>1. InUnionOf(prog, L, Aim(L), u, g)
      BY <2>2, <2>5 DEF InUnionOf
    <3> QED
      BY <2>3, <2>5, <3>1 DEF Placed, AllModes, DotModes, ClauseModes, FilterModes, SubpathModes
  <2>6. Top.mode \in WaitingModes \ SubpathModes
    BY <2>1, ModeNames
  <2> QED
    BY <1>1, <2>1, <2>4, <2>5, <2>6, ModeNames, AfterVisitWalks
<1>5. CASE NextMember
  BY <1>5, NextMemberWalks
<1>6. CASE UnionJmp
  <2>1. Go([Top EXCEPT !.mode = "skip", !.cnt = 0]) /\ OnPath(L, Aim(L), Top.pc)
        /\ Is(prog, Top.pc, {"UNION_JMP"})
    BY <1>6, AtInst DEF UnionJmp
  <2> QED
    BY <1>1, <2>1, UnionJmpWalks
<1>7. CASE SkipUnion
  BY <1>7, SkipUnionWalks
<1>8. CASE UnionEnd
  <2> DEFINE f == [Top EXCEPT !.pc = Top.pc + 1]
  <2>1. Go(f) /\ OnPath(L, Aim(L), Top.pc) /\ Is(prog, Top.pc, {"UNION_END"})
        /\ Top.mode = "inst"
    BY <1>8, AtInst DEF UnionEnd, At_, In
  <2>2. f.own = Top.own /\ f.mode = "inst" /\ f.pc = Top.pc + 1
    BY <1>2, <2>1 DEF Frame
  <2> HIDE DEF f
  <2>3. ~Is(prog, Top.pc, FilterOps \cup {"END", "RANGE", "GET_SUBPATH"})
    BY <2>1 DEF Is, FilterOps
  <2> QED
    BY <1>1, <1>2, <2>1, <2>2, <2>3, GoesOn, InstWalks
<1> QED
  BY <1>3, <1>4, <1>5, <1>6, <1>7, <1>8 DEF Union

--------------------------------------------------------------------------------
(***************************************************************************)
(* The theorem.                                                            *)
(***************************************************************************)

\* Every call starts at the first instruction.
LEMMA BeginWalks ==
  ASSUME IInv, Begin, NEW L, Laid(prog, L)
  PROVE  status' = "run" => WalkOK(L)'
<1> DEFINE f == NewFrame(1, call.root, NULL, NoInfo, 0)
<1>1. CASE status' = "done"
  BY <1>1
<1>2. CASE stack' = <<f>> /\ call' = call
  <2>1. f.own = 0 /\ f.mode = "inst" /\ f.pc = 1
    BY DEF NewFrame
  <2> HIDE DEF f
  <2>2. Depth' = 1 /\ stack'[1] = f /\ Top' = f /\ prog' = prog
    BY <1>2 DEF Depth, Top, prog
  <2>3. Goal(L, stack', f) = L.exit[1]
    BY <2>1 DEF Goal
  <2>4. OnPath(L, L.exit[1], 1)
    BY DEF Laid, OnPath
  <2>5. Placed(prog, L, L.exit[1], f)
    BY <2>1, <2>4, PlacedAt
  <2>6. Linked'
    BY <2>2 DEF Linked
  <2>7. Arrived(L)'
    BY <2>1, <2>2 DEF Arrived, SubpathModes, WaitingModes
  <2> QED
    BY <2>2, <2>3, <2>5, <2>6, <2>7 DEF WalkOK
<1> QED
  BY <1>1, <1>2 DEF Begin

LEMMA NextWalks ==
  ASSUME IInv, WalkInv, [Next]_vars
  PROVE  WalkInv'
<1> SUFFICES ASSUME NEW L, status' = "run", Laid(prog', L), Tame(prog', L)
             PROVE  WalkOK(L)'
  BY DEF WalkInv
<1>1. CASE UNCHANGED vars
  <2>1. /\ status' = status /\ prog' = prog /\ stack' = stack /\ ret' = ret
        /\ Depth' = Depth /\ Top' = Top
    BY <1>1 DEF vars, prog, Depth, Top
  <2>2. WalkOK(L)
    BY <2>1 DEF WalkInv
  <2> QED
    BY <2>1, <2>2 DEF WalkOK, Linked, Arrived
<1>2. CASE Begin
  <2>1. prog' = prog
    BY <1>2 DEF Begin, prog
  <2> QED
    BY <1>2, <2>1, BeginWalks
<1>3. CASE Next /\ ~Begin /\ ~Finished
  <2>1. status = "run" /\ call' = call
    BY <1>3, Running
  <2>2. Walking(L)
    BY <2>1 DEF Walking, WalkInv, prog
  <2> QED
    BY <1>3, <2>2, ReturnWalks, PlainWalks, GettingWalks, AllAndRangeWalks, DescentWalks,
       FilteringWalks, UnionWalks DEF Next, Looping
<1>4. CASE Finished
  BY <1>1, <1>4 DEF Finished
<1> QED
  BY <1>1, <1>2, <1>3, <1>4

LEMMA WalkInvariance == Spec => [](IInv /\ WalkInv)
<1>1. Init => WalkInv
  BY DEF Init, WalkInv
<1>2. IInv /\ WalkInv /\ [Next]_vars => WalkInv'
  BY NextWalks
<1> QED
  BY <1>1, <1>2, InitIInv, NextIInv, PTL DEF Spec

\* The walker is always at an instruction of the switch, or at an end, when
\* csonpath_do_internal looks at it, in every program that is laid out and
\* tame, with every document, operation and backend.  A program that compares with
\* "=~null", "=~true" or "=~false" is not laid out: there the walker does go on a
\* byte behind an instruction (csonpath.h 780-791, 1839-1843).
THEOREM WalkersStayOnInstructions ==
  Spec => []((\E L : Laid(prog, L) /\ Tame(prog, L)) => WalkerOnInstruction)
<1>1. ASSUME IInv, WalkInv, NEW L, Laid(prog, L), Tame(prog, L), In("inst")
      PROVE  Top.pc \in DOMAIN prog /\ Here.inst \in Executable \cup Endish
  <2>1. Walking(L)
    BY <1>1 DEF Walking, WalkInv, In
  <2>2. OnPath(L, Aim(L), Top.pc)
    BY <1>1, <2>1, WalkingTop DEF Placed, In
  <2>3. Top.pc \in 1..Len(prog) /\ Is(prog, Top.pc, Executable \cup Endish)
    BY <2>1, <2>2, WalkingTop, PathEnds
  <2> QED
    BY <2>1, <2>3, WalkingTop, LayoutTypes DEF Is, Here, Code
<1>2. IInv /\ WalkInv =>
        ((\E L : Laid(prog, L) /\ Tame(prog, L)) => WalkerOnInstruction)
  BY <1>1 DEF WalkerOnInstruction
<1> QED
  BY <1>2, WalkInvariance, PTL

\* Once a sub-path has given a value, the pointer it was handed points to the
\* END that closes it, whichever of its frames returned and after whatever
\* failures, in every program whose instructions are laid out and tame.
THEOREM SentinelsReachTheEnd ==
  Spec => [](Laid(prog, LayoutOf(prog)) /\ Tame(prog, LayoutOf(prog)) => SentinelAtEnd)
<1> DEFINE L == LayoutOf(prog)
<1>1. ASSUME IInv, WalkInv, Laid(prog, L), Tame(prog, L),
             status = "run", Top.mode \in SubpathModes, ret.val # NULL
      PROVE  Top.sent = L.exit[OperandOf(Top) + 1]
  BY <1>1 DEF WalkInv, WalkOK, Arrived
<1>2. IInv /\ WalkInv => (Laid(prog, L) /\ Tame(prog, L) => SentinelAtEnd)
  BY <1>1 DEF SentinelAtEnd, In, SubpathModes, OperandOf
<1> QED
  BY <1>2, WalkInvariance, PTL

================================================================================
