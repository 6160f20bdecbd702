--------------------------- MODULE CsonpathDo_proofs ----------------------------
(***************************************************************************)
(* Theorems about the interpreter, for every program (a well-formed one or *)
(* not), every document, every operation and every backend.                *)
(***************************************************************************)
EXTENDS CsonpathDo, CsonpathDoc_proofs, SequenceTheorems

Modes == WaitingModes \cup ActiveModes

\* Above a frame of a sub-path, and above one that waits for a sub-path, there
\* are only frames of sub-paths.
SubpathsOnTop ==
  \A d, e \in 1..Depth :
    d < e /\ (stack[d].own > 0 \/ stack[d].mode \in SubpathModes) => stack[e].own > 0

\* Before the call nothing has happened.
NotBegun == status = "call" => heap = call.doc /\ exc = FALSE

\* What every step preserves: the types, and the discipline of the calls.
IInv == TypeOK /\ SentinelOwnerWaits /\ SubpathsOnTop /\ NotBegun /\ call \in Calls

\* The two halves of IInv, once the call has begun: what Go, Enter, Leave and
\* Crash change, and what they leave to the action.
ControlOK ==
  /\ stack \in Seq(Frame) /\ Depth <= MaxDepth
  /\ ret \in Result
  /\ status \in {"run", "done", "crash"}
  /\ status = "run" <=> stack # <<>> /\ status # "crash"
  /\ SentinelOwnerWaits /\ SubpathsOnTop
DataOK == heap \in Heap /\ acc \in Seq(Given) /\ exc \in BOOLEAN

LEMMA TwoHalves ==
  /\ IInv => DataOK /\ call \in Calls
  /\ ControlOK' /\ DataOK' /\ (call \in Calls)' => IInv'
  BY DEF IInv, TypeOK, ControlOK, DataOK, NotBegun

--------------------------------------------------------------------------------
(***************************************************************************)
(* The program, the operation and the frame on top.                        *)
(***************************************************************************)

\* Whatever the walker is, there is a cell to read.
LEMMA CodeType ==
  ASSUME call \in Calls, NEW pc
  PROVE  /\ Code(pc) \in Cells
         /\ Code(pc).inst \in Opcodes /\ Code(pc).key \in Text
         /\ Code(pc).num \in Nat /\ Code(pc).cnt \in Nat
<1>1. prog \in Seq(Cells)
  BY CallAssumption DEF prog
<1>2. Outside \in Cells
  BY DEF Outside, Cell, Cells, Opcodes, Text
<1>3. Code(pc) \in Cells
  BY <1>1, <1>2 DEF Code, CellAt
<1> QED
  BY <1>3 DEF Cells

\* The frame on top of a call in progress.
LEMMA TopType ==
  ASSUME IInv, status = "run"
  PROVE  /\ stack \in Seq(Frame) /\ stack # <<>>
         /\ Depth \in Nat \ {0} /\ Depth <= MaxDepth /\ Depth \in DOMAIN stack
         /\ Top \in Frame
  BY DEF IInv, TypeOK, Depth, Top

\* The fields of a frame.
LEMMA FrameFields ==
  ASSUME NEW f \in Frame
  PROVE  /\ f.mode \in Modes /\ f.pc \in Nat /\ f.tmp \in ValueSet /\ f.val \in ValueSet
         /\ f.ctx \in ValueSet /\ f.inctx \in ValueSet /\ f.ci \in ChildInfo
         /\ f.own \in Nat /\ f.sent \in Nat /\ f.i \in Nat /\ f.n \in Nat /\ f.end \in Int
         /\ f.el \in ValueSet /\ f.ow \in Nat /\ f.opn \in Opcodes /\ f.el2 \in ValueSet
         /\ f.cnt \in Int /\ f.nb \in Int /\ f.rl \in BOOLEAN
  BY DEF Frame, Modes

\* The modes are strings of the code; the prover has to be told which.
LEMMA ModeNames ==
  /\ {"all_back", "range_back", "dot_back", "dot_return", "filter_back", "union",
      "subpath", "operand"} \subseteq WaitingModes
  /\ {"inst", "scan", "skip", "member", "all", "range", "dot", "descend", "filter",
      "crawl", "match"} \subseteq ActiveModes
  /\ SubpathModes \subseteq WaitingModes /\ SubpathModes = {"subpath", "operand"}
  /\ {"all_back", "range_back", "dot_back", "dot_return", "filter_back", "union"}
       \subseteq WaitingModes \ SubpathModes
  /\ WaitingModes \subseteq Modes /\ ActiveModes \subseteq Modes
  BY DEF WaitingModes, ActiveModes, SubpathModes, Modes

\* NewFrame makes a frame.
LEMMA NewFrameType ==
  ASSUME NEW pc \in Nat, NEW v \in ValueSet, NEW ctx \in ValueSet, NEW ci \in ChildInfo,
         NEW own \in Nat
  PROVE  /\ NewFrame(pc, v, ctx, ci, own) \in Frame
         /\ NewFrame(pc, v, ctx, ci, own).own = own
  BY DEF Frame, NewFrame, ActiveModes, ValueSet, Opcodes, Endish

\* The results.
LEMMA ResultTypes ==
  /\ \A v \in ValueSet : Value(v) \in Result
  /\ \A n \in Int : Count(n) \in Result
  /\ None \in Result
  /\ \A op : ErrorOf(op) \in Result
  BY DEF Value, Count, None, ErrorOf, Result, ValueSet

--------------------------------------------------------------------------------
(***************************************************************************)
(* Moving on the stack: Go, Crash, Enter, LeaveFrom.                       *)
(***************************************************************************)

\* The same frames, but for what is neither their mode nor their owner.
SameShape(s) ==
  /\ s \in Seq(Frame) /\ Len(s) = Depth
  /\ \A d \in 1..Depth : s[d].own = stack[d].own /\ s[d].mode = stack[d].mode

\* The frame on top goes on.
LEMMA GoControl ==
  ASSUME IInv, status = "run", NEW f \in Frame, f.own = Top.own, Go(f)
  PROVE  ControlOK'
<1>1. stack \in Seq(Frame) /\ Depth \in Nat \ {0} /\ Depth <= MaxDepth /\ Depth = Len(stack)
  BY TopType DEF Depth
<1>2. stack' = [stack EXCEPT ![Depth] = f] /\ ret' = ret /\ status' = status
  BY DEF Go, Replace
<1>3. stack' \in Seq(Frame) /\ Len(stack') = Depth
  BY <1>1, <1>2
<1>4. Depth' = Depth /\ stack' # <<>>
  BY <1>1, <1>3 DEF Depth
<1>5. \A d \in 1..Depth : stack'[d] = IF d = Depth THEN f ELSE stack[d]
  BY <1>1, <1>2
<1>6. SentinelOwnerWaits'
  <2> SUFFICES ASSUME NEW d \in 1..Depth
               PROVE  /\ d < Depth => stack'[d].mode \in WaitingModes
                      /\ stack'[d].own > 0 => /\ stack'[d].own < d
                                              /\ stack'[stack'[d].own].mode \in SubpathModes
    BY <1>1, <1>3, <1>4 DEF SentinelOwnerWaits
  <2>1. /\ d < Depth => stack[d].mode \in WaitingModes
        /\ stack[d].own > 0 => /\ stack[d].own < d
                               /\ stack[stack[d].own].mode \in SubpathModes
    BY <1>1 DEF IInv, SentinelOwnerWaits
  <2>2. stack'[d].own = stack[d].own /\ stack[d].own \in Nat
    BY <1>1, <1>5, FrameFields DEF Top
  <2> QED
    BY <1>1, <1>5, <2>1, <2>2
<1>7. SubpathsOnTop'
  <2> SUFFICES ASSUME NEW d \in 1..Depth, NEW e \in 1..Depth, d < e,
                      stack'[d].own > 0 \/ stack'[d].mode \in SubpathModes
               PROVE  stack'[e].own > 0
    BY <1>4 DEF SubpathsOnTop
  <2>1. stack'[d] = stack[d] /\ stack'[e].own = stack[e].own
    BY <1>1, <1>5 DEF Top
  <2> QED
    BY <2>1 DEF IInv, SubpathsOnTop
<1> QED
  BY <1>1, <1>2, <1>3, <1>4, <1>6, <1>7 DEF ControlOK, IInv, TypeOK

\* The C program crashes.
LEMMA CrashControl ==
  ASSUME IInv, status = "run", Crash
  PROVE  ControlOK'
  BY DEF IInv, TypeOK, ControlOK, Crash, SentinelOwnerWaits, SubpathsOnTop, Depth

\* A function is called.  Its frame has the owner of its caller, or is the
\* first frame of a subpath, owned by its caller.
LEMMA EnterControl ==
  ASSUME IInv, status = "run", NEW f \in Frame, NEW callee \in Frame,
         f.own = Top.own, f.mode \in WaitingModes,
         \/ callee.own = Top.own /\ f.mode \notin SubpathModes
         \/ callee.own = Depth /\ f.mode \in SubpathModes,
         Enter(f, callee)
  PROVE  ControlOK'
<1>1. CASE Depth = MaxDepth
  BY <1>1, CrashControl DEF Enter
<1>2. CASE Depth # MaxDepth
  <2>1. stack \in Seq(Frame) /\ Depth \in Nat \ {0} /\ Depth <= MaxDepth /\ Depth = Len(stack)
    BY TopType DEF Depth
  <2> DEFINE s == [stack EXCEPT ![Depth] = f]
  <2>2. stack' = Append(s, callee) /\ ret' = ret /\ status' = status
    BY <1>2 DEF Enter, Replace
  <2>3. s \in Seq(Frame) /\ Len(s) = Depth
    BY <2>1
  <2>4. /\ stack' \in Seq(Frame) /\ Len(stack') = Depth + 1
        /\ \A d \in 1..Depth : stack'[d] = s[d]
        /\ stack'[Depth + 1] = callee
    <3> HIDE DEF s
    <3> QED
      BY <2>2, <2>3, AppendProperties
  <2>5. Depth' = Depth + 1 /\ stack' # <<>> /\ Depth' <= MaxDepth
    BY <1>2, <2>1, <2>4, BoundAssumption DEF Depth
  <2>6. \A d \in 1..Depth : stack'[d] = IF d = Depth THEN f ELSE stack[d]
    BY <2>1, <2>4
  <2>7. SentinelOwnerWaits'
    <3> SUFFICES ASSUME NEW d \in 1..(Depth + 1)
                 PROVE  /\ d < Depth + 1 => stack'[d].mode \in WaitingModes
                        /\ stack'[d].own > 0 => /\ stack'[d].own < d
                                                /\ stack'[stack'[d].own].mode \in SubpathModes
      BY <2>1, <2>4, <2>5 DEF SentinelOwnerWaits
    <3>1. \A e \in 1..Depth :
            /\ e < Depth => stack[e].mode \in WaitingModes
            /\ stack[e].own > 0 => /\ stack[e].own < e
                                   /\ stack[stack[e].own].mode \in SubpathModes
      BY <2>1 DEF IInv, SentinelOwnerWaits
    <3>2. \A e \in 1..Depth : stack[e].own \in Nat
      BY <2>1, FrameFields
    <3>3. CASE d \in 1..Depth
      <4>1. stack'[d].own = stack[d].own
        BY <2>6, <3>3 DEF Top
      <4> QED
        BY <2>1, <2>6, <3>1, <3>2, <3>3, <4>1
    <3>4. CASE d = Depth + 1
      <4>1. stack'[d] = callee
        BY <2>4, <3>4
      <4>2. CASE callee.own = Top.own
        <5>1. Top.own = stack[Depth].own
          BY DEF Top
        <5> QED
          BY <2>1, <2>6, <3>1, <3>2, <3>4, <4>1, <4>2, <5>1
      <4>3. CASE callee.own = Depth /\ f.mode \in SubpathModes
        BY <2>1, <2>6, <3>4, <4>1, <4>3
      <4> QED
        BY <4>2, <4>3
    <3> QED
      BY <2>1, <3>3, <3>4
  <2>8. SubpathsOnTop'
    <3> SUFFICES ASSUME NEW d \in 1..(Depth + 1), NEW e \in 1..(Depth + 1), d < e,
                        stack'[d].own > 0 \/ stack'[d].mode \in SubpathModes
                 PROVE  stack'[e].own > 0
      BY <2>5 DEF SubpathsOnTop
    <3>1. d \in 1..Depth
      BY <2>1
    <3>2. stack'[d].own = stack[d].own
      BY <2>6, <3>1 DEF Top
    <3>3. CASE e \in 1..Depth
      <4>1. stack'[d] = stack[d] /\ stack'[e].own = stack[e].own
        BY <2>1, <2>6, <3>1, <3>3 DEF Top
      <4> QED
        BY <3>1, <3>3, <4>1 DEF IInv, SubpathsOnTop
    <3>4. CASE e = Depth + 1
      <4>1. stack'[e] = callee
        BY <2>4, <3>4
      <4>2. CASE d = Depth
        BY <2>1, <2>6, <3>2, <4>1, <4>2 DEF Top
      <4>3. CASE d < Depth
        <5>1. stack[Depth].own > 0
          BY <2>1, <2>6, <3>1, <4>3 DEF IInv, SubpathsOnTop
        <5> QED
          BY <2>1, <4>1, <5>1 DEF Top
      <4> QED
        BY <2>1, <3>1, <4>2, <4>3
    <3> QED
      BY <2>1, <3>3, <3>4
  <2> QED
    BY <2>2, <2>4, <2>5, <2>7, <2>8 DEF ControlOK, IInv, TypeOK
<1> QED
  BY <1>1, <1>2

\* A function returns.
LEMMA LeaveControl ==
  ASSUME IInv, status = "run", NEW s, SameShape(s), NEW r \in Result, LeaveFrom(s, r)
  PROVE  ControlOK'
<1>1. stack \in Seq(Frame) /\ Depth \in Nat \ {0} /\ Depth <= MaxDepth /\ Depth = Len(stack)
  BY TopType DEF Depth
<1>2. s \in Seq(Frame) /\ Len(s) = Depth
  BY DEF SameShape
<1>3. stack' = SubSeq(s, 1, Depth - 1) /\ ret' = r
      /\ status' = IF Depth = 1 THEN "done" ELSE "run"
  BY <1>2 DEF LeaveFrom, Pop
<1>4. \A d \in 1..(Depth - 1) : s[d] \in Frame
  BY <1>1, <1>2
<1>5. /\ stack' \in Seq(Frame) /\ Len(stack') = Depth - 1
      /\ \A d \in 1..(Depth - 1) : stack'[d] = s[d]
  <2>1. SubSeq(s, 1, Depth - 1) \in Seq(Frame)
    BY <1>1, <1>4, SubSeqProperties
  <2>2. Len(SubSeq(s, 1, Depth - 1)) = Depth - 1
    BY <1>1, <1>2
  <2>3. \A d \in 1..(Depth - 1) : SubSeq(s, 1, Depth - 1)[d] = s[d]
    BY <1>1, <1>2
  <2> QED
    BY <1>3, <2>1, <2>2, <2>3
<1>6. Depth' = Depth - 1 /\ (stack' = <<>> <=> Depth = 1)
  BY <1>1, <1>5, EmptySeq DEF Depth
<1>7. SentinelOwnerWaits'
  <2> SUFFICES ASSUME NEW d \in 1..(Depth - 1)
               PROVE  /\ d < Depth - 1 => stack'[d].mode \in WaitingModes
                      /\ stack'[d].own > 0 => /\ stack'[d].own < d
                                              /\ stack'[stack'[d].own].mode \in SubpathModes
    BY <1>1, <1>5, <1>6 DEF SentinelOwnerWaits
  <2>1. /\ stack[d].mode \in WaitingModes
        /\ stack[d].own > 0 => /\ stack[d].own < d
                               /\ stack[stack[d].own].mode \in SubpathModes
    BY <1>1 DEF IInv, SentinelOwnerWaits
  <2>2. stack[d].own \in Nat
    BY <1>1, FrameFields
  <2>3. \A e \in 1..(Depth - 1) : stack'[e].own = stack[e].own /\ stack'[e].mode = stack[e].mode
    BY <1>1, <1>5 DEF SameShape
  <2> QED
    BY <1>1, <2>1, <2>2, <2>3
<1>8. /\ status' \in {"run", "done", "crash"}
      /\ status' = "run" <=> stack' # <<>> /\ status' # "crash"
  BY <1>3, <1>6
<1>9. Depth' <= MaxDepth
  BY <1>1, <1>6, BoundAssumption
<1>10. SubpathsOnTop'
  <2> SUFFICES ASSUME NEW d \in 1..(Depth - 1), NEW e \in 1..(Depth - 1), d < e,
                      stack'[d].own > 0 \/ stack'[d].mode \in SubpathModes
               PROVE  stack'[e].own > 0
    BY <1>6 DEF SubpathsOnTop
  <2>1. \A k \in 1..(Depth - 1) : stack'[k].own = stack[k].own /\ stack'[k].mode = stack[k].mode
    BY <1>1, <1>5 DEF SameShape
  <2>2. stack[d].own > 0 \/ stack[d].mode \in SubpathModes
    BY <2>1
  <2>3. stack[e].own > 0
    <3>1. d \in 1..Depth /\ e \in 1..Depth
      BY <1>1
    <3> QED
      BY <2>2, <3>1 DEF IInv, SubpathsOnTop
  <2> QED
    BY <2>1, <2>3
<1> QED
  BY <1>3, <1>5, <1>7, <1>8, <1>9, <1>10 DEF ControlOK

--------------------------------------------------------------------------------
(***************************************************************************)
(* Returning: the stack with which a function returns, and what it gives.  *)
(***************************************************************************)

\* Writing through end_sentinel and need_reloop changes neither the modes
\* nor the owners.
LEMMA ShapeKept ==
  ASSUME IInv, status = "run"
  PROVE  /\ SameShape(stack)
         /\ \A f, walker, v : v \in Nat => SameShape(Sentinel(stack, f, walker, v))
         /\ \A cond : SameShape(Reloop(cond))
<1>1. stack \in Seq(Frame) /\ Depth \in Nat \ {0} /\ Depth = Len(stack)
  BY TopType DEF Depth
<1>2. SameShape(stack)
  BY <1>1 DEF SameShape
<1>3. ASSUME NEW e, NEW v \in Nat
      PROVE  SameShape([stack EXCEPT ![e].sent = v])
  <2> DEFINE s == [stack EXCEPT ![e].sent = v]
  <2>1. CASE e \in DOMAIN stack
    <3>1. stack[e] \in Frame
      BY <1>1, <2>1
    <3>2. [stack[e] EXCEPT !.sent = v] \in Frame
      BY <3>1, Zenon DEF Frame
    <3>3. /\ [stack[e] EXCEPT !.sent = v].own = stack[e].own
          /\ [stack[e] EXCEPT !.sent = v].mode = stack[e].mode
      BY <3>1 DEF Frame
    <3>4. s = [stack EXCEPT ![e] = [stack[e] EXCEPT !.sent = v]]
      OBVIOUS
    <3> QED
      BY <1>1, <2>1, <3>2, <3>3, <3>4 DEF SameShape
  <2>2. CASE e \notin DOMAIN stack
    <3>1. s = [d \in DOMAIN stack |-> stack[d]]
      BY <2>2
    <3>2. stack = [d \in DOMAIN stack |-> stack[d]]
      BY <1>1
    <3> QED
      BY <1>2, <3>1, <3>2
  <2> QED
    BY <2>1, <2>2
<1>4. ASSUME NEW e \in 1..Depth
      PROVE  SameShape([stack EXCEPT ![e].rl = TRUE])
  <2>1. stack[e] \in Frame
    BY <1>1
  <2>2. [stack[e] EXCEPT !.rl = TRUE] \in Frame
    BY <2>1, Zenon DEF Frame
  <2>3. /\ [stack[e] EXCEPT !.rl = TRUE].own = stack[e].own
        /\ [stack[e] EXCEPT !.rl = TRUE].mode = stack[e].mode
    BY <2>1 DEF Frame
  <2> QED
    BY <1>1, <2>2, <2>3 DEF SameShape
<1>5. \A f, walker, v : v \in Nat => SameShape(Sentinel(stack, f, walker, v))
  BY <1>2, <1>3 DEF Sentinel
<1>6. \A cond : SameShape(Reloop(cond))
  <2>1. Depth > 1 => Depth - 1 \in 1..Depth
    BY <1>1
  <2> QED
    BY <1>2, <1>4, <2>1 DEF Reloop
<1> QED
  BY <1>2, <1>5, <1>6

\* A plain return, and one that also sets the end_sentinel.
LEMMA ReturnControl ==
  ASSUME IInv, status = "run", NEW r \in Result,
         \/ Leave(r)
         \/ \E walker : \E v \in Nat : LeaveAt(walker, v, r)
         \/ \E cond : LeaveFrom(Reloop(cond), r)
  PROVE  ControlOK'
<1>1. CASE Leave(r)
  BY <1>1, ShapeKept, LeaveControl DEF Leave
<1>2. ASSUME NEW walker, NEW v \in Nat, LeaveAt(walker, v, r)
      PROVE  ControlOK'
  <2>1. SameShape(Sentinel(stack, Top, walker, v))
    BY ShapeKept
  <2>2. LeaveFrom(Sentinel(stack, Top, walker, v), r)
    BY <1>2 DEF LeaveAt
  <2> QED
    BY <2>1, <2>2, LeaveControl
<1>3. ASSUME NEW cond, LeaveFrom(Reloop(cond), r)
      PROVE  ControlOK'
  <2>1. SameShape(Reloop(cond))
    BY ShapeKept
  <2> QED
    BY <1>3, <2>1, LeaveControl
<1> QED
  BY <1>1, <1>2, <1>3

\* A return with an error.
LEMMA FailControl ==
  ASSUME IInv, status = "run", Fail
  PROVE  ControlOK' /\ exc' \in BOOLEAN
<1>1. ErrorOf(Op(Top)) \in Result
  BY ResultTypes
<1> QED
  BY <1>1, ReturnControl DEF Fail

--------------------------------------------------------------------------------
(***************************************************************************)
(* The same steps, frame by frame.                                         *)
(***************************************************************************)

\* The same frame, but for what a callee writes to it through a pointer.
Alike(f, g) ==
  /\ f.fn = g.fn /\ f.mode = g.mode /\ f.pc = g.pc /\ f.tmp = g.tmp /\ f.val = g.val
  /\ f.ctx = g.ctx /\ f.inctx = g.inctx /\ f.ci = g.ci /\ f.own = g.own
  /\ f.i = g.i /\ f.n = g.n /\ f.end = g.end /\ f.el = g.el /\ f.ow = g.ow
  /\ f.opn = g.opn /\ f.el2 = g.el2 /\ f.cnt = g.cnt /\ f.nb = g.nb

\* The frame on top goes on: the others stay.
LEMMA GoEffect ==
  ASSUME IInv, status = "run", NEW f, Go(f)
  PROVE  /\ Depth' = Depth /\ Top' = f /\ status' = "run" /\ ret' = ret
         /\ \A d \in 1..Depth : stack'[d] = IF d = Depth THEN f ELSE stack[d]
<1>1. stack \in Seq(Frame) /\ Depth \in Nat \ {0} /\ Depth = Len(stack)
  BY TopType DEF Depth
<1>2. stack' = [stack EXCEPT ![Depth] = f]
  BY DEF Go, Replace
<1>3. Depth' = Depth
  BY <1>1, <1>2 DEF Depth
<1>4. \A d \in 1..Depth : stack'[d] = IF d = Depth THEN f ELSE stack[d]
  BY <1>1, <1>2
<1>5. Top' = stack'[Depth]
  BY <1>3 DEF Top
<1> QED
  BY <1>1, <1>3, <1>4, <1>5 DEF Go

\* A function is called: a frame is added, if there is room for it.
LEMMA EnterEffect ==
  ASSUME IInv, status = "run", NEW f \in Frame, NEW callee \in Frame, Enter(f, callee)
  PROVE  \/ status' = "crash"
         \/ /\ Depth' = Depth + 1 /\ Top' = callee /\ status' = "run" /\ ret' = ret
            /\ \A d \in 1..(Depth + 1) :
                 stack'[d] = IF d = Depth THEN f ELSE IF d = Depth + 1 THEN callee
                                                      ELSE stack[d]
<1>1. stack \in Seq(Frame) /\ Depth \in Nat \ {0} /\ Depth = Len(stack)
  BY TopType DEF Depth
<1>2. CASE Depth = MaxDepth
  BY <1>2 DEF Enter, Crash
<1>3. CASE Depth # MaxDepth
  <2> DEFINE s == [stack EXCEPT ![Depth] = f]
  <2>1. stack' = Append(s, callee) /\ ret' = ret /\ status' = "run"
    BY <1>3 DEF Enter, Replace
  <2>2. s \in Seq(Frame) /\ Len(s) = Depth
    BY <1>1
  <2>3. \A d \in 1..Depth : s[d] = IF d = Depth THEN f ELSE stack[d]
    BY <1>1
  <2> HIDE DEF s
  <2>4. /\ Len(stack') = Depth + 1
        /\ \A d \in 1..Depth : stack'[d] = s[d]
        /\ stack'[Depth + 1] = callee
    BY <2>1, <2>2, AppendProperties
  <2>5. Depth' = Depth + 1 /\ Top' = callee
    BY <2>4 DEF Depth, Top
  <2>6. \A d \in 1..(Depth + 1) :
          stack'[d] = IF d = Depth THEN f ELSE IF d = Depth + 1 THEN callee ELSE stack[d]
    BY <1>1, <2>3, <2>4
  <2> QED
    BY <2>1, <2>5, <2>6
<1> QED
  BY <1>2, <1>3

\* A function returns with the stack s: the frame on top goes.
LEMMA LeaveEffect ==
  ASSUME IInv, status = "run", NEW s, SameShape(s), NEW r, LeaveFrom(s, r)
  PROVE  /\ Depth' = Depth - 1 /\ ret' = r
         /\ status' = IF Depth = 1 THEN "done" ELSE "run"
         /\ \A d \in 1..(Depth - 1) : stack'[d] = s[d]
         /\ Depth > 1 => Top' = s[Depth - 1]
<1>1. stack \in Seq(Frame) /\ Depth \in Nat \ {0} /\ Depth = Len(stack)
  BY TopType DEF Depth
<1>2. s \in Seq(Frame) /\ Len(s) = Depth
  BY DEF SameShape
<1>3. stack' = SubSeq(s, 1, Depth - 1) /\ ret' = r
      /\ status' = IF Depth = 1 THEN "done" ELSE "run"
  BY <1>2 DEF LeaveFrom, Pop
<1>4. /\ Len(SubSeq(s, 1, Depth - 1)) = Depth - 1
      /\ \A d \in 1..(Depth - 1) : SubSeq(s, 1, Depth - 1)[d] = s[d]
  BY <1>1, <1>2
<1>5. Depth' = Depth - 1
  BY <1>3, <1>4 DEF Depth
<1>6. Depth > 1 => Top' = s[Depth - 1]
  BY <1>1, <1>3, <1>4, <1>5 DEF Top
<1> QED
  BY <1>3, <1>4, <1>5, <1>6

\* What is written through end_sentinel is one field of one frame.
LEMMA SentinelEffect ==
  ASSUME IInv, status = "run", NEW f \in Frame, NEW walker, NEW v \in Nat
  PROVE  /\ SameShape(Sentinel(stack, f, walker, v))
         /\ \A d \in 1..Depth :
              /\ Alike(Sentinel(stack, f, walker, v)[d], stack[d])
              /\ Sentinel(stack, f, walker, v)[d].rl = stack[d].rl
              /\ Sentinel(stack, f, walker, v)[d].sent =
                   IF f.own = d /\ stack[d].sent < walker THEN v ELSE stack[d].sent
<1>1. stack \in Seq(Frame) /\ Depth \in Nat \ {0} /\ Depth = Len(stack)
  BY TopType DEF Depth
<1>2. SameShape(Sentinel(stack, f, walker, v))
  BY ShapeKept
<1>3. ASSUME NEW d \in 1..Depth
      PROVE  /\ Alike(Sentinel(stack, f, walker, v)[d], stack[d])
             /\ Sentinel(stack, f, walker, v)[d].rl = stack[d].rl
             /\ Sentinel(stack, f, walker, v)[d].sent =
                  IF f.own = d /\ stack[d].sent < walker THEN v ELSE stack[d].sent
  <2>1. stack[d] \in Frame
    BY <1>1
  <2>2. f.own \in Nat
    BY FrameFields
  <2>3. CASE f.own > 0 /\ stack[f.own].sent < walker
    <3>1. Sentinel(stack, f, walker, v) = [stack EXCEPT ![f.own].sent = v]
      BY <2>3 DEF Sentinel
    <3>2. CASE f.own = d
      <4>1. Sentinel(stack, f, walker, v)[d] = [stack[d] EXCEPT !.sent = v]
        BY <1>1, <3>1, <3>2
      <4>2. /\ Alike([stack[d] EXCEPT !.sent = v], stack[d])
            /\ [stack[d] EXCEPT !.sent = v].rl = stack[d].rl
            /\ [stack[d] EXCEPT !.sent = v].sent = v
        BY <2>1 DEF Frame, Alike
      <4> QED
        BY <2>3, <3>2, <4>1, <4>2
    <3>3. CASE f.own # d
      <4>1. Sentinel(stack, f, walker, v)[d] = stack[d]
        BY <1>1, <3>1, <3>3
      <4> QED
        BY <3>3, <4>1 DEF Alike
    <3> QED
      BY <3>2, <3>3
  <2>4. CASE ~(f.own > 0 /\ stack[f.own].sent < walker)
    <3>1. Sentinel(stack, f, walker, v) = stack
      BY <2>4 DEF Sentinel
    <3>2. f.own = d => f.own > 0
      OBVIOUS
    <3> QED
      BY <2>4, <3>1, <3>2 DEF Alike
  <2> QED
    BY <2>3, <2>4
<1> QED
  BY <1>2, <1>3

\* What is written through need_reloop is a flag of the frame below.
LEMMA ReloopEffect ==
  ASSUME IInv, status = "run", NEW cond \in BOOLEAN
  PROVE  /\ SameShape(Reloop(cond))
         /\ \A d \in 1..Depth :
              /\ Alike(Reloop(cond)[d], stack[d])
              /\ Reloop(cond)[d].sent = stack[d].sent
              /\ Reloop(cond)[d].rl = IF cond /\ d = Depth - 1 THEN TRUE ELSE stack[d].rl
<1>1. stack \in Seq(Frame) /\ Depth \in Nat \ {0} /\ Depth = Len(stack)
  BY TopType DEF Depth
<1>2. SameShape(Reloop(cond))
  BY ShapeKept
<1>3. ASSUME NEW d \in 1..Depth
      PROVE  /\ Alike(Reloop(cond)[d], stack[d])
             /\ Reloop(cond)[d].sent = stack[d].sent
             /\ Reloop(cond)[d].rl = IF cond /\ d = Depth - 1 THEN TRUE ELSE stack[d].rl
  <2>1. stack[d] \in Frame
    BY <1>1
  <2>2. CASE cond /\ Depth > 1 /\ d = Depth - 1
    <3> DEFINE g == [stack[d] EXCEPT !.rl = TRUE]
    <3>1. Reloop(cond) = [stack EXCEPT ![d] = g]
      BY <2>2 DEF Reloop
    <3>2. Alike(g, stack[d]) /\ g.rl = TRUE /\ g.sent = stack[d].sent
      BY <2>1 DEF Frame, Alike
    <3> HIDE DEF g
    <3>3. Reloop(cond)[d] = g
      BY <1>1, <3>1
    <3> QED
      BY <2>2, <3>2, <3>3
  <2>3. CASE ~(cond /\ Depth > 1 /\ d = Depth - 1)
    <3>1. Reloop(cond)[d] = stack[d]
      BY <1>1, <2>3 DEF Reloop
    <3>2. ~(cond /\ d = Depth - 1)
      BY <1>1, <2>3
    <3> QED
      BY <3>1, <3>2 DEF Alike
  <2> QED
    BY <2>2, <2>3
<1> QED
  BY <1>2, <1>3

\* A plain return, LeaveAt, and a return that may set need_reloop.
LEMMA ReturnEffect ==
  ASSUME IInv, status = "run", NEW r,
         \/ Leave(r)
         \/ \E walker : \E v \in Nat : LeaveAt(walker, v, r)
         \/ \E cond \in BOOLEAN : LeaveFrom(Reloop(cond), r)
  PROVE  /\ Depth' = Depth - 1 /\ ret' = r
         /\ status' = IF Depth = 1 THEN "done" ELSE "run"
         /\ \A d \in 1..(Depth - 1) : Alike(stack'[d], stack[d])
         /\ Depth > 1 => Top' = stack'[Depth - 1]
<1>1. Depth \in Nat \ {0} /\ Top \in Frame
  BY TopType
<1>2. \E s : /\ SameShape(s) /\ LeaveFrom(s, r)
             /\ \A d \in 1..Depth : Alike(s[d], stack[d])
  <2>1. CASE Leave(r)
    BY <2>1, ShapeKept DEF Leave, Alike
  <2>2. ASSUME NEW walker, NEW v \in Nat, LeaveAt(walker, v, r)
        PROVE  \E s : /\ SameShape(s) /\ LeaveFrom(s, r)
                      /\ \A d \in 1..Depth : Alike(s[d], stack[d])
    BY <1>1, <2>2, SentinelEffect DEF LeaveAt
  <2>3. ASSUME NEW cond \in BOOLEAN, LeaveFrom(Reloop(cond), r)
        PROVE  \E s : /\ SameShape(s) /\ LeaveFrom(s, r)
                      /\ \A d \in 1..Depth : Alike(s[d], stack[d])
    BY <2>3, ReloopEffect
  <2> QED
    BY <2>1, <2>2, <2>3
<1>3. PICK s : /\ SameShape(s) /\ LeaveFrom(s, r)
               /\ \A d \in 1..Depth : Alike(s[d], stack[d])
  BY <1>2
<1>4. /\ Depth' = Depth - 1 /\ ret' = r
      /\ status' = IF Depth = 1 THEN "done" ELSE "run"
      /\ \A d \in 1..(Depth - 1) : stack'[d] = s[d]
      /\ Depth > 1 => Top' = s[Depth - 1]
  BY <1>3, LeaveEffect
<1> QED
  BY <1>1, <1>3, <1>4

--------------------------------------------------------------------------------
(***************************************************************************)
(* Frames as the loops and the getters change them.                        *)
(***************************************************************************)

\* A loop starts, or starts over.
LEMMA StartType ==
  ASSUME IInv, NEW f \in Frame, NEW mode \in Modes
  PROVE  Start(f, mode) \in Frame /\ Start(f, mode).own = f.own
<1> DEFINE n == IF f.tmp \in Nodes THEN Size(heap, f.tmp) ELSE 0
<1>1. n \in Nat
  BY KidsType DEF IInv, TypeOK
<1>2. Start(f, mode) = [f EXCEPT !.mode = mode, !.i = 0, !.rl = FALSE, !.n = n]
  BY DEF Start
<1> HIDE DEF n
<1>0. 0 \in Nat
  OBVIOUS
<1>3. Start(f, mode) \in Frame
  BY <1>0, <1>1, <1>2, Zenon DEF Frame, Modes
<1> QED
  BY <1>2, <1>3 DEF Frame

\* A loop goes on to the next entry.
LEMMA NextEntryType ==
  ASSUME NEW f \in Frame, NEW loop \in Modes
  PROVE  NextEntry(f, loop) \in Frame /\ NextEntry(f, loop).own = f.own
<1>1. f.i + 1 \in Nat
  BY FrameFields
<1>2. [f EXCEPT !.mode = loop, !.i = f.i + 1] \in Frame
  BY <1>1, Zenon DEF Frame, Modes
<1> QED
  BY <1>2 DEF NextEntry, Frame

\* A frame changes its mode, and its walker too.
LEMMA ModeType ==
  ASSUME NEW f \in Frame, NEW mode \in Modes, NEW pc \in Nat
  PROVE  /\ [f EXCEPT !.mode = mode] \in Frame /\ [f EXCEPT !.mode = mode].own = f.own
         /\ [f EXCEPT !.pc = pc] \in Frame /\ [f EXCEPT !.pc = pc].own = f.own
         /\ [f EXCEPT !.mode = mode, !.pc = pc] \in Frame
         /\ [f EXCEPT !.mode = mode, !.pc = pc].own = f.own
<1>1. [f EXCEPT !.mode = mode] \in Frame
  BY Zenon DEF Frame, Modes
<1>2. [f EXCEPT !.pc = pc] \in Frame
  BY Zenon DEF Frame
<1>3. [f EXCEPT !.mode = mode, !.pc = pc] \in Frame
  BY Zenon DEF Frame, Modes
<1> QED
  BY <1>1, <1>2, <1>3 DEF Frame

\* What those frames are, field by field.
LEMMA StartFields ==
  ASSUME NEW f \in Frame, NEW mode
  PROVE  LET g == Start(f, mode) IN
         /\ g.fn = f.fn /\ g.mode = mode /\ g.pc = f.pc /\ g.tmp = f.tmp /\ g.val = f.val
         /\ g.ctx = f.ctx /\ g.inctx = f.inctx /\ g.ci = f.ci /\ g.own = f.own
         /\ g.sent = f.sent /\ g.i = 0 /\ g.end = f.end /\ g.el = f.el /\ g.ow = f.ow
         /\ g.opn = f.opn /\ g.el2 = f.el2 /\ g.cnt = f.cnt /\ g.nb = f.nb /\ g.rl = FALSE
         /\ f.tmp \in Nodes => g.n = Size(heap, f.tmp)
<1> DEFINE n == IF f.tmp \in Nodes THEN Size(heap, f.tmp) ELSE 0
<1>1. Start(f, mode) = [f EXCEPT !.mode = mode, !.i = 0, !.rl = FALSE, !.n = n]
  BY DEF Start
<1>2. f.tmp \in Nodes => n = Size(heap, f.tmp)
  OBVIOUS
<1> HIDE DEF n
<1> QED
  BY <1>1, <1>2 DEF Frame

LEMMA NextEntryFields ==
  ASSUME NEW f \in Frame, NEW loop
  PROVE  LET g == NextEntry(f, loop) IN
         /\ g.fn = f.fn /\ g.mode = loop /\ g.pc = f.pc /\ g.tmp = f.tmp /\ g.val = f.val
         /\ g.ctx = f.ctx /\ g.inctx = f.inctx /\ g.ci = f.ci /\ g.own = f.own
         /\ g.sent = f.sent /\ g.i = f.i + 1 /\ g.n = f.n /\ g.end = f.end /\ g.el = f.el
         /\ g.ow = f.ow /\ g.opn = f.opn /\ g.el2 = f.el2 /\ g.cnt = f.cnt /\ g.nb = f.nb
         /\ g.rl = f.rl
  BY DEF NextEntry, Frame

\* And the frame of a function that has just been called.
LEMMA NewFrameFields ==
  ASSUME NEW pc, NEW v, NEW ctx, NEW ci, NEW own
  PROVE  LET g == NewFrame(pc, v, ctx, ci, own) IN
         /\ g.fn = "internal" /\ g.mode = "inst" /\ g.pc = pc /\ g.tmp = v /\ g.val = v
         /\ g.ctx = ctx /\ g.inctx = ctx /\ g.ci = ci /\ g.own = own /\ g.n = 0
         /\ g.nb = 0 /\ g.rl = FALSE
  BY DEF NewFrame

\* The entry at hand is the one at the index, or stands before it in a range
\* that yyjson walks.
LEMMA EntryAtType ==
  ASSUME NEW f \in Frame
  PROVE  /\ EntryAt(f) \in Nat /\ EntryAt(f) <= f.i
         /\ f.mode # "range" \/ be # "yyjson" \/ f.ow <= 1 => EntryAt(f) = f.i
<1>1. f.i \in Nat /\ f.ow \in Nat
  BY FrameFields
<1> QED
  BY <1>1 DEF EntryAt

\* While there are entries, the one a loop is at has a place in its
\* container, and what is fetched there is a value or BAD.
LEMMA ElementType ==
  ASSUME IInv, NEW f \in Frame, More(f)
  PROVE  /\ f.tmp \in Nodes
         /\ Element(f) \in ValueSet \cup {BAD}
         /\ CurrentInfo(f) \in ChildInfo
<1>1. f.i \in Nat /\ heap \in Heap
  BY FrameFields DEF IInv, TypeOK
<1>2. IsArray(heap, f.tmp) \/ (IsObj(heap, f.tmp) /\ f.i < Size(heap, f.tmp))
  BY <1>1 DEF More
<1>3. f.tmp \in Nodes
  BY <1>2 DEF IsArray, IsObj, IsKind
<1>4. Element(f) \in ValueSet \cup {BAD}
  BY <1>1, <1>3, FetchType, EntryAtType DEF Element
<1>5. CASE IsObj(heap, f.tmp)
  <2>1. f.i < Size(heap, f.tmp)
    BY <1>2, <1>5 DEF IsObj, IsArray, IsKind
  <2>2. heap[f.tmp].kids[f.i + 1] \in Entry
    BY <1>1, <1>3, <2>1, KidsType
  <2>3. heap[f.tmp].kids[f.i + 1].key \in Text
    BY <2>2 DEF Entry
  <2> QED
    BY <1>3, <1>4, <1>5, <2>3, InfoType DEF CurrentInfo
<1>6. CASE ~IsObj(heap, f.tmp)
  BY <1>1, <1>3, <1>4, <1>6, InfoType DEF CurrentInfo
<1> QED
  BY <1>3, <1>4, <1>5, <1>6

\* The recursive call of a loop.
LEMMA VisitControl ==
  ASSUME IInv, status = "run", NEW f \in Frame, f.own = Top.own,
         More(f), Element(f) # BAD, NEW mode \in WaitingModes \ SubpathModes, NEW pc \in Nat,
         Visit(f, mode, pc)
  PROVE  ControlOK'
<1> DEFINE ci == CurrentInfo(f)
           el == Element(f)
           g  == [f EXCEPT !.mode = mode, !.ci = ci, !.rl = FALSE, !.el = el]
           callee == LoopChild(f, el, pc, ci)
<1>1. el \in ValueSet /\ ci \in ChildInfo
  BY ElementType
<1>2. Enter(g, callee)
  BY DEF Visit
<1>3. f.tmp \in ValueSet /\ f.own \in Nat
  BY FrameFields
<1> HIDE DEF ci, el
<1>4. g \in Frame
  BY <1>1, Zenon DEF Frame
<1>5. g.own = f.own /\ g.mode = mode
  BY DEF Frame
<1>6. callee \in Frame /\ callee.own = f.own
  BY <1>1, <1>3, NewFrameType DEF LoopChild
<1> HIDE DEF g, callee
<1> QED
  BY <1>2, <1>4, <1>5, <1>6, EnterControl

\* A loop is over.
LEMMA OutControl ==
  ASSUME IInv, status = "run", NEW f \in Frame, Out(f)
  PROVE  ControlOK'
<1>1. f.pc \in Nat /\ f.nb \in Int
  BY FrameFields
<1>2. /\ None \in Result /\ Count(f.nb) \in Result
      /\ Count(IF call.emptyArray \/ f.nb > 0 THEN 1 ELSE 0) \in Result
  <2>1. (IF call.emptyArray \/ f.nb > 0 THEN 1 ELSE 0) \in Int
    OBVIOUS
  <2> QED
    BY <1>1, <2>1, ResultTypes
<1>3. \/ LeaveAt(f.pc, f.pc, None)
      \/ Leave(Count(IF call.emptyArray \/ f.nb > 0 THEN 1 ELSE 0))
      \/ Leave(Count(f.nb))
  BY DEF Out
<1> QED
  BY <1>1, <1>2, <1>3, ReturnControl

\* nb_res is a number.
LEMMA CountedType ==
  ASSUME NEW f \in Frame, NEW r \in Result
  PROVE  Counted(f, r) \in Int
<1>1. f.nb \in Int /\ r.int \in Int /\ MaxCount \in Int
  BY FrameFields, BoundAssumption DEF Result
<1> QED
  BY <1>1 DEF Counted

\* What a loop does with the result of the call in its body.
LEMMA AfterVisitControl ==
  ASSUME IInv, status = "run", NEW macro, NEW loop \in Modes, NEW next \in Modes,
         AfterVisit(macro, loop, next)
  PROVE  ControlOK'
<1> DEFINE nb  == Counted(Top, ret)
           end == IF macro = "RANGE" /\ Op(Top) = "remove" THEN Top.end - 1 ELSE Top.end
           f   == [Top EXCEPT !.nb = nb, !.end = end]
           v   == Verdict(Top, ret, macro)
<1>1. Top \in Frame /\ ret \in Result
  BY TopType DEF IInv, TypeOK
<1>2. Top.pc \in Nat /\ Top.ow \in Nat /\ Top.end \in Int
  BY <1>1, FrameFields
<1>3. nb \in Int /\ end \in Int
  BY <1>1, <1>2, CountedType
<1>4. \/ v = "leave" /\ LeaveAt(f.pc, IF macro = "FILTER" THEN f.ow ELSE f.pc, ret)
      \/ Go(Start(f, loop))
      \/ Go(NextEntry(f, loop))
      \/ Go([f EXCEPT !.mode = next])
  BY DEF AfterVisit
<1> HIDE DEF nb, end, v
<1>5. f \in Frame
  BY <1>1, <1>3, Zenon DEF Frame
<1>6. f.own = Top.own /\ f.pc = Top.pc /\ f.ow = Top.ow
  BY <1>1 DEF Frame
<1> HIDE DEF f
<1>7. CASE LeaveAt(f.pc, IF macro = "FILTER" THEN f.ow ELSE f.pc, ret)
  <2>1. (IF macro = "FILTER" THEN f.ow ELSE f.pc) \in Nat
    BY <1>2, <1>6
  <2> QED
    BY <1>1, <1>7, <2>1, ReturnControl
<1>8. CASE Go(Start(f, loop))
  BY <1>5, <1>6, <1>8, StartType, GoControl
<1>9. CASE Go(NextEntry(f, loop))
  BY <1>5, <1>6, <1>9, NextEntryType, GoControl
<1>10. CASE Go([f EXCEPT !.mode = next])
  BY <1>2, <1>5, <1>6, <1>10, ModeType, GoControl
<1> QED
  BY <1>4, <1>7, <1>8, <1>9, <1>10

--------------------------------------------------------------------------------
(***************************************************************************)
(* The macros that may write: a document stays a document.                 *)
(***************************************************************************)

\* A document, a frame that belongs to the frame on top, and a verdict.
Attempt(r, f) == r.h \in Heap /\ r.f \in Frame /\ r.f.own = f.own

\* CSONPATH_UPDATE_CHECK_EXIST.
LEMMA CheckExistType ==
  ASSUME IInv, NEW f \in Frame, NEW kind \in Kinds
  PROVE  Attempt(CheckExist(f, kind), f)
<1> DEFINE n == NewNode(heap)
           h == Allocate(heap, kind)
           g == [f EXCEPT !.tmp = n, !.ctx = n]
<1>1. heap \in Heap
  BY DEF IInv, TypeOK
<1>2. CASE CheckExist(f, kind).h = heap /\ CheckExist(f, kind).f = f
  BY <1>1, <1>2 DEF Attempt
<1>3. CASE /\ CanAppend(be, heap, f.ctx, f.ci) /\ FreeNodes(heap) # {}
           /\ CheckExist(f, kind).h = AppendAt(h, f.ctx, f.ci, n, Pinned)
           /\ CheckExist(f, kind).f = g
  <2>1. n \in Nodes /\ h \in Heap /\ n \in ValueSet
    BY <1>1, <1>3, AllocateType DEF ValueSet
  <2>2. f.ctx \in Nodes
    BY <1>3 DEF CanAppend, IsObj, IsArray, IsKind
  <2>3. f.ci \in ChildInfo
    BY FrameFields
  <2> HIDE DEF n, h
  <2>4. AppendAt(h, f.ctx, f.ci, n, Pinned) \in Heap
    BY <2>1, <2>2, <2>3, AppendAtType
  <2>5. g \in Frame
    BY <2>1, Zenon DEF Frame
  <2>6. g.own = f.own
    BY DEF Frame
  <2> HIDE DEF g
  <2> QED
    BY <1>3, <2>4, <2>5, <2>6 DEF Attempt
<1> QED
  BY <1>2, <1>3 DEF CheckExist

\* CSONPATH_PRE_GET.
LEMMA PreGetType ==
  ASSUME IInv, NEW f \in Frame, NEW kind \in Kinds, NEW ci \in ChildInfo
  PROVE  Attempt(PreGet(f, kind, ci), f)
<1> DEFINE g == IF f.tmp # NULL THEN [f EXCEPT !.ctx = f.tmp] ELSE f
           e == CheckExist(g, kind)
           info == InfoSet(heap, g.ctx, ci.key, ci.idx)
<1>1. heap \in Heap
  BY DEF IInv, TypeOK
<1>2. f.tmp \in ValueSet
  BY FrameFields
<1>3. [f EXCEPT !.ctx = f.tmp] \in Frame
  BY <1>2, Zenon DEF Frame
<1>4. g \in Frame /\ g.own = f.own
  BY <1>3 DEF Frame
<1>5. info \in ChildInfo
  <2>1. ci.key \in Text /\ ci.idx \in Int
    BY DEF ChildInfo
  <2> QED
    BY <2>1, InfoType
<1>6. Attempt(e, g)
  BY <1>4, CheckExistType
<1>7. PreGet(f, kind, ci) =
        CASE Op(f) = "callback" -> [ok |-> TRUE, h |-> heap, f |-> [g EXCEPT !.ci = info]]
          [] Op(f) \in CreateOps ->
               IF f.tmp # NULL /\ ~IsKind(heap, f.tmp, kind)
               THEN [ok |-> FALSE, h |-> heap, f |-> g]
               ELSE [e EXCEPT !.f.ci = ci]
          [] OTHER -> [ok |-> TRUE, h |-> heap, f |-> g]
  BY Zenon DEF PreGet
<1>8. DOMAIN e = {"ok", "h", "f"}
  BY DEF CheckExist
<1> HIDE DEF g, e, info
<1>9. ASSUME NEW y \in Frame, NEW x \in ChildInfo
      PROVE  [y EXCEPT !.ci = x] \in Frame /\ [y EXCEPT !.ci = x].own = y.own
  <2>1. [y EXCEPT !.ci = x] \in Frame
    BY Zenon DEF Frame
  <2>2. [y EXCEPT !.ci = x].own = y.own
    BY DEF Frame
  <2> QED
    BY <2>1, <2>2
<1>10. Attempt([ok |-> TRUE, h |-> heap, f |-> [g EXCEPT !.ci = info]], f)
  BY <1>1, <1>4, <1>5, <1>9 DEF Attempt
<1>11. \A ok : Attempt([ok |-> ok, h |-> heap, f |-> g], f)
  BY <1>1, <1>4 DEF Attempt
<1>12. Attempt([e EXCEPT !.f.ci = ci], f)
  <2>1. /\ [e EXCEPT !.f.ci = ci].h = e.h
        /\ [e EXCEPT !.f.ci = ci].f = [e.f EXCEPT !.ci = ci]
    BY <1>8
  <2> QED
    BY <1>4, <1>6, <1>9, <2>1 DEF Attempt
<1> QED
  BY <1>7, <1>10, <1>11, <1>12

\* A getter: GET_OBJ, GET_ARRAY_*, and GET_SUBPATH with its result.
LEMMA GetterOK ==
  ASSUME IInv, status = "run", NEW kind \in Kinds, NEW ci \in ChildInfo, NEW at \in Nat,
         Getter(Top, kind, ci, at)
  PROVE  ControlOK' /\ DataOK'
<1> DEFINE pre == PreGet(Top, kind, ci)
           v   == Refetch(pre.h, pre.f.tmp, ci)
           g   == [pre.f EXCEPT !.tmp = v, !.pc = at + 1, !.mode = "inst"]
<1>1. Top \in Frame /\ heap \in Heap /\ acc \in Seq(Given) /\ exc \in BOOLEAN
  BY TopType DEF IInv, TypeOK
<1>2. CASE Fail /\ UNCHANGED <<heap, acc>>
  BY <1>1, <1>2, FailControl DEF DataOK
<1>3. CASE /\ heap' = pre.h /\ UNCHANGED <<acc, exc>>
           /\ Go(g) \/ Go([g EXCEPT !.mode = "scan"]) \/ Go([g EXCEPT !.ci = ci])
  <2>1. pre.h \in Heap /\ pre.f \in Frame /\ pre.f.own = Top.own
    BY <1>1, PreGetType DEF Attempt
  <2>2. v \in ValueSet
    BY <2>1, RefetchType
  <2>3. at + 1 \in Nat
    OBVIOUS
  <2> HIDE DEF pre, v
  <2>4. g \in Frame
    BY <2>1, <2>2, <2>3, Zenon DEF Frame, ActiveModes
  <2>5. g.own = Top.own
    BY <2>1 DEF Frame
  <2> HIDE DEF g
  <2>6. [g EXCEPT !.ci = ci] \in Frame
    BY <2>4, Zenon DEF Frame
  <2>7. [g EXCEPT !.ci = ci].own = g.own
    BY <2>4 DEF Frame
  <2>8. [g EXCEPT !.mode = "scan"] \in Frame /\ [g EXCEPT !.mode = "scan"].own = g.own
    BY <2>3, <2>4, ModeNames, ModeType
  <2>9. ControlOK'
    BY <1>3, <2>4, <2>5, <2>6, <2>7, <2>8, GoControl
  <2> QED
    BY <1>1, <1>3, <2>1, <2>9 DEF DataOK
<1> QED
  BY <1>2, <1>3 DEF Getter

\* CSONPATH_DO_FIND_ALL_PRE_LOOP, CSONPATH_DO_FILTER_PRE_LOOP.
LEMMA PreLoopOK ==
  ASSUME IInv, status = "run", NEW kind \in Kinds, NEW loop \in Modes,
         PreLoop(Top, kind, loop)
  PROVE  ControlOK' /\ DataOK'
<1> DEFINE e == IF Op(Top) = "update_or_create" THEN CheckExist(Top, kind)
                ELSE [ok |-> TRUE, h |-> heap, f |-> Top]
<1>1. Top \in Frame /\ heap \in Heap /\ acc \in Seq(Given) /\ exc \in BOOLEAN
  BY TopType DEF IInv, TypeOK
<1>2. e.h \in Heap /\ e.f \in Frame /\ e.f.own = Top.own
  BY <1>1, CheckExistType DEF Attempt
<1>3. /\ heap' = e.h /\ acc' = acc
      /\ Fail \/ (Go(Start(e.f, loop)) /\ exc' = exc)
  BY DEF PreLoop
<1> HIDE DEF e
<1>4. CASE Fail
  BY <1>1, <1>2, <1>3, <1>4, FailControl DEF DataOK
<1>5. CASE Go(Start(e.f, loop)) /\ exc' = exc
  <2>1. ControlOK'
    BY <1>2, <1>5, StartType, GoControl
  <2> QED
    BY <1>1, <1>2, <1>3, <1>5, <2>1 DEF DataOK
<1> QED
  BY <1>3, <1>4, <1>5

--------------------------------------------------------------------------------
(***************************************************************************)
(* Filters and unions.                                                     *)
(***************************************************************************)

\* A clause of a filter starts.
LEMMA StartClauseType ==
  ASSUME IInv, NEW f \in Frame, NEW el \in ValueSet, NEW op \in Nat
  PROVE  StartClause(f, el, op) \in Frame /\ StartClause(f, el, op).own = f.own
<1> DEFINE cnt == IF op # f.pc /\ Code(op + 1).num > 127 THEN 0 ELSE Code(op + 1).cnt
           ci  == IF Op(f) = "remove" THEN IdxInfo(f.i) ELSE f.ci
           opn == Code(op).inst
           g   == [f EXCEPT !.mode = "crawl", !.opn = opn, !.ow = op + 2, !.cnt = cnt,
                            !.el = el, !.el2 = el, !.ci = ci]
<1>1. call \in Calls
  BY DEF IInv
<1>2. cnt \in Int
  BY <1>1, CodeType
<1>3. opn \in Opcodes
  BY <1>1, CodeType
<1>4. ci \in ChildInfo
  BY FrameFields, InfoType
<1>5. op + 2 \in Nat
  OBVIOUS
<1>6. StartClause(f, el, op) = g
  BY DEF StartClause
<1> HIDE DEF cnt, ci, opn
<1>7. g \in Frame
  BY <1>2, <1>3, <1>4, <1>5, Zenon DEF Frame, ActiveModes
<1>8. g.own = f.own
  BY DEF Frame
<1> QED
  BY <1>6, <1>7, <1>8

\* The comparison is made.
LEMMA JudgeControl ==
  ASSUME IInv, status = "run", NEW ow \in Nat, NEW match, Judge(ow, match)
  PROVE  ControlOK'
<1> DEFINE f == [Top EXCEPT !.ow = ow, !.mode = "filter_back", !.rl = FALSE]
           callee == LoopChild(f, f.el, ow, IdxInfo(f.i))
<1>1. Top \in Frame
  BY TopType
<1>2. \/ Go(NextEntry(Top, "filter"))
      \/ Go(StartClause(Top, Top.el, ow + 1))
      \/ Enter(f, callee)
  BY DEF Judge
<1>3. CASE Go(NextEntry(Top, "filter"))
  BY <1>1, <1>3, ModeNames, NextEntryType, GoControl
<1>4. CASE Go(StartClause(Top, Top.el, ow + 1))
  <2>1. Top.el \in ValueSet /\ ow + 1 \in Nat
    BY <1>1, FrameFields
  <2> QED
    BY <1>1, <1>4, <2>1, StartClauseType, GoControl
<1>5. CASE Enter(f, callee)
  <2>1. f \in Frame
    BY <1>1, Zenon DEF Frame, WaitingModes
  <2>2. f.own = Top.own /\ f.mode = "filter_back"
    BY <1>1 DEF Frame
  <2> HIDE DEF f
  <2>3. callee \in Frame /\ callee.own = f.own
    <3>1. f.tmp \in ValueSet /\ f.el \in ValueSet /\ f.own \in Nat /\ f.i \in Int
      BY <2>1, FrameFields
    <3>2. IdxInfo(f.i) \in ChildInfo
      BY <3>1, InfoType
    <3> QED
      BY <3>1, <3>2, NewFrameType DEF LoopChild
  <2> HIDE DEF callee
  <2> QED
    BY <1>5, <2>1, <2>2, <2>3, ModeNames, EnterControl
<1> QED
  BY <1>2, <1>3, <1>4, <1>5

\* A sub-path is called: its first frame points at the end_sentinel of the
\* frame on top, which waits for it.
LEMMA SubpathControl ==
  ASSUME IInv, status = "run", NEW mode \in SubpathModes, NEW at \in Nat,
         Enter([Top EXCEPT !.mode = mode, !.sent = at],
               NewFrame(at + 1, call.root, NULL, NoInfo, Depth))
  PROVE  ControlOK'
<1> DEFINE f == [Top EXCEPT !.mode = mode, !.sent = at]
           callee == NewFrame(at + 1, call.root, NULL, NoInfo, Depth)
<1>1. Top \in Frame /\ Depth \in Nat
  BY TopType
<1>2. f \in Frame
  BY <1>1, Zenon DEF Frame, WaitingModes
<1>3. f.own = Top.own /\ f.mode = mode
  BY <1>1 DEF Frame
<1>4. call.root \in ValueSet /\ NULL \in ValueSet
  BY CallAssumption DEF IInv, ValueSet
<1>5. at + 1 \in Nat
  OBVIOUS
<1>6. callee \in Frame /\ callee.own = Depth
  BY <1>1, <1>4, <1>5, InfoType, NewFrameType
<1>7. Enter(f, callee)
  OBVIOUS
<1> HIDE DEF f, callee
<1> QED
  BY <1>2, <1>3, <1>6, <1>7, ModeNames, EnterControl

\* A member of a union is called: its frame has the owner of the union's.
LEMMA MemberControl ==
  ASSUME IInv, status = "run", NEW pc \in Nat, Member(pc)
  PROVE  ControlOK'
<1> DEFINE ci == IF Op(Top) = "remove" THEN Top.ci ELSE InfoSet(heap, Top.tmp, NoKey, 0)
           f  == [Top EXCEPT !.mode = "union", !.pc = pc, !.cnt = 0, !.rl = FALSE]
           callee == NewFrame(pc, Top.tmp, NULL, ci, Top.own)
<1>1. Top \in Frame
  BY TopType
<1>2. Enter(f, callee)
  BY DEF Member
<1>3. ci \in ChildInfo
  <2>1. 0 \in Int /\ NoKey \in Text
    BY DEF Text
  <2>2. InfoSet(heap, Top.tmp, NoKey, 0) \in ChildInfo
    BY <2>1, InfoType
  <2> QED
    BY <1>1, <2>2, FrameFields
<1>4. Top.tmp \in ValueSet /\ Top.own \in Nat /\ NULL \in ValueSet
  BY <1>1, FrameFields DEF ValueSet
<1> HIDE DEF ci
<1>5. callee \in Frame /\ callee.own = Top.own
  BY <1>3, <1>4, NewFrameType
<1>6. 0 \in Int
  OBVIOUS
<1>7. f \in Frame
  BY <1>1, <1>6, Zenon DEF Frame, WaitingModes
<1>8. f.own = Top.own /\ f.mode = "union"
  BY <1>1 DEF Frame
<1> HIDE DEF f, callee
<1> QED
  BY <1>2, <1>5, <1>7, <1>8, ModeNames, EnterControl

--------------------------------------------------------------------------------
(***************************************************************************)
(* One lemma for each group of actions.                                    *)
(***************************************************************************)

\* A step that keeps the call keeps the invariant, if it keeps both halves.
LEMMA ControlStep ==
  ASSUME IInv, ControlOK', DataOK', call' = call
  PROVE  IInv'
  BY TwoHalves

\* Most steps touch the stack only.
LEMMA QuietStep ==
  ASSUME IInv, ControlOK', call' = call, UNCHANGED Data
  PROVE  IInv'
<1>1. DataOK'
  BY TwoHalves DEF Data, DataOK
<1> QED
  BY <1>1, ControlStep

\* What the invariant says of the rest, in a call in progress.
LEMMA RunTypes ==
  ASSUME IInv
  PROVE  /\ heap \in Heap /\ acc \in Seq(Given) /\ exc \in BOOLEAN /\ ret \in Result
         /\ call \in Calls
         /\ call.root \in Nodes /\ call.upd \in Nodes /\ call.extras \in Seq(Nodes)
         /\ call.upd \in ValueSet /\ call.root \in ValueSet /\ NULL \in ValueSet
  BY CallAssumption DEF IInv, TypeOK, ValueSet

\* The end of the path, or an OR.
LEMMA ReturnOK ==
  ASSUME IInv, Return
  PROVE  IInv'
<1>1. CASE ReturnFound
  <2>1. status = "run" /\ call' = call /\ UNCHANGED <<heap, exc>>
    BY <1>1 DEF ReturnFound, At_, In
  <2>2. Top \in Frame /\ Top.pc \in Nat /\ Top.tmp \in ValueSet
    BY <2>1, TopType, FrameFields
  <2>3. CASE LeaveAt(Top.pc, Top.pc, Value(Top.tmp)) /\ UNCHANGED acc
    <3>1. ControlOK'
      BY <2>1, <2>2, <2>3, ResultTypes, ReturnControl
    <3> QED
      BY <2>1, <2>3, <3>1, QuietStep DEF Data
  <2>4. CASE /\ acc' = Append(acc, [ctx |-> NULL, ci |-> NoInfo, v |-> Top.tmp])
             /\ Leave(Count(1))
    <3>1. ControlOK'
      BY <2>1, <2>4, ResultTypes, ReturnControl
    <3>2. [ctx |-> NULL, ci |-> NoInfo, v |-> Top.tmp] \in Given
      BY <2>2, RunTypes, InfoType DEF Given
    <3>3. acc' \in Seq(Given)
      BY <2>4, <3>2, RunTypes, AppendProperties
    <3> QED
      BY <2>1, <3>1, <3>3, RunTypes, ControlStep DEF DataOK
  <2> QED
    BY <1>1, <2>3, <2>4 DEF ReturnFound
<1>2. CASE ReturnRemove
  <2>1. status = "run" /\ call' = call /\ acc' = acc
    BY <1>2 DEF ReturnRemove, At_, In
  <2>2. Top \in Frame /\ Top.ci \in ChildInfo
    BY <2>1, TopType, FrameFields
  <2>3. /\ heap' = heap \/ heap' = RemoveChild(be, heap, Top.ctx, Top.ci, Pinned)
        /\ exc' = exc \/ exc' = TRUE
        /\ \/ \E cond : LeaveFrom(Reloop(cond), None)
           \/ \E cond : LeaveFrom(Reloop(cond), Count(1))
           \/ Crash
    BY <1>2 DEF ReturnRemove
  <2>4. ControlOK'
    BY <2>1, <2>3, ResultTypes, ReturnControl, CrashControl
  <2>5. heap' \in Heap
    BY <2>2, <2>3, RunTypes, RemoveChildType
  <2> QED
    BY <2>1, <2>3, <2>4, <2>5, RunTypes, ControlStep DEF DataOK
<1>3. CASE ReturnUpdate
  <2>1. status = "run" /\ call' = call /\ acc' = acc
    BY <1>3 DEF ReturnUpdate, At_, In
  <2>2. Top \in Frame /\ Top.ci \in ChildInfo
    BY <2>1, TopType, FrameFields
  <2>3. /\ \/ heap' = heap
           \/ /\ CanAppend(be, heap, Top.ctx, Top.ci)
              /\ heap' = AppendAt(heap, Top.ctx, Top.ci, call.upd, Pinned)
        /\ exc' = exc \/ exc' = TRUE
        /\ \/ Leave(None)
           \/ LeaveFrom(Reloop(TRUE), Count(1))
           \/ LeaveFrom(Reloop(TRUE), Count(-1))
    BY <1>3 DEF ReturnUpdate
  <2>4. ControlOK'
    <3>1. SameShape(Reloop(TRUE))
      BY <2>1, ShapeKept, Zenon
    <3>2. Count(1) \in Result /\ Count(-1) \in Result
      BY ResultTypes
    <3>3. CASE Leave(None)
      BY <2>1, <3>3, ResultTypes, ReturnControl
    <3>4. CASE LeaveFrom(Reloop(TRUE), Count(1))
      BY <2>1, <3>1, <3>2, <3>4, LeaveControl, Zenon
    <3>5. CASE LeaveFrom(Reloop(TRUE), Count(-1))
      BY <2>1, <3>1, <3>2, <3>5, LeaveControl, Zenon
    <3> QED
      BY <2>3, <3>3, <3>4, <3>5
  <2>5. CanAppend(be, heap, Top.ctx, Top.ci) => Top.ctx \in Nodes
    BY DEF CanAppend, IsObj, IsArray, IsKind
  <2>6. heap' \in Heap
    BY <2>2, <2>3, <2>5, RunTypes, AppendAtType
  <2> QED
    BY <2>1, <2>3, <2>4, <2>6, RunTypes, ControlStep DEF DataOK
<1>4. CASE ReturnCallback
  <2>1. status = "run" /\ call' = call /\ acc' = Logged(Top)
    BY <1>4 DEF ReturnCallback, At_, In
  <2>2. Top \in Frame /\ Top.ci \in ChildInfo /\ Top.ctx \in ValueSet /\ Top.tmp \in ValueSet
    BY <2>1, TopType, FrameFields
  <2>3. /\ \/ heap' = heap
           \/ /\ CanAppend(be, heap, Top.ctx, Top.ci)
              /\ heap' = AppendAt(heap, Top.ctx, Top.ci, call.upd, Pinned)
        /\ exc' = exc \/ exc' = TRUE
        /\ \/ \E cond : LeaveFrom(Reloop(cond), Count(1))
           \/ \E cond : LeaveFrom(Reloop(cond), Count(-1))
    BY <1>4 DEF ReturnCallback
  <2>4. ControlOK'
    <3>1. Count(1) \in Result /\ Count(-1) \in Result
      BY ResultTypes
    <3> QED
      BY <2>1, <2>3, <3>1, ReturnControl
  <2>5. CanAppend(be, heap, Top.ctx, Top.ci) => Top.ctx \in Nodes
    BY DEF CanAppend, IsObj, IsArray, IsKind
  <2>6. heap' \in Heap
    BY <2>2, <2>3, <2>5, RunTypes, AppendAtType
  <2>7. [ctx |-> Top.ctx, ci |-> Top.ci, v |-> Top.tmp] \in Given
    BY <2>2 DEF Given
  <2>8. acc' \in Seq(Given)
    BY <2>1, <2>7, RunTypes, AppendProperties DEF Logged
  <2> QED
    BY <2>1, <2>3, <2>4, <2>6, <2>8, RunTypes, ControlStep DEF DataOK
<1> QED
  BY <1>1, <1>2, <1>3, <1>4 DEF Return

\* ROOT and SWITCH_ROOT.
LEMMA AtRootType ==
  ASSUME NEW f \in Frame, NEW root \in ValueSet
  PROVE  AtRoot(f, root) \in Frame /\ AtRoot(f, root).own = f.own
<1>1. f.pc + 1 \in Nat /\ NULL \in ValueSet
  BY FrameFields DEF ValueSet
<1>2. [f EXCEPT !.tmp = root, !.val = root, !.ctx = NULL, !.pc = f.pc + 1] \in Frame
  BY <1>1, Zenon DEF Frame
<1> QED
  BY <1>2 DEF AtRoot, Frame

LEMMA RootsOK ==
  ASSUME IInv, Root \/ SwitchRoot
  PROVE  IInv'
<1>1. status = "run" /\ call' = call /\ acc' = acc
  BY DEF Root, SwitchRoot, At_, In
<1>2. Top \in Frame
  BY <1>1, TopType
<1>3. ASSUME NEW root \in ValueSet, Go(AtRoot(Top, root))
      PROVE  ControlOK'
  BY <1>1, <1>2, <1>3, AtRootType, GoControl
<1>4. CASE Root
  <2>1. \/ heap' = SyncRoot /\ Leave(Count(1)) /\ exc' = exc
        \/ Fail /\ heap' = heap
        \/ Go(AtRoot(Top, call.root)) /\ UNCHANGED <<heap, exc>>
    BY <1>4 DEF Root
  <2>2. SyncRoot \in Heap
    <3> DEFINE cleared == [heap EXCEPT ![call.root].kids = <<>>]
    <3>1. <<>> \in Seq(Entry)
      OBVIOUS
    <3>2. cleared \in Heap
      BY <3>1, RunTypes, KidsUpdate
    <3> HIDE DEF cleared
    <3>3. cleared[call.upd].kids \in Seq(Entry)
      BY <3>2, RunTypes, KidsType
    <3>4. [cleared EXCEPT ![call.root].kids = cleared[call.upd].kids] \in Heap
      BY <3>2, <3>3, KidsUpdate
    <3> QED
      BY <3>4 DEF SyncRoot, cleared
  <2>3. ControlOK' /\ heap' \in Heap /\ exc' \in BOOLEAN
    BY <1>1, <1>3, <2>1, <2>2, RunTypes, ResultTypes, ReturnControl, FailControl
  <2> QED
    BY <1>1, <2>3, RunTypes, ControlStep DEF DataOK
<1>5. CASE SwitchRoot
  <2>1. /\ heap' = heap
        /\ \/ /\ Here.num < Len(call.extras)
              /\ Go(AtRoot(Top, call.extras[Here.num + 1])) /\ exc' = exc
           \/ Fail
    BY <1>5 DEF SwitchRoot
  <2>2. Here.num \in Nat
    BY RunTypes, CodeType DEF Here
  <2>3. Here.num < Len(call.extras) => call.extras[Here.num + 1] \in ValueSet
    BY <2>2, RunTypes DEF ValueSet
  <2>4. ControlOK' /\ exc' \in BOOLEAN
    BY <1>1, <1>3, <2>1, <2>3, RunTypes, FailControl
  <2> QED
    BY <1>1, <2>1, <2>4, RunTypes, ControlStep DEF DataOK
<1> QED
  BY <1>4, <1>5

\* The getters, the scan for an OR, the sub-path and the type test.
LEMMA GettingOK ==
  ASSUME IInv, Getting \/ TypeCheck \/ Unimplemented
  PROVE  IInv'
<1>1. status = "run" /\ call' = call
  BY DEF Getting, GetObj, GetArray, ScanForOr, GetSubpath, AfterSubpath, TypeCheck,
         Unimplemented, At_, In
<1>2. Top \in Frame /\ Top.pc \in Nat /\ Top.sent \in Nat
  BY <1>1, TopType, FrameFields
<1>3. Here.key \in Text /\ Here.num \in Nat /\ Here.num \in Int
  BY RunTypes, CodeType DEF Here
<1>4. "obj" \in Kinds /\ "arr" \in Kinds
  BY DEF Kinds
<1>5. CASE GetObj
  <2>1. Getter(Top, "obj", KeyInfo(Here.key), Top.pc)
    BY <1>5 DEF GetObj
  <2> QED
    BY <1>1, <1>2, <1>3, <1>4, <2>1, InfoType, GetterOK, ControlStep
<1>6. CASE GetArray
  <2>1. Getter(Top, "arr", IdxInfo(Here.num), Top.pc)
    BY <1>6 DEF GetArray
  <2> QED
    BY <1>1, <1>2, <1>3, <1>4, <2>1, InfoType, GetterOK, ControlStep
<1>7. CASE ScanForOr
  <2>1. /\ UNCHANGED Data
        /\ \/ Leave(None)
           \/ Go([Top EXCEPT !.mode = "inst", !.pc = Top.pc + 1])
           \/ Crash
           \/ Go([Top EXCEPT !.pc = NextInst(prog, Top.pc)])
    BY <1>7 DEF ScanForOr
  <2>2. Top.pc + 1 \in Nat /\ NextInst(prog, Top.pc) \in Nat
    BY <1>2 DEF NextInst
  <2>3. ControlOK'
    BY <1>1, <1>2, <2>1, <2>2, ModeNames, ModeType, GoControl, ResultTypes, ReturnControl,
       CrashControl
  <2> QED
    BY <1>1, <2>1, <2>3, QuietStep
<1>8. CASE GetSubpath
  <2>1. Enter([Top EXCEPT !.mode = "subpath", !.sent = Top.pc],
              NewFrame(Top.pc + 1, call.root, NULL, NoInfo, Depth))
    BY <1>8 DEF GetSubpath
  <2>2. "subpath" \in SubpathModes
    BY DEF SubpathModes
  <2>3. ControlOK'
    BY <1>1, <1>2, <2>1, <2>2, SubpathControl
  <2> QED
    BY <1>1, <1>8, <2>3, QuietStep DEF GetSubpath
<1>9. CASE AfterSubpath
  <2>1. \/ /\ IsNum(be, heap, ret.val)
           /\ Getter(Top, "arr", IdxInfo(heap[ret.val].num), Top.sent)
        \/ /\ IsStr(heap, ret.val)
           /\ Getter(Top, "obj", KeyInfo(heap[ret.val].str), Top.sent)
        \/ Fail /\ UNCHANGED <<heap, acc>>
    BY <1>9 DEF AfterSubpath
  <2>2. ASSUME ret.val \in Nodes
        PROVE  heap[ret.val].num \in Int /\ heap[ret.val].str \in Text
    BY <2>2, RunTypes DEF Heap, Node
  <2>3. CASE /\ IsNum(be, heap, ret.val)
             /\ Getter(Top, "arr", IdxInfo(heap[ret.val].num), Top.sent)
    <3>1. ret.val \in Nodes
      BY <2>3 DEF IsNum, IsBool, IsKind
    <3>2. IdxInfo(heap[ret.val].num) \in ChildInfo
      BY <2>2, <3>1, InfoType
    <3> QED
      BY <1>1, <1>2, <1>4, <2>3, <3>2, GetterOK, ControlStep
  <2>4. CASE /\ IsStr(heap, ret.val)
             /\ Getter(Top, "obj", KeyInfo(heap[ret.val].str), Top.sent)
    <3>1. ret.val \in Nodes
      BY <2>4 DEF IsStr, IsKind
    <3>2. KeyInfo(heap[ret.val].str) \in ChildInfo
      BY <2>2, <3>1, InfoType
    <3> QED
      BY <1>1, <1>2, <1>4, <2>4, <3>2, GetterOK, ControlStep
  <2>5. CASE Fail /\ UNCHANGED <<heap, acc>>
    BY <1>1, <2>5, RunTypes, FailControl, ControlStep DEF DataOK
  <2> QED
    BY <2>1, <2>3, <2>4, <2>5
<1>10. CASE TypeCheck
  <2>1. /\ UNCHANGED Data
        /\ Go([Top EXCEPT !.pc = Top.pc + 1]) \/ Leave(None)
    BY <1>10 DEF TypeCheck
  <2>2. Top.pc + 1 \in Nat
    BY <1>2
  <2>3. ControlOK'
    BY <1>1, <1>2, <2>1, <2>2, ModeNames, ModeType, GoControl, ResultTypes, ReturnControl
  <2> QED
    BY <1>1, <2>1, <2>3, QuietStep
<1>11. CASE Unimplemented
  <2>1. Fail /\ UNCHANGED <<heap, acc>>
    BY <1>11 DEF Unimplemented
  <2> QED
    BY <1>1, <2>1, RunTypes, FailControl, ControlStep DEF DataOK
<1> QED
  BY <1>5, <1>6, <1>7, <1>8, <1>9, <1>10, <1>11 DEF Getting

\* GET_ALL and RANGE.
LEMMA AllAndRangeOK ==
  ASSUME IInv, \/ GetAll \/ AllElement \/ AllBack
               \/ GetRange \/ RangeElement \/ RangeBack
  PROVE  IInv'
<1>1. status = "run" /\ call' = call
  BY DEF GetAll, AllElement, AllBack, GetRange, RangeElement, RangeBack, PreLoop, At_, In
<1>2. Top \in Frame /\ Top.pc \in Nat /\ Top.pc + 1 \in Nat /\ Top.i \in Nat /\ Top.ow \in Nat
  BY <1>1, TopType, FrameFields
<1>3. CASE GetAll
  <2>1. GuessContainer(Top.pc) \in Kinds
    BY DEF GuessContainer, Kinds
  <2> QED
    BY <1>1, <1>3, <2>1, ModeNames, PreLoopOK, ControlStep DEF GetAll
<1>4. CASE AllElement
  <2>1. /\ UNCHANGED <<heap, acc>>
        /\ exc' = exc \/ exc' = TRUE
        /\ \/ Out(Top)
           \/ More(Top) /\ Element(Top) # BAD /\ Visit(Top, "all_back", Top.pc + 1)
    BY <1>4 DEF AllElement
  <2>2. ControlOK'
    BY <1>1, <1>2, <2>1, ModeNames, OutControl, VisitControl
  <2> QED
    BY <1>1, <2>1, <2>2, RunTypes, ControlStep DEF DataOK
<1>5. CASE AllBack
  <2>1. ControlOK'
    BY <1>1, <1>5, ModeNames, AfterVisitControl DEF AllBack
  <2> QED
    BY <1>1, <1>5, <2>1, QuietStep DEF AllBack
<1>6. CASE GetRange
  <2> DEFINE beg == Code(Top.pc + 1).num
             last == Code(Top.pc + 2).num
             end == IF last = 0 THEN Unbounded ELSE last
             s == Start(Top, "range")
             f == [s EXCEPT !.pc = Top.pc + 3, !.end = end, !.ow = beg]
  <2>1. UNCHANGED Data /\ (Leave(None) \/ Go(f))
    BY <1>6 DEF GetRange
  <2>2. beg \in Nat /\ last \in Nat
    BY RunTypes, CodeType
  <2>3. end \in Int /\ Top.pc + 3 \in Nat
    BY <1>2, <2>2 DEF Unbounded
  <2>4. s \in Frame /\ s.own = Top.own
    BY <1>2, ModeNames, StartType
  <2> HIDE DEF beg, last, end, s
  <2>5. f \in Frame
    BY <2>2, <2>3, <2>4, Zenon DEF Frame
  <2>6. f.own = Top.own
    BY <2>4 DEF Frame
  <2> HIDE DEF f
  <2>7. ControlOK'
    BY <1>1, <2>1, <2>5, <2>6, GoControl, ResultTypes, ReturnControl
  <2> QED
    BY <1>1, <2>1, <2>7, QuietStep
<1>7. CASE RangeElement
  <2> DEFINE i == IF Top.i < Top.ow THEN Top.ow ELSE Top.i
             f == [Top EXCEPT !.i = i]
  <2>1. /\ UNCHANGED Data
        /\ Out(f) \/ Crash \/ (More(f) /\ Element(f) # BAD /\ Visit(f, "range_back", f.pc))
    BY <1>7 DEF RangeElement
  <2>2. i \in Nat
    BY <1>2
  <2> HIDE DEF i
  <2>3. f \in Frame
    BY <1>2, <2>2, Zenon DEF Frame
  <2>4. f.own = Top.own /\ f.pc = Top.pc
    BY <1>2 DEF Frame
  <2> HIDE DEF f
  <2>5. ControlOK'
    BY <1>1, <1>2, <2>1, <2>3, <2>4, ModeNames, OutControl, CrashControl, VisitControl
  <2> QED
    BY <1>1, <2>1, <2>5, QuietStep
<1>8. CASE RangeBack
  <2>1. ControlOK'
    BY <1>1, <1>8, ModeNames, AfterVisitControl DEF RangeBack
  <2> QED
    BY <1>1, <1>8, <2>1, QuietStep DEF RangeBack
<1> QED
  BY <1>3, <1>4, <1>5, <1>6, <1>7, <1>8

\* FIND_ALL and csonpath_<op>_dotdot.
LEMMA DescentOK ==
  ASSUME IInv, FindAll \/ DotElement \/ DotBack \/ Descend \/ DotReturn
  PROVE  IInv'
<1>1. status = "run" /\ call' = call /\ UNCHANGED Data
  BY DEF FindAll, DotElement, DotBack, Descend, DotReturn, At_, In
<1>2. Top \in Frame /\ Top.pc \in Nat /\ Top.pc + 1 \in Nat /\ Top.ci \in ChildInfo
  BY <1>1, TopType, FrameFields
<1>3. SUFFICES ControlOK'
  BY <1>1, QuietStep
<1>4. CASE FindAll
  <2> DEFINE f == [Top EXCEPT !.fn = "dotdot"]
  <2>1. Go(Start(f, "dot")) \/ Leave(None)
    BY <1>4 DEF FindAll
  <2>2. f \in Frame
    BY <1>2, Zenon DEF Frame
  <2>3. f.own = Top.own
    BY <1>2 DEF Frame
  <2> HIDE DEF f
  <2> QED
    BY <1>1, <2>1, <2>2, <2>3, ModeNames, StartType, GoControl, ResultTypes, ReturnControl
<1>5. CASE DotElement
  <2> DEFINE ci == CurrentInfo(Top)
             el == Element(Top)
             f  == [Top EXCEPT !.ci = ci, !.rl = FALSE, !.el = el]
  <2>1. \/ Out(Top)
        \/ Crash
        \/ More(Top) /\ el # BAD /\ Visit(Top, "dot_back", Top.pc + 1)
        \/ More(Top) /\ el # BAD /\ Go([f EXCEPT !.mode = "descend"])
    BY <1>5 DEF DotElement
  <2>2. ASSUME More(Top), el # BAD, Go([f EXCEPT !.mode = "descend"])
        PROVE  ControlOK'
    <3>1. ci \in ChildInfo /\ el \in ValueSet
      BY <1>2, <2>2, ElementType
    <3> HIDE DEF ci, el
    <3>2. f \in Frame
      BY <1>2, <3>1, Zenon DEF Frame
    <3>3. f.own = Top.own
      BY <1>2 DEF Frame
    <3> HIDE DEF f
    <3> QED
      BY <1>1, <1>2, <2>2, <3>2, <3>3, ModeNames, ModeType, GoControl
  <2> QED
    BY <1>1, <1>2, <2>1, <2>2, ModeNames, OutControl, CrashControl, VisitControl
<1>6. CASE DotBack
  BY <1>1, <1>6, ModeNames, AfterVisitControl DEF DotBack
<1>7. CASE Descend
  <2> DEFINE el == IF Op(Top) \in CreateOps THEN Refetch(heap, Top.tmp, Top.ci) ELSE Top.el
             f  == [Top EXCEPT !.el = el]
             child == LoopChild(f, el, f.pc, f.ci)
             callee == Start([child EXCEPT !.fn = "dotdot"], "dot")
             waiting == [f EXCEPT !.mode = "dot_return"]
  <2>1. Crash \/ Enter(waiting, callee) \/ Go(NextEntry(f, "dot"))
    BY <1>7 DEF Descend
  <2>2. el \in ValueSet
    BY <1>2, RunTypes, FrameFields, RefetchType
  <2> HIDE DEF el
  <2>3. f \in Frame
    BY <1>2, <2>2, Zenon DEF Frame
  <2>4. f.own = Top.own
    BY <1>2 DEF Frame
  <2> HIDE DEF f
  <2>5. child \in Frame /\ child.own = f.own
    BY <2>2, <2>3, FrameFields, NewFrameType DEF LoopChild
  <2> HIDE DEF child
  <2>6. [child EXCEPT !.fn = "dotdot"] \in Frame
    BY <2>5, Zenon DEF Frame
  <2>7. [child EXCEPT !.fn = "dotdot"].own = f.own
    BY <2>5 DEF Frame
  <2>8. callee \in Frame /\ callee.own = f.own
    BY <2>6, <2>7, ModeNames, StartType
  <2>9. waiting \in Frame
    BY <2>3, Zenon DEF Frame, WaitingModes
  <2>10. waiting.own = f.own /\ waiting.mode = "dot_return"
    BY <2>3 DEF Frame
  <2> HIDE DEF callee, waiting
  <2> QED
    BY <1>1, <2>1, <2>3, <2>4, <2>8, <2>9, <2>10, ModeNames, CrashControl, EnterControl,
       NextEntryType, GoControl
<1>8. CASE DotReturn
  BY <1>1, <1>8, ModeNames, AfterVisitControl DEF DotReturn
<1> QED
  BY <1>4, <1>5, <1>6, <1>7, <1>8

\* FILTER_KEY_*.
LEMMA FilteringOK ==
  ASSUME IInv, Filtering
  PROVE  IInv'
<1>1. status = "run" /\ call' = call
  BY DEF Filtering, Filter, FilterElement, Crawl, Match, AfterOperand, FilterBack,
         PreLoop, At_, In
<1>2. /\ Top \in Frame /\ Top.pc \in Nat /\ Top.ow \in Nat /\ Top.sent \in Nat
      /\ Top.ow + 1 \in Nat /\ Top.ow + 2 \in Nat /\ Top.sent + 1 \in Nat
  BY <1>1, TopType, FrameFields
<1>3. CASE Filter
  <2>1. "obj" \in Kinds
    BY DEF Kinds
  <2> QED
    BY <1>1, <1>3, <2>1, ModeNames, PreLoopOK, ControlStep DEF Filter
<1>4. CASE FilterElement
  <2>1. /\ UNCHANGED Data
        /\ \/ Out(Top)
           \/ Crash
           \/ /\ IsObj(heap, Element(Top))
              /\ Go(StartClause(Top, Element(Top), Top.pc))
           \/ Go(NextEntry(Top, "filter"))
    BY <1>4 DEF FilterElement
  <2>2. IsObj(heap, Element(Top)) => Element(Top) \in ValueSet
    BY DEF IsObj, IsKind, ValueSet
  <2>3. ControlOK'
    BY <1>1, <1>2, <2>1, <2>2, ModeNames, OutControl, CrashControl, StartClauseType,
       NextEntryType, GoControl
  <2> QED
    BY <1>1, <2>1, <2>3, QuietStep
<1>5. CASE Crawl
  <2> DEFINE v == Get(heap, Top.el2, Code(Top.ow).key)
             f == [Top EXCEPT !.el2 = v, !.ow = Top.ow + 1, !.cnt = Top.cnt - 1]
  <2>1. UNCHANGED Data /\ (Go([Top EXCEPT !.mode = "match"]) \/ Go(f))
    BY <1>5 DEF Crawl
  <2>2. v \in ValueSet /\ Top.cnt - 1 \in Int
    BY <1>2, RunTypes, FrameFields, GetType
  <2> HIDE DEF v
  <2>3. f \in Frame
    BY <1>2, <2>2, Zenon DEF Frame
  <2>4. f.own = Top.own
    BY <1>2 DEF Frame
  <2> HIDE DEF f
  <2>5. ControlOK'
    BY <1>1, <1>2, <2>1, <2>3, <2>4, ModeNames, ModeType, GoControl
  <2> QED
    BY <1>1, <2>1, <2>5, QuietStep
<1>6. CASE Match
  <2>1. /\ UNCHANGED Data
        /\ \/ \E match : Judge(Top.ow, match)
           \/ \E match : Judge(Top.ow + 1, match)
           \/ \E match : Judge(Top.ow + 2, match)
           \/ Crash
           \/ Enter([Top EXCEPT !.mode = "operand", !.sent = Top.ow],
                    NewFrame(Top.ow + 1, call.root, NULL, NoInfo, Depth))
    BY <1>6 DEF Match
  <2>2. "operand" \in SubpathModes
    BY DEF SubpathModes
  <2>3. ControlOK'
    BY <1>1, <1>2, <2>1, <2>2, JudgeControl, CrashControl, SubpathControl
  <2> QED
    BY <1>1, <2>1, <2>3, QuietStep
<1>7. CASE AfterOperand
  <2>1. UNCHANGED Data /\ \E match : Judge(Top.sent + 1, match)
    BY <1>7 DEF AfterOperand
  <2>2. ControlOK'
    BY <1>1, <1>2, <2>1, JudgeControl
  <2> QED
    BY <1>1, <2>1, <2>2, QuietStep
<1>8. CASE FilterBack
  <2>1. ControlOK'
    BY <1>1, <1>8, ModeNames, AfterVisitControl DEF FilterBack
  <2> QED
    BY <1>1, <1>8, <2>1, QuietStep DEF FilterBack
<1> QED
  BY <1>3, <1>4, <1>5, <1>6, <1>7, <1>8 DEF Filtering

\* GET_UNION, UNION_JMP and UNION_END.
LEMMA UnionOK ==
  ASSUME IInv, Union
  PROVE  IInv'
<1>1. status = "run" /\ call' = call /\ UNCHANGED Data
  BY DEF Union, GetUnion, AfterMember, NextMember, UnionJmp, SkipUnion, UnionEnd, At_, In
<1>2. Top \in Frame /\ Top.pc \in Nat /\ Top.pc + 1 \in Nat /\ Top.cnt \in Int
  BY <1>1, TopType, FrameFields
<1>3. SUFFICES ControlOK'
  BY <1>1, QuietStep
<1>4. NextInst(prog, Top.pc) \in Nat /\ NextInst(prog, Top.pc) + 1 \in Nat
  BY <1>2 DEF NextInst
<1>5. ASSUME NEW f \in Frame, f.own = Top.own, NEW cnt \in Int
      PROVE  [f EXCEPT !.cnt = cnt] \in Frame /\ [f EXCEPT !.cnt = cnt].own = Top.own
  <2>1. [f EXCEPT !.cnt = cnt] \in Frame
    BY Zenon DEF Frame
  <2>2. [f EXCEPT !.cnt = cnt].own = f.own
    BY DEF Frame
  <2> QED
    BY <1>5, <2>1, <2>2
<1>6. ASSUME NEW pc \in Nat, NEW cnt \in Int
      PROVE  /\ [Top EXCEPT !.pc = pc, !.cnt = cnt] \in Frame
             /\ [Top EXCEPT !.pc = pc, !.cnt = cnt].own = Top.own
  <2>1. [Top EXCEPT !.pc = pc, !.cnt = cnt] \in Frame
    BY <1>2, Zenon DEF Frame
  <2>2. [Top EXCEPT !.pc = pc, !.cnt = cnt].own = Top.own
    BY <1>2 DEF Frame
  <2> QED
    BY <2>1, <2>2
<1>7. Top.cnt + 1 \in Int /\ Top.cnt - 1 \in Int /\ 0 \in Int
  BY <1>2
<1>8. CASE GetUnion
  BY <1>1, <1>2, <1>8, MemberControl DEF GetUnion
<1>9. CASE AfterMember
  BY <1>1, <1>9, ModeNames, AfterVisitControl DEF AfterMember
<1>10. CASE NextMember
  <2> DEFINE q == NextInst(prog, Top.pc)
             f == [Top EXCEPT !.pc = q]
  <2>1. \/ Crash
        \/ Go([f EXCEPT !.cnt = Top.cnt + 1])
        \/ Member(q + 1)
        \/ Out(f)
        \/ Go([f EXCEPT !.cnt = Top.cnt - 1])
        \/ Go(f)
    BY <1>10 DEF NextMember
  <2>2. f \in Frame /\ f.own = Top.own
    BY <1>2, <1>4, ModeNames, ModeType
  <2> HIDE DEF f
  <2> QED
    BY <1>1, <1>4, <1>5, <1>7, <2>1, <2>2, CrashControl, MemberControl, OutControl, GoControl
<1>11. CASE UnionJmp
  <2> DEFINE f == [Top EXCEPT !.mode = "skip", !.cnt = 0]
  <2>1. Go(f)
    BY <1>11 DEF UnionJmp
  <2>2. f \in Frame
    BY <1>2, <1>7, Zenon DEF Frame, ActiveModes
  <2>3. f.own = Top.own
    BY <1>2 DEF Frame
  <2> HIDE DEF f
  <2> QED
    BY <1>1, <2>1, <2>2, <2>3, GoControl
<1>12. CASE SkipUnion
  <2> DEFINE q == NextInst(prog, Top.pc)
  <2>1. \/ Go([Top EXCEPT !.mode = "inst", !.pc = Top.pc + 1])
        \/ Crash
        \/ Go([Top EXCEPT !.pc = q, !.cnt = Top.cnt + 1])
        \/ Go([Top EXCEPT !.pc = q + 1, !.cnt = Top.cnt - 1])
        \/ Go([Top EXCEPT !.pc = q])
    BY <1>12 DEF SkipUnion
  <2> HIDE DEF q
  <2>2. q \in Nat /\ q + 1 \in Nat
    BY <1>4 DEF q
  <2>3. CASE Go([Top EXCEPT !.mode = "inst", !.pc = Top.pc + 1])
    BY <1>1, <1>2, <2>3, ModeNames, ModeType, GoControl
  <2>4. CASE Go([Top EXCEPT !.pc = q, !.cnt = Top.cnt + 1])
    BY <1>1, <1>6, <1>7, <2>2, <2>4, GoControl
  <2>5. CASE Go([Top EXCEPT !.pc = q + 1, !.cnt = Top.cnt - 1])
    BY <1>1, <1>6, <1>7, <2>2, <2>5, GoControl
  <2>6. CASE Go([Top EXCEPT !.pc = q])
    BY <1>1, <1>2, <2>2, <2>6, ModeNames, ModeType, GoControl
  <2> QED
    BY <1>1, <2>1, <2>3, <2>4, <2>5, <2>6, CrashControl
<1>13. CASE UnionEnd
  <2>1. Go([Top EXCEPT !.pc = Top.pc + 1])
    BY <1>13 DEF UnionEnd
  <2> QED
    BY <1>1, <1>2, <2>1, ModeNames, ModeType, GoControl
<1> QED
  BY <1>8, <1>9, <1>10, <1>11, <1>12, <1>13 DEF Union

--------------------------------------------------------------------------------
(***************************************************************************)
(* The theorems.                                                           *)
(***************************************************************************)

\* Every call starts well.
LEMMA InitIInv == Init => IInv
<1> SUFFICES ASSUME Init PROVE IInv
  OBVIOUS
<1>1. heap \in Heap /\ call \in Calls
  BY CallAssumption DEF Init
<1>2. stack = <<>> /\ Depth = 0 /\ Depth <= MaxDepth
  BY BoundAssumption DEF Init, Depth
<1>3. stack \in Seq(Frame) /\ acc \in Seq(Given)
  BY DEF Init
<1>4. ret \in Result
  BY ResultTypes DEF Init
<1>5. SentinelOwnerWaits /\ SubpathsOnTop /\ NotBegun
  BY <1>2 DEF SentinelOwnerWaits, SubpathsOnTop, NotBegun, Init
<1> QED
  BY <1>1, <1>2, <1>3, <1>4, <1>5 DEF IInv, TypeOK, Init

\* The first frame of the call.
LEMMA BeginOK ==
  ASSUME IInv, Begin
  PROVE  IInv'
<1>1. status = "call" /\ stack = <<>> /\ UNCHANGED <<call, heap, acc>>
  BY DEF Begin, IInv, TypeOK
<1>2. CASE /\ ret' = ErrorOf(call.op) /\ exc' = TRUE /\ status' = "done"
           /\ stack' = stack
  <2>1. ret' \in Result
    BY <1>2, ResultTypes
  <2> QED
    BY <1>1, <1>2, <2>1 DEF IInv, TypeOK, SentinelOwnerWaits, SubpathsOnTop, NotBegun, Depth
<1>3. CASE /\ stack' = <<NewFrame(1, call.root, NULL, NoInfo, 0)>>
           /\ status' = "run" /\ UNCHANGED <<ret, exc>>
  <2> DEFINE f == NewFrame(1, call.root, NULL, NoInfo, 0)
  <2>1. f \in Frame /\ f.own = 0
    <3>1. 0 \in Nat /\ 1 \in Nat
      OBVIOUS
    <3>2. call.root \in ValueSet /\ NULL \in ValueSet /\ NoInfo \in ChildInfo
      BY RunTypes, InfoType
    <3>3. ASSUME NEW pc \in Nat, NEW own \in Nat
          PROVE  /\ NewFrame(pc, call.root, NULL, NoInfo, own) \in Frame
                 /\ NewFrame(pc, call.root, NULL, NoInfo, own).own = own
      BY <3>2, NewFrameType
    <3> QED
      BY <3>1, <3>3, Zenon
  <2>2. stack' = <<f>>
    BY <1>3
  <2> HIDE DEF f
  <2>3. stack' \in Seq(Frame) /\ stack' # <<>> /\ Depth' = 1 /\ DOMAIN stack' = {1}
    BY <2>1, <2>2 DEF Depth
  <2>4. stack'[1].own = 0
    BY <2>1, <2>2
  <2>5. SentinelOwnerWaits' /\ SubpathsOnTop'
    BY <2>3, <2>4 DEF SentinelOwnerWaits, SubpathsOnTop
  <2>6. Depth' <= MaxDepth
    BY <2>3, BoundAssumption
  <2> QED
    BY <1>1, <1>3, <2>3, <2>5, <2>6 DEF IInv, TypeOK, NotBegun
<1> QED
  BY <1>2, <1>3 DEF Begin

\* Nothing changes: the call is over, or the step is a stutter.
LEMMA StutterOK ==
  ASSUME IInv, UNCHANGED vars
  PROVE  IInv'
  BY DEF IInv, TypeOK, SentinelOwnerWaits, SubpathsOnTop, NotBegun, vars, Depth

\* Every other step is one of a call in progress, and keeps the call.
LEMMA Running ==
  ASSUME Next, ~Begin, ~Finished
  PROVE  status = "run" /\ call' = call
  BY DEF Next, Return, ReturnFound, ReturnRemove, ReturnUpdate, ReturnCallback, Root,
         SwitchRoot, TypeCheck, Unimplemented, Getting, GetObj, GetArray, ScanForOr,
         GetSubpath, AfterSubpath, Looping, GetAll, AllElement, AllBack, GetRange,
         RangeElement, RangeBack, FindAll, DotElement, DotBack, Descend, DotReturn,
         Filtering, Filter, FilterElement, Crawl, Match, AfterOperand, FilterBack,
         PreLoop, Union, GetUnion, AfterMember, NextMember, UnionJmp, SkipUnion,
         UnionEnd, At_, In

LEMMA NextIInv == IInv /\ [Next]_vars => IInv'
<1> SUFFICES ASSUME IInv, [Next]_vars PROVE IInv'
  OBVIOUS
<1>1. CASE Begin
  BY <1>1, BeginOK
<1>2. CASE Return
  BY <1>2, ReturnOK
<1>3. CASE Root \/ SwitchRoot
  BY <1>3, RootsOK
<1>4. CASE Getting \/ TypeCheck \/ Unimplemented
  BY <1>4, GettingOK
<1>5. CASE Looping
  BY <1>5, AllAndRangeOK, DescentOK DEF Looping
<1>6. CASE Filtering
  BY <1>6, FilteringOK
<1>7. CASE Union
  BY <1>7, UnionOK
<1>8. CASE Finished \/ UNCHANGED vars
  BY <1>8, StutterOK DEF Finished
<1> QED
  BY <1>1, <1>2, <1>3, <1>4, <1>5, <1>6, <1>7, <1>8 DEF Next

LEMMA Invariance == Spec => []IInv
<1> QED
  BY InitIInv, NextIInv, PTL DEF Spec

\* Whatever the program is, a value is a value wherever it goes: no step puts
\* the null pointer of a foreach past the end into a frame, a result, the
\* document or what a callback is given, and the C stack stays within bounds.
THEOREM TypeCorrect == Spec => []TypeOK
<1>1. IInv => TypeOK
  BY DEF IInv
<1> QED
  BY <1>1, Invariance, PTL

\* Whatever the program is, csonpath_do_internal never writes through an
\* end_sentinel whose owner has returned or waits for something else.
THEOREM SentinelDiscipline == Spec => []SentinelOwnerWaits
<1>1. IInv => SentinelOwnerWaits
  BY DEF IInv
<1> QED
  BY <1>1, Invariance, PTL

--------------------------------------------------------------------------------
(***************************************************************************)
(* Who writes.                                                             *)
(***************************************************************************)

\* A getter of a find leaves the document alone.
LEMMA FindGetter ==
  ASSUME NEW kind, NEW ci, NEW at, Op(Top) \in FindOps, Getter(Top, kind, ci, at)
  PROVE  heap' = heap
<1>1. Op(Top) # "callback" /\ Op(Top) \notin CreateOps
  BY DEF FindOps, CreateOps
<1>2. PreGet(Top, kind, ci).h = heap
  BY <1>1 DEF PreGet
<1> QED
  BY <1>2 DEF Getter

\* So does the start of its loops.
LEMMA FindPreLoop ==
  ASSUME NEW kind, NEW loop, Op(Top) \in FindOps, PreLoop(Top, kind, loop)
  PROVE  heap' = heap
<1>1. Op(Top) # "update_or_create"
  BY DEF FindOps
<1> QED
  BY <1>1 DEF PreLoop

\* And every other step.
LEMMA FindStep ==
  ASSUME Next, Op(Top) \in FindOps
  PROVE  heap' = heap
<1>1. /\ Op(Top) # "remove" /\ Op(Top) # "update_or_create"
      /\ Op(Top) \notin CallbackOps /\ Op(Top) \notin CreateOps
  BY DEF FindOps, CallbackOps, CreateOps
<1>2. CASE Begin \/ Finished
  BY <1>2 DEF Begin, Finished, vars
<1>3. CASE Return
  BY <1>1, <1>3 DEF Return, ReturnFound, ReturnRemove, ReturnUpdate, ReturnCallback
<1>4. CASE Root
  BY <1>1, <1>4 DEF Root
<1>5. CASE SwitchRoot \/ TypeCheck \/ Unimplemented
  BY <1>5 DEF SwitchRoot, TypeCheck, Unimplemented, Data
<1>6. CASE GetObj \/ GetArray
  BY <1>6, FindGetter DEF GetObj, GetArray
<1>7. CASE ScanForOr \/ GetSubpath
  BY <1>7 DEF ScanForOr, GetSubpath, Data
<1>8. CASE AfterSubpath
  BY <1>8, FindGetter DEF AfterSubpath
<1>9. CASE GetAll \/ Filter
  BY <1>9, FindPreLoop DEF GetAll, Filter
<1>10. CASE AllElement \/ AllBack \/ GetRange \/ RangeElement \/ RangeBack
  BY <1>10 DEF AllElement, AllBack, GetRange, RangeElement, RangeBack, Data
<1>11. CASE FindAll \/ DotElement \/ DotBack \/ Descend \/ DotReturn
  BY <1>11 DEF FindAll, DotElement, DotBack, Descend, DotReturn, Data
<1>12. CASE FilterElement \/ Crawl \/ Match \/ AfterOperand \/ FilterBack
  BY <1>12 DEF FilterElement, Crawl, Match, AfterOperand, FilterBack, Data
<1>13. CASE Union
  BY <1>13 DEF Union, GetUnion, AfterMember, NextMember, UnionJmp, SkipUnion, UnionEnd, Data
<1> QED
  BY <1>2, <1>3, <1>4, <1>5, <1>6, <1>7, <1>8, <1>9, <1>10, <1>11, <1>12, <1>13
     DEF Next, Getting, Looping, Filtering

\* Whatever the program is, find_first and find_all leave the document as it
\* is, and so does all that runs under a sub-path of any operation: the
\* operand of a filter cannot remove, create or call back.
THEOREM FindsAreReadOnly == Spec => FindsDoNotWrite
<1> DEFINE Finding == call.op \in FindOps \/ (status = "run" /\ Top.own > 0)
<1>1. Finding => Op(Top) \in FindOps
  BY DEF Op, FindOps
<1>2. [Next]_vars => [Finding => heap' = heap]_vars
  BY <1>1, FindStep DEF vars
<1> QED
  BY <1>2, PTL DEF Spec, FindsDoNotWrite

================================================================================
