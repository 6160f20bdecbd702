-------------------------- MODULE CsonpathPython_proofs --------------------------
(***************************************************************************)
(* Proofs about CsonpathPython, for every set of threads, objects and      *)
(* lists, every depth of nesting, and whatever user code does to an object *)
(* while calls of it are open.                                             *)
(***************************************************************************)
EXTENDS CsonpathPython, SequenceTheorems, TLAPS

\* No two objects own the same compiled path.
OwnPaths ==
  \A o1, o2 \in Objects : cp[o1] # None /\ cp[o1] = cp[o2] => o1 = o2

\* A call that does not walk its object's path walks one that was destroyed.
StaleCalls ==
  \A t \in Threads : \A i \in 1..Depth(t) :
    cp[stack[t][i].obj] # stack[t][i].cp => prog[stack[t][i].cp] = Destroyed

IInv == TypeOK /\ OwnPaths /\ StaleCalls /\ NoUseAfterDestroy /\ LendsAlone

--------------------------------------------------------------------------------
(***************************************************************************)
(* The frames of the stacks.                                               *)
(***************************************************************************)

LEMMA StackType ==
  ASSUME TypeOK, NEW t \in Threads
  PROVE  /\ stack[t] \in Seq(Frame) /\ Depth(t) \in Nat
         /\ \A i \in 1..Depth(t) : stack[t][i] \in Frame
         /\ stack[t] # <<>> => Depth(t) \in 1..Depth(t) /\ Top(t) \in Frame
  BY DEF TypeOK, Depth, Top

LEMMA FrameFields ==
  ASSUME NEW f \in Frame
  PROVE  /\ f.obj \in Objects /\ f.cp \in Progs
         /\ f.pc \in {"walk", "user", "end"} /\ f.failed \in BOOLEAN
         /\ f.own \in Roots /\ f.got \in Roots \cup {Unread}
         /\ f.bad \in {"none", "operand", "handled", "error"}
  BY DEF Frame

\* The frame on top changes.
LEMMA SetFacts ==
  ASSUME TypeOK, NEW t \in Threads, stack[t] # <<>>, NEW f \in Frame, SetTop(t, f)
  PROVE  /\ stack' \in [Threads -> Seq(Frame)]
         /\ \A u \in Threads : Depth(u)' = Depth(u)
         /\ \A u \in Threads : \A i \in 1..Depth(u) :
              stack'[u][i] = IF u = t /\ i = Depth(t) THEN f ELSE stack[u][i]
<1>1. stack \in [Threads -> Seq(Frame)] /\ stack[t] \in Seq(Frame) /\ Depth(t) \in 1..Depth(t)
  BY StackType DEF TypeOK
<1>2. stack' = [stack EXCEPT ![t] = [stack[t] EXCEPT ![Depth(t)] = f]]
  BY DEF SetTop
<1>3. [stack[t] EXCEPT ![Depth(t)] = f] \in Seq(Frame)
      /\ Len([stack[t] EXCEPT ![Depth(t)] = f]) = Depth(t)
  BY <1>1 DEF Depth
<1>4. \A u \in Threads : Depth(u)' = Depth(u)
  BY <1>1, <1>2, <1>3 DEF Depth
<1>5. ASSUME NEW u \in Threads, NEW i \in 1..Depth(u)
      PROVE  stack'[u][i] = IF u = t /\ i = Depth(t) THEN f ELSE stack[u][i]
  BY <1>1, <1>2, <1>5 DEF Depth
<1> QED
  BY <1>1, <1>2, <1>3, <1>4, <1>5

\* A call is pushed.
LEMMA PushFacts ==
  ASSUME TypeOK, NEW t \in Threads, NEW f \in Frame,
         stack' = [stack EXCEPT ![t] = Append(@, f)]
  PROVE  /\ stack' \in [Threads -> Seq(Frame)]
         /\ \A u \in Threads : Depth(u)' = IF u = t THEN Depth(t) + 1 ELSE Depth(u)
         /\ stack'[t][Depth(t) + 1] = f
         /\ \A u \in Threads : \A i \in 1..Depth(u) : stack'[u][i] = stack[u][i]
<1>1. stack \in [Threads -> Seq(Frame)] /\ stack[t] \in Seq(Frame)
  BY DEF TypeOK
<1>2. /\ Append(stack[t], f) \in Seq(Frame) /\ Len(Append(stack[t], f)) = Depth(t) + 1
      /\ Append(stack[t], f)[Depth(t) + 1] = f
      /\ \A i \in 1..Depth(t) : Append(stack[t], f)[i] = stack[t][i]
  BY <1>1, AppendProperties DEF Depth
<1> QED
  BY <1>1, <1>2 DEF Depth

\* A call is popped.
LEMMA PopFacts ==
  ASSUME TypeOK, NEW t \in Threads, stack[t] # <<>>,
         stack' = [stack EXCEPT ![t] = SubSeq(@, 1, Len(@) - 1)]
  PROVE  /\ stack' \in [Threads -> Seq(Frame)]
         /\ \A u \in Threads : Depth(u)' = IF u = t THEN Depth(t) - 1 ELSE Depth(u)
         /\ \A u \in Threads : \A i \in 1..Depth(u)' : stack'[u][i] = stack[u][i]
<1>1. /\ stack \in [Threads -> Seq(Frame)] /\ stack[t] \in Seq(Frame)
      /\ Depth(t) \in Nat \ {0} /\ Depth(t) = Len(stack[t])
  BY StackType DEF TypeOK, Depth
<1>2. /\ SubSeq(stack[t], 1, Depth(t) - 1) \in Seq(Frame)
      /\ Len(SubSeq(stack[t], 1, Depth(t) - 1)) = Depth(t) - 1
      /\ \A i \in 1..(Depth(t) - 1) : SubSeq(stack[t], 1, Depth(t) - 1)[i] = stack[t][i]
  <2>1. \A i \in 1..(Depth(t) - 1) : stack[t][i] \in Frame
    BY <1>1, StackType
  <2> QED
    BY <1>1, <2>1, SubSeqProperties
<1>3. stack' = [stack EXCEPT ![t] = SubSeq(stack[t], 1, Depth(t) - 1)]
  BY DEF Depth
<1>4. \A u \in Threads : Depth(u)' = IF u = t THEN Depth(t) - 1 ELSE Depth(u)
  BY <1>1, <1>2, <1>3 DEF Depth
<1>5. \A u \in Threads : \A i \in 1..Depth(u)' : stack'[u][i] = stack[u][i]
  BY <1>1, <1>2, <1>3, <1>4
<1> QED
  BY <1>1, <1>2, <1>3, <1>4, <1>5

--------------------------------------------------------------------------------
(***************************************************************************)
(* What is known of an open call and of the path of an object.             *)
(***************************************************************************)

LEMMA OpenCall ==
  ASSUME IInv, NEW t \in Threads, NEW i \in 1..Depth(t)
  PROVE  LET f == stack[t][i] IN
         /\ f \in Frame /\ f.obj \in Objects /\ f.cp \in Progs /\ f.own \in Roots
         /\ cp[f.obj] # None /\ cp[f.obj] \in Progs
         /\ f.obj \notin replaced => cp[f.obj] = f.cp
         /\ cp[f.obj] # f.cp => prog[f.cp] = Destroyed
<1>1. stack[t][i] \in Frame
  BY StackType DEF IInv
<1>2. /\ stack[t][i].obj \in Objects /\ stack[t][i].cp \in Progs
      /\ stack[t][i].own \in Roots
  BY <1>1, FrameFields
<1>3. /\ cp[stack[t][i].obj] # None
      /\ stack[t][i].obj \notin replaced => cp[stack[t][i].obj] = stack[t][i].cp
  BY DEF IInv, NoUseAfterDestroy
<1>4. cp[stack[t][i].obj] \in Progs
  BY <1>2, <1>3 DEF IInv, TypeOK
<1>5. cp[stack[t][i].obj] # stack[t][i].cp => prog[stack[t][i].cp] = Destroyed
  BY DEF IInv, StaleCalls
<1> QED
  BY <1>1, <1>2, <1>3, <1>4, <1>5

LEMMA TopCall ==
  ASSUME IInv, NEW t \in Threads, stack[t] # <<>>
  PROVE  /\ Depth(t) \in 1..Depth(t) /\ Top(t) = stack[t][Depth(t)] /\ Top(t) \in Frame
         /\ Top(t).obj \in Objects /\ Top(t).cp \in Progs
         /\ Top(t).own \in Roots /\ Top(t).got \in Roots \cup {Unread}
         /\ cp[Top(t).obj] # None /\ cp[Top(t).obj] \in Progs
         /\ Top(t).obj \notin replaced => cp[Top(t).obj] = Top(t).cp
         /\ cp[Top(t).obj] # Top(t).cp => prog[Top(t).cp] = Destroyed
         /\ prog[Top(t).cp].roots \in Roots
<1>1. Depth(t) \in 1..Depth(t) /\ Top(t) = stack[t][Depth(t)] /\ Top(t) \in Frame
  BY StackType DEF IInv, Top
<1>2. /\ Top(t).obj \in Objects /\ Top(t).cp \in Progs
      /\ Top(t).own \in Roots /\ Top(t).got \in Roots \cup {Unread}
  BY <1>1, FrameFields
<1>3. /\ cp[Top(t).obj] # None /\ cp[Top(t).obj] \in Progs
      /\ Top(t).obj \notin replaced => cp[Top(t).obj] = Top(t).cp
      /\ cp[Top(t).obj] # Top(t).cp => prog[Top(t).cp] = Destroyed
  BY <1>1, OpenCall
<1>4. prog[Top(t).cp].roots \in Roots
  BY <1>2 DEF IInv, TypeOK, Prog
<1> QED
  BY <1>1, <1>2, <1>3, <1>4

LEMMA OpenOwns ==
  ASSUME IInv, NEW o \in Objects, Open(o)
  PROVE  cp[o] # None /\ cp[o] \in Progs
<1>1. PICK t \in Threads : \E i \in 1..Depth(t) : stack[t][i].obj = o
  BY DEF Open
<1> QED
  BY <1>1, OpenCall

LEMMA PathOf ==
  ASSUME IInv, NEW o \in Objects, cp[o] # None
  PROVE  /\ cp[o] \in Progs /\ prog[cp[o]] \in Prog /\ prog[cp[o]].live
         /\ prog[cp[o]].roots \in Roots
         /\ \A q \in Objects : cp[q] = cp[o] => q = o
<1>1. cp[o] \in Progs /\ prog[cp[o]] \in Prog /\ prog[cp[o]].live
  BY DEF IInv, TypeOK, NoUseAfterDestroy
<1> QED
  BY <1>1 DEF IInv, OwnPaths, Prog

--------------------------------------------------------------------------------
(***************************************************************************)
(* Steps that change nothing of which calls there are.                     *)
(***************************************************************************)

LEMMA SameCalls ==
  ASSUME IInv, stack' \in [Threads -> Seq(Frame)],
         \A u \in Threads : Depth(u)' = Depth(u),
         \A u \in Threads : \A i \in 1..Depth(u) :
           /\ stack'[u][i].obj = stack[u][i].obj /\ stack'[u][i].cp = stack[u][i].cp
           /\ stack'[u][i].own = stack[u][i].own,
         gil' \in Threads, err' \in [Threads -> BOOLEAN], fault' \subseteq replaced,
         UNCHANGED <<cp, prog, held, replaced, crossed>>
  PROVE  IInv'
<1>1. TypeOK'
  BY DEF IInv, TypeOK
<1>2. OwnPaths' /\ StaleCalls'
  <2>1. OwnPaths'
    BY DEF IInv, OwnPaths
  <2>2. ASSUME NEW u \in Threads, NEW i \in 1..Depth(u)',
               cp'[stack'[u][i].obj] # stack'[u][i].cp
        PROVE  prog'[stack'[u][i].cp] = Destroyed
    BY <2>2, OpenCall
  <2> QED
    BY <2>1, <2>2 DEF StaleCalls, Destroyed
<1>3. NoUseAfterDestroy'
  <2>1. \A o \in Objects : cp'[o] # None => prog'[cp'[o]].live
    BY DEF IInv, NoUseAfterDestroy
  <2>2. ASSUME NEW u \in Threads, NEW i \in 1..Depth(u)'
        PROVE  /\ cp'[stack'[u][i].obj] # None
               /\ stack'[u][i].obj \notin replaced' =>
                    cp'[stack'[u][i].obj] = stack'[u][i].cp
    BY OpenCall
  <2> QED
    BY <2>1, <2>2 DEF NoUseAfterDestroy
<1>4. \A o \in Objects : (Open(o) => Open(o)') /\ (Lending(o) => Lending(o)')
  <2> SUFFICES ASSUME NEW o \in Objects
               PROVE  (Open(o) => Open(o)') /\ (Lending(o) => Lending(o)')
    OBVIOUS
  <2>1. ASSUME Open(o) PROVE Open(o)'
    <3>1. PICK u \in Threads : \E i \in 1..Depth(u) : stack[u][i].obj = o
      BY <2>1 DEF Open
    <3>2. PICK i \in 1..Depth(u) : stack[u][i].obj = o
      BY <3>1
    <3>3. i \in 1..Depth(u)' /\ stack'[u][i].obj = o
      BY <3>2
    <3> QED
      BY <3>3 DEF Open
  <2>2. ASSUME Lending(o) PROVE Lending(o)'
    <3>1. PICK u \in Threads : \E i \in 1..Depth(u) :
                 stack[u][i].obj = o /\ stack[u][i].own # None
      BY <2>2 DEF Lending
    <3>2. PICK i \in 1..Depth(u) : stack[u][i].obj = o /\ stack[u][i].own # None
      BY <3>1
    <3>3. i \in 1..Depth(u)' /\ stack'[u][i].obj = o /\ stack'[u][i].own # None
      BY <3>2
    <3> QED
      BY <3>3 DEF Lending
  <2> QED
    BY <2>1, <2>2
<1>5. \A o : Sound(o)' <=> Sound(o)
  BY DEF Sound
<1>6. ASSUME NEW u \in Threads, NEW i \in 1..Depth(u)', Sound(stack[u][i].obj)',
             stack'[u][i].own # None
      PROVE  /\ prog'[stack'[u][i].cp].roots = stack'[u][i].own
             /\ \A v \in Threads : \A j \in 1..Depth(v)' :
                  stack'[v][j].obj = stack'[u][i].obj => v = u /\ j <= i
  <2>1. /\ i \in 1..Depth(u) /\ stack'[u][i].obj = stack[u][i].obj
        /\ stack'[u][i].cp = stack[u][i].cp /\ stack'[u][i].own = stack[u][i].own
    OBVIOUS
  <2>2. Sound(stack[u][i].obj) /\ stack[u][i].own # None
    BY <1>6, <2>1 DEF Sound
  <2>3. /\ prog[stack[u][i].cp].roots = stack[u][i].own
        /\ \A v \in Threads : \A j \in 1..Depth(v) :
             stack[v][j].obj = stack[u][i].obj => v = u /\ j <= i
    BY <2>1, <2>2 DEF IInv, LendsAlone
  <2> QED
    BY <2>1, <2>3
<1>7. LendsAlone'
  <2>1. \A o \in Objects : cp'[o] # None /\ prog'[cp'[o]].roots # None =>
          Open(o)' /\ (Sound(o)' => Lending(o)')
    BY <1>4, <1>5 DEF IInv, LendsAlone
  <2>2. \A p \in Progs : prog'[p].roots # None =>
          prog'[p].roots \in held' /\ \A q \in Progs : prog'[q].roots = prog'[p].roots => q = p
    BY DEF IInv, LendsAlone
  <2> QED
    BY <1>6, <2>1, <2>2 DEF LendsAlone
<1> QED
  BY <1>1, <1>2, <1>3, <1>7 DEF IInv

\* The frame on top changes.
LEMMA KeepsCalls ==
  ASSUME IInv, NEW t \in Threads, stack[t] # <<>>, NEW f \in Frame, SetTop(t, f),
         f.obj = Top(t).obj, f.cp = Top(t).cp, f.own = Top(t).own,
         UNCHANGED <<gil, cp, prog, held, replaced, crossed>>,
         err' \in [Threads -> BOOLEAN], fault' \subseteq replaced
  PROVE  IInv'
<1>1. /\ stack' \in [Threads -> Seq(Frame)]
      /\ \A u \in Threads : Depth(u)' = Depth(u)
      /\ \A u \in Threads : \A i \in 1..Depth(u) :
           stack'[u][i] = IF u = t /\ i = Depth(t) THEN f ELSE stack[u][i]
  BY SetFacts DEF IInv
<1>2. \A u \in Threads : \A i \in 1..Depth(u) :
        /\ stack'[u][i].obj = stack[u][i].obj /\ stack'[u][i].cp = stack[u][i].cp
        /\ stack'[u][i].own = stack[u][i].own
  <2> SUFFICES ASSUME NEW u \in Threads, NEW i \in 1..Depth(u)
               PROVE  /\ stack'[u][i].obj = stack[u][i].obj
                      /\ stack'[u][i].cp = stack[u][i].cp
                      /\ stack'[u][i].own = stack[u][i].own
    OBVIOUS
  <2>1. CASE u = t /\ i = Depth(t)
    BY <1>1, <2>1, TopCall
  <2>2. CASE ~(u = t /\ i = Depth(t))
    BY <1>1, <2>2
  <2> QED
    BY <2>1, <2>2
<1>3. gil' \in Threads
  BY DEF IInv, TypeOK
<1> QED
  BY <1>1, <1>2, <1>3, SameCalls

\* A walk finds its path destroyed only if its object was given a new one.
LEMMA TouchFault ==
  ASSUME IInv, NEW t \in Threads, stack[t] # <<>>, NEW f, f.obj = Top(t).obj,
         f.cp = Top(t).cp, Touch(f) \/ UNCHANGED fault
  PROVE  fault' \subseteq replaced
<1>1. fault \subseteq replaced
  BY DEF IInv, NoUseAfterDestroy
<1>2. ~prog[f.cp].live => f.obj \in replaced
  BY TopCall, PathOf
<1> QED
  BY <1>1, <1>2 DEF Touch

LEMMA ReadRootsStep ==
  ASSUME IInv, NEW t \in Threads, ReadRoots(t)
  PROVE  IInv'
<1> DEFINE f1 == [Top(t) EXCEPT !.got = prog[Top(t).cp].roots]
           f2 == [f1 EXCEPT !.pc = "end", !.failed = TRUE, !.bad = "error"]
           f3 == [f1 EXCEPT !.bad = "operand"]
<1>1. stack[t] # <<>> /\ Touch(f1)
  BY DEF ReadRoots, At
<1>2. Top(t) \in Frame /\ prog[Top(t).cp].roots \in Roots
  BY <1>1, TopCall
<1>3. \A f \in {f1, f2, f3} :
        /\ f \in Frame
        /\ f.obj = Top(t).obj /\ f.cp = Top(t).cp /\ f.own = Top(t).own
  BY <1>2 DEF Frame
<1>4. SetTop(t, f1) \/ SetTop(t, f2) \/ SetTop(t, f3)
  BY DEF ReadRoots
<1>5. PICK f \in Frame : /\ SetTop(t, f) /\ f.obj = Top(t).obj /\ f.cp = Top(t).cp
                         /\ f.own = Top(t).own
  BY <1>3, <1>4
<1>6. fault' \subseteq replaced
  BY <1>1, <1>3, TouchFault
<1>7. err' \in [Threads -> BOOLEAN] /\ UNCHANGED <<gil, cp, prog, held, replaced, crossed>>
  BY DEF ReadRoots, IInv, TypeOK
<1> QED
  BY <1>1, <1>5, <1>6, <1>7, KeepsCalls

LEMMA CallUserStep ==
  ASSUME IInv, NEW t \in Threads, CallUser(t)
  PROVE  IInv'
<1> DEFINE f == [Top(t) EXCEPT !.pc = "user", !.got = Unread]
<1>1. stack[t] # <<>> /\ fault' \subseteq replaced
  BY TouchFault DEF CallUser, At
<1>2. f \in Frame /\ f.obj = Top(t).obj /\ f.cp = Top(t).cp /\ f.own = Top(t).own
  BY <1>1, TopCall DEF Frame
<1>3. /\ SetTop(t, f) /\ err' \in [Threads -> BOOLEAN]
      /\ UNCHANGED <<gil, cp, prog, held, replaced, crossed>>
  BY DEF CallUser, IInv, TypeOK
<1> QED
  BY <1>1, <1>2, <1>3, KeepsCalls

LEMMA WalkEndsStep ==
  ASSUME IInv, NEW t \in Threads, WalkEnds(t)
  PROVE  IInv'
<1> DEFINE f == [Top(t) EXCEPT !.pc = "end"]
<1>1. stack[t] # <<>> /\ fault' \subseteq replaced
  BY TouchFault DEF WalkEnds, At
<1>2. f \in Frame /\ f.obj = Top(t).obj /\ f.cp = Top(t).cp /\ f.own = Top(t).own
  BY <1>1, TopCall DEF Frame
<1>3. /\ SetTop(t, f) /\ err' \in [Threads -> BOOLEAN]
      /\ UNCHANGED <<gil, cp, prog, held, replaced, crossed>>
  BY DEF WalkEnds, IInv, TypeOK
<1> QED
  BY <1>1, <1>2, <1>3, KeepsCalls

LEMMA CallbackStep ==
  ASSUME IInv, NEW t \in Threads, CallbackRaises(t) \/ CallbackReturns(t)
  PROVE  IInv'
<1> DEFINE f1 == [Top(t) EXCEPT !.pc = "end", !.failed = TRUE, !.bad = "error"]
           f2 == [Top(t) EXCEPT !.pc = "walk"]
<1>1. stack[t] # <<>> /\ fault' \subseteq replaced
  BY DEF CallbackRaises, CallbackReturns, At, IInv, NoUseAfterDestroy
<1>2. \A f \in {f1, f2} :
        /\ f \in Frame
        /\ f.obj = Top(t).obj /\ f.cp = Top(t).cp /\ f.own = Top(t).own
  BY <1>1, TopCall DEF Frame
<1>3. /\ SetTop(t, f1) \/ SetTop(t, f2)
      /\ err' \in [Threads -> BOOLEAN]
      /\ UNCHANGED <<gil, cp, prog, held, replaced, crossed>>
  BY DEF CallbackRaises, CallbackReturns, IInv, TypeOK
<1> QED
  BY <1>1, <1>2, <1>3, KeepsCalls

\* Handling an exception changes what is known of the errors of the open calls.
LEMMA CatchFacts ==
  ASSUME TypeOK, NEW t \in Threads, Catch(t)
  PROVE  /\ stack' \in [Threads -> Seq(Frame)]
         /\ \A u \in Threads : Depth(u)' = Depth(u)
         /\ \A u \in Threads : \A i \in 1..Depth(u) :
              stack'[u][i] = IF u = t THEN Handled(stack[u][i]) ELSE stack[u][i]
<1> DEFINE new == [i \in 1..Depth(t) |-> Handled(stack[t][i])]
<1>1. stack' = [stack EXCEPT ![t] = new] /\ stack \in [Threads -> Seq(Frame)]
  BY DEF Catch, TypeOK
<1>2. \A i \in 1..Depth(t) : Handled(stack[t][i]) \in Frame
  BY StackType DEF Handled, Frame
<1>3. Depth(t) \in Nat
  BY StackType
<1>4. new \in Seq(Frame) /\ Len(new) = Depth(t)
  BY <1>2, <1>3
<1>5. \A u \in Threads : Depth(u)' = Depth(u)
  BY <1>1, <1>4 DEF Depth
<1> QED
  BY <1>1, <1>4, <1>5

\* Steps that leave calls and paths alone.
LEMMA IdleStep ==
  ASSUME IInv, NEW t \in Threads,
         \/ UNCHANGED vars
         \/ \E u \in Threads : Switch(t, u)
         \/ UNCHANGED <<gil, stack, cp, prog, held, fault, replaced, crossed>>
               /\ err' = [err EXCEPT ![t] = TRUE]
  PROVE  IInv'
<1>1. UNCHANGED <<stack, cp, prog, held, fault, replaced, crossed>>
  BY DEF vars, Switch
<1>2. gil' \in Threads /\ err' \in [Threads -> BOOLEAN] /\ fault' \subseteq replaced
  BY DEF IInv, TypeOK, NoUseAfterDestroy, vars, Switch
<1>3. stack' \in [Threads -> Seq(Frame)] /\ \A u \in Threads : Depth(u)' = Depth(u)
  BY <1>1 DEF IInv, TypeOK, Depth
<1> QED
  BY <1>1, <1>2, <1>3, SameCalls

LEMMA CatchStep ==
  ASSUME IInv, NEW t \in Threads, Catch(t)
  PROVE  IInv'
<1>1. /\ stack' \in [Threads -> Seq(Frame)]
      /\ \A u \in Threads : Depth(u)' = Depth(u)
      /\ \A u \in Threads : \A i \in 1..Depth(u) :
           stack'[u][i] = IF u = t THEN Handled(stack[u][i]) ELSE stack[u][i]
  BY CatchFacts DEF IInv
<1>2. \A u \in Threads : \A i \in 1..Depth(u) :
        /\ stack'[u][i].obj = stack[u][i].obj /\ stack'[u][i].cp = stack[u][i].cp
        /\ stack'[u][i].own = stack[u][i].own
  <2>1. ASSUME NEW f \in Frame
        PROVE  /\ Handled(f).obj = f.obj /\ Handled(f).cp = f.cp
               /\ Handled(f).own = f.own
    BY DEF Handled, Frame
  <2> QED
    BY <1>1, <2>1, OpenCall
<1>3. /\ gil' \in Threads /\ err' \in [Threads -> BOOLEAN] /\ fault' \subseteq replaced
      /\ UNCHANGED <<cp, prog, held, replaced, crossed>>
  BY DEF Catch, IInv, TypeOK, NoUseAfterDestroy
<1> QED
  BY <1>1, <1>2, <1>3, SameCalls

--------------------------------------------------------------------------------
(***************************************************************************)
(* Steps that make and destroy compiled paths.  An object with an open     *)
(* call keeps its path, unless replaced says otherwise.                    *)
(***************************************************************************)

LEMMA PathsStep ==
  ASSUME IInv, UNCHANGED <<gil, stack, held, fault, crossed>>,
         cp' \in [Objects -> Progs \cup {None}], prog' \in [Progs -> Prog],
         err' \in [Threads -> BOOLEAN], OwnPaths',
         replaced \subseteq replaced', replaced' \subseteq Objects,
         \A o \in Objects : cp'[o] # None => prog'[cp'[o]].live,
         \A o \in Objects : Open(o) => cp'[o] # None,
         \A o \in Objects : Open(o) /\ o \notin replaced' =>
           cp'[o] = cp[o] /\ prog'[cp[o]] = prog[cp[o]],
         \A o \in Objects : cp'[o] # None /\ prog'[cp'[o]].roots # None =>
           cp'[o] = cp[o] /\ prog'[cp[o]] = prog[cp[o]],
         \A p \in Progs : prog'[p].roots \in {None, prog[p].roots},
         \A t \in Threads : \A i \in 1..Depth(t) :
           cp'[stack[t][i].obj] # stack[t][i].cp => prog'[stack[t][i].cp] = Destroyed
  PROVE  IInv'
<1>1. /\ TypeOK' /\ \A u \in Threads : Depth(u)' = Depth(u)
      /\ \A o : (Open(o)' <=> Open(o)) /\ (Lending(o)' <=> Lending(o))
      /\ \A o : Sound(o)' => Sound(o)
  BY DEF IInv, TypeOK, Depth, Open, Lending, Sound
<1>2. StaleCalls'
  BY <1>1 DEF StaleCalls, Destroyed
<1>3. \A u \in Threads : \A i \in 1..Depth(u) :
        stack[u][i].obj \in Objects /\ Open(stack[u][i].obj)
  BY OpenCall DEF Open
<1>4. NoUseAfterDestroy'
  <2>1. fault' \subseteq replaced'
    BY DEF IInv, NoUseAfterDestroy
  <2>2. ASSUME NEW u \in Threads, NEW i \in 1..Depth(u)'
        PROVE  /\ cp'[stack'[u][i].obj] # None
               /\ stack'[u][i].obj \notin replaced' =>
                    cp'[stack'[u][i].obj] = stack'[u][i].cp
    <3>1. i \in 1..Depth(u) /\ stack'[u][i] = stack[u][i]
      BY <1>1
    <3>2. stack[u][i].obj \notin replaced => cp[stack[u][i].obj] = stack[u][i].cp
      BY <3>1, OpenCall
    <3> QED
      BY <1>3, <3>1, <3>2
  <2> QED
    BY <2>1, <2>2 DEF NoUseAfterDestroy
<1>5. ASSUME NEW u \in Threads, NEW i \in 1..Depth(u)', Sound(stack[u][i].obj)',
             stack'[u][i].own # None
      PROVE  /\ prog'[stack'[u][i].cp].roots = stack'[u][i].own
             /\ \A v \in Threads : \A j \in 1..Depth(v)' :
                  stack'[v][j].obj = stack'[u][i].obj => v = u /\ j <= i
  <2>1. i \in 1..Depth(u) /\ stack[u][i].own # None
    BY <1>1, <1>5
  <2>2. Sound(stack[u][i].obj) /\ stack[u][i].obj \notin replaced'
    BY <1>5 DEF Sound
  <2>3. /\ prog[stack[u][i].cp].roots = stack[u][i].own
        /\ \A v \in Threads : \A j \in 1..Depth(v) :
             stack[v][j].obj = stack[u][i].obj => v = u /\ j <= i
    BY <2>1, <2>2 DEF IInv, LendsAlone
  <2>4. cp[stack[u][i].obj] = stack[u][i].cp
    BY <2>1, <2>2, OpenCall DEF Sound
  <2>5. prog'[stack[u][i].cp] = prog[stack[u][i].cp]
    BY <1>3, <2>1, <2>2, <2>4
  <2> QED
    BY <1>1, <2>3, <2>5
<1>6. ASSUME NEW o \in Objects, cp'[o] # None, prog'[cp'[o]].roots # None
      PROVE  Open(o)' /\ (Sound(o)' => Lending(o)')
  <2>1. cp[o] # None /\ prog[cp[o]].roots # None
    BY <1>6
  <2> QED
    BY <1>1, <2>1 DEF IInv, LendsAlone
<1>7. \A p \in Progs : prog'[p].roots # None =>
        prog'[p].roots \in held' /\ \A q \in Progs : prog'[q].roots = prog'[p].roots => q = p
  BY DEF IInv, LendsAlone
<1>8. LendsAlone'
  BY <1>5, <1>6, <1>7 DEF LendsAlone
<1> QED
  BY <1>1, <1>2, <1>4, <1>8 DEF IInv

\* An allocation is nobody's.
LEMMA FreshPath ==
  ASSUME NEW p \in Progs, ~IsPointedAt(p)
  PROVE  /\ \A o \in Objects : cp[o] # p
         /\ \A t \in Threads : \A i \in 1..Depth(t) : stack[t][i].cp # p
  BY DEF IsPointedAt

LEMMA PathTypes ==
  /\ Compiled \in Prog /\ Compiled.live /\ Compiled.roots = None
  /\ Destroyed \in Prog /\ Destroyed.roots = None
  BY DEF Compiled, Destroyed, Prog, Roots

LEMMA NewStep ==
  ASSUME IInv, NEW t \in Threads, NEW o \in Objects, NEW p \in Progs, New(t, o, p)
  PROVE  IInv'
<1>1. ~Open(o) /\ cp[o] = None /\ p # None
  BY OpenOwns, PythonAssumption DEF New
<1>2. /\ \A q \in Objects : cp[q] # p
      /\ \A u \in Threads : \A i \in 1..Depth(u) : stack[u][i].cp # p
  BY FreshPath DEF New
<1>3. prog \in [Progs -> Prog] /\ cp \in [Objects -> Progs \cup {None}]
  BY DEF IInv, TypeOK
<1>4. CASE /\ prog' = [prog EXCEPT ![p] = Compiled] /\ cp' = [cp EXCEPT ![o] = p]
           /\ UNCHANGED err
  <2>1. /\ cp' \in [Objects -> Progs \cup {None}] /\ prog' \in [Progs -> Prog]
        /\ cp'[o] = p /\ prog'[p] = Compiled
        /\ \A q \in Objects : q # o => cp'[q] = cp[q]
        /\ \A r \in Progs : r # p => prog'[r] = prog[r]
    BY <1>3, <1>4, PathTypes
  <2>2. /\ UNCHANGED <<gil, stack, held, fault, replaced, crossed>>
        /\ err' \in [Threads -> BOOLEAN] /\ replaced' \subseteq Objects
    BY <1>4 DEF New, IInv, TypeOK
  <2>3. OwnPaths'
    BY <1>2, <2>1 DEF IInv, OwnPaths
  <2>4. \A q \in Objects : q # o /\ cp[q] # None =>
          cp'[q] = cp[q] /\ prog'[cp[q]] = prog[cp[q]] /\ prog[cp[q]].live
    BY <1>2, <2>1, PathOf
  <2>5. \A r \in Progs : prog'[r].roots \in {None, prog[r].roots}
    BY <2>1, PathTypes
  <2>6. ASSUME NEW u \in Threads, NEW i \in 1..Depth(u),
               cp'[stack[u][i].obj] # stack[u][i].cp
        PROVE  prog'[stack[u][i].cp] = Destroyed
    <3>1. stack[u][i].obj \in Objects /\ stack[u][i].cp \in Progs
          /\ cp[stack[u][i].obj] # None /\ stack[u][i].cp # p
      BY <1>2, OpenCall
    <3>2. cp'[stack[u][i].obj] = cp[stack[u][i].obj]
      BY <1>1, <2>1, <3>1
    <3> QED
      BY <2>1, <2>6, <3>1, <3>2, OpenCall
  <2>7. \A q \in Objects : cp'[q] # None => prog'[cp'[q]].live
    BY <2>1, <2>4, PathTypes
  <2>8. \A q \in Objects : Open(q) => q # o /\ cp[q] # None
    BY <1>1, OpenOwns
  <2>9. \A q \in Objects : cp'[q] # None /\ prog'[cp'[q]].roots # None =>
          cp'[q] = cp[q] /\ prog'[cp[q]] = prog[cp[q]]
    BY <2>1, <2>4, PathTypes
  <2> QED
    BY <2>1, <2>2, <2>3, <2>4, <2>5, <2>6, <2>7, <2>8, <2>9, PathsStep
<1>5. CASE err' = [err EXCEPT ![t] = TRUE] /\ UNCHANGED <<cp, prog>>
  BY <1>5, IdleStep DEF New
<1> QED
  BY <1>4, <1>5 DEF New

LEMMA DeallocStep ==
  ASSUME IInv, NEW t \in Threads, NEW o \in Objects, Dealloc(t, o)
  PROVE  IInv'
<1>1. cp[o] # None /\ ~Open(o)
  BY DEF Dealloc
<1>2. /\ UNCHANGED <<gil, stack, held, fault, replaced, crossed>>
      /\ err' \in [Threads -> BOOLEAN] /\ replaced' \subseteq Objects
      /\ prog \in [Progs -> Prog] /\ cp \in [Objects -> Progs \cup {None}]
  BY DEF Dealloc, IInv, TypeOK
<1>3. cp[o] \in Progs /\ \A q \in Objects : cp[q] = cp[o] => q = o
  BY <1>1, PathOf
<1>4. /\ cp' \in [Objects -> Progs \cup {None}] /\ prog' \in [Progs -> Prog]
      /\ cp'[o] = None /\ \A q \in Objects : q # o => cp'[q] = cp[q]
      /\ prog'[cp[o]] = Destroyed
      /\ \A r \in Progs : r # cp[o] => prog'[r] = prog[r]
  BY <1>2, <1>3, PathTypes DEF Dealloc
<1>5. OwnPaths'
  BY <1>4 DEF IInv, OwnPaths
<1>6. \A q \in Objects : q # o /\ cp[q] # None =>
        cp'[q] = cp[q] /\ prog'[cp[q]] = prog[cp[q]] /\ prog[cp[q]].live
  BY <1>3, <1>4, PathOf
<1>7. \A r \in Progs : prog'[r].roots \in {None, prog[r].roots}
  BY <1>4, PathTypes
<1>8. ASSUME NEW u \in Threads, NEW i \in 1..Depth(u),
             cp'[stack[u][i].obj] # stack[u][i].cp
      PROVE  prog'[stack[u][i].cp] = Destroyed
  <2>1. stack[u][i].obj \in Objects /\ stack[u][i].cp \in Progs /\ stack[u][i].obj # o
    BY <1>1, OpenCall DEF Open
  <2>2. prog[stack[u][i].cp] = Destroyed
    BY <1>4, <1>8, <2>1, OpenCall
  <2> QED
    BY <1>4, <2>1, <2>2
<1>9. \A q \in Objects : Open(q) => q # o /\ cp[q] # None
  BY <1>1, OpenOwns
<1> QED
  BY <1>2, <1>4, <1>5, <1>6, <1>7, <1>8, <1>9, PathsStep

LEMMA SetPathStep ==
  ASSUME IInv, NEW t \in Threads, NEW o \in Objects, NEW p \in Progs, SetPath(t, o, p)
  PROVE  IInv'
<1>1. cp[o] # None /\ p # None
  BY PythonAssumption DEF SetPath
<1>2. /\ \A q \in Objects : cp[q] # p
      /\ \A u \in Threads : \A i \in 1..Depth(u) : stack[u][i].cp # p
  BY FreshPath DEF SetPath
<1>3. prog \in [Progs -> Prog] /\ cp \in [Objects -> Progs \cup {None}]
  BY DEF IInv, TypeOK
<1>4. cp[o] \in Progs /\ \A q \in Objects : cp[q] = cp[o] => q = o
  BY <1>1, PathOf
<1>5. CASE /\ prog' = [prog EXCEPT ![p] = Compiled, ![cp[o]] = Destroyed]
           /\ cp' = [cp EXCEPT ![o] = p]
           /\ replaced' = IF Open(o) THEN replaced \cup {o} ELSE replaced
           /\ UNCHANGED err
  <2>1. /\ cp' \in [Objects -> Progs \cup {None}] /\ prog' \in [Progs -> Prog]
        /\ cp'[o] = p /\ prog'[p] = Compiled /\ prog'[cp[o]] = Destroyed
        /\ \A q \in Objects : q # o => cp'[q] = cp[q]
        /\ \A r \in Progs : r # p /\ r # cp[o] => prog'[r] = prog[r]
    BY <1>2, <1>3, <1>4, <1>5, PathTypes
  <2>2. /\ UNCHANGED <<gil, stack, held, fault, crossed>> /\ err' \in [Threads -> BOOLEAN]
        /\ replaced \subseteq replaced' /\ replaced' \subseteq Objects
    BY <1>5 DEF SetPath, IInv, TypeOK
  <2>3. OwnPaths'
    BY <1>2, <2>1 DEF IInv, OwnPaths
  <2>4. \A q \in Objects : q # o /\ cp[q] # None =>
          cp'[q] = cp[q] /\ prog'[cp[q]] = prog[cp[q]] /\ prog[cp[q]].live
    BY <1>2, <1>4, <2>1, PathOf
  <2>5. \A r \in Progs : prog'[r].roots \in {None, prog[r].roots}
    BY <2>1, PathTypes
  <2>6. ASSUME NEW u \in Threads, NEW i \in 1..Depth(u),
               cp'[stack[u][i].obj] # stack[u][i].cp
        PROVE  prog'[stack[u][i].cp] = Destroyed
    <3>1. stack[u][i].obj \in Objects /\ stack[u][i].cp \in Progs /\ stack[u][i].cp # p
      BY <1>2, OpenCall
    <3>2. CASE stack[u][i].cp = cp[o]
      BY <2>1, <3>2
    <3>3. CASE stack[u][i].cp # cp[o]
      <4>1. cp[stack[u][i].obj] # stack[u][i].cp
        BY <2>1, <2>6, <3>1, <3>3
      <4> QED
        BY <2>1, <3>1, <3>3, <4>1, OpenCall
    <3> QED
      BY <3>2, <3>3
  <2>7. \A q \in Objects : cp'[q] # None => prog'[cp'[q]].live
    BY <2>1, <2>4, PathTypes
  <2>8. \A q \in Objects : Open(q) => cp[q] # None /\ (q \notin replaced' => q # o)
    BY <1>5, OpenOwns
  <2>9. \A q \in Objects : cp'[q] # None /\ prog'[cp'[q]].roots # None =>
          cp'[q] = cp[q] /\ prog'[cp[q]] = prog[cp[q]]
    BY <2>1, <2>4, PathTypes
  <2>10. \A q \in Objects : Open(q) => cp'[q] # None
    BY <1>1, <2>1, <2>8
  <2> QED
    BY <2>1, <2>2, <2>3, <2>4, <2>5, <2>6, <2>7, <2>8, <2>9, <2>10, PathsStep
<1>6. CASE err' = [err EXCEPT ![t] = TRUE] /\ UNCHANGED <<cp, prog, replaced>>
  BY <1>6, IdleStep DEF SetPath
<1> QED
  BY <1>5, <1>6 DEF SetPath

--------------------------------------------------------------------------------
(***************************************************************************)
(* A call begins and returns.                                              *)
(***************************************************************************)

LEMMA CallStep ==
  ASSUME IInv, NEW t \in Threads, NEW o \in Objects, NEW l \in Roots, Call(t, o, l)
  PROVE  IInv'
<1> DEFINE f == [obj |-> o, cp |-> cp[o], pc |-> "walk", failed |-> FALSE,
                 own |-> l, got |-> Unread, bad |-> "none"]
           p == cp[o]
<1>1. /\ cp[o] # None /\ l \notin held
      /\ UNCHANGED <<gil, cp, err, fault, replaced>>
      /\ prog' = [prog EXCEPT ![p].roots = IF l = None THEN @ ELSE l]
      /\ held' = held \cup ({l} \ {None})
      /\ stack' = [stack EXCEPT ![t] = Append(@, f)]
      /\ crossed' = IF Crosses(t, o, l) THEN crossed \cup {o} ELSE crossed
  BY DEF Call
<1>2. /\ p \in Progs /\ prog[p] \in Prog /\ prog[p].live
      /\ \A q \in Objects : cp[q] = p => q = o
  BY <1>1, PathOf
<1>3. f \in Frame /\ f.obj = o /\ f.cp = p /\ f.own = l
  BY <1>2 DEF Frame
<1>4. /\ stack' \in [Threads -> Seq(Frame)]
      /\ \A u \in Threads : Depth(u)' = IF u = t THEN Depth(t) + 1 ELSE Depth(u)
      /\ stack'[t][Depth(t) + 1] = f
      /\ \A u \in Threads : \A i \in 1..Depth(u) : stack'[u][i] = stack[u][i]
  BY <1>1, <1>3, PushFacts DEF IInv
<1>5. \A u \in Threads : Depth(u) \in Nat
  BY StackType DEF IInv
\* A frame of the new stacks is an old one, or the new one.
<1>6. /\ \A u \in Threads : \A i \in 1..Depth(u)' :
           \/ i \in 1..Depth(u) /\ stack'[u][i] = stack[u][i]
           \/ u = t /\ i = Depth(t) + 1 /\ stack'[u][i] = f
      /\ \A u \in Threads : \A i \in 1..Depth(u) : i \in 1..Depth(u)'
      /\ Depth(t) + 1 \in 1..Depth(t)'
  BY <1>4, <1>5
<1>7. /\ prog' \in [Progs -> Prog] /\ \A q \in Progs : prog'[q].live = prog[q].live
      /\ \A q \in Progs : q # p => prog'[q] = prog[q]
      /\ l # None => prog'[p].roots = l
      /\ l = None => prog'[p].roots = prog[p].roots
  BY <1>1, <1>2 DEF IInv, TypeOK, Prog
<1>8. held' \subseteq Lists /\ crossed' \subseteq Objects
  BY <1>1 DEF IInv, TypeOK, Roots
<1>9. TypeOK'
  BY <1>1, <1>4, <1>7, <1>8 DEF IInv, TypeOK
<1>10. OwnPaths'
  BY <1>1 DEF IInv, OwnPaths
<1>11. StaleCalls'
  <2>1. ASSUME NEW u \in Threads, NEW i \in 1..Depth(u)',
               cp[stack'[u][i].obj] # stack'[u][i].cp
        PROVE  prog'[stack'[u][i].cp] = Destroyed
    <3>1. i \in 1..Depth(u) /\ stack'[u][i] = stack[u][i]
      BY <1>3, <1>6, <2>1
    <3>2. stack[u][i].cp \in Progs /\ prog[stack[u][i].cp] = Destroyed
      BY <2>1, <3>1, OpenCall
    <3>3. stack[u][i].cp # p
      BY <1>2, <3>2 DEF Destroyed
    <3> QED
      BY <1>7, <3>1, <3>2, <3>3
  <2> QED
    BY <1>1, <2>1 DEF StaleCalls, Destroyed
<1>12. NoUseAfterDestroy'
  <2>1. ASSUME NEW u \in Threads, NEW i \in 1..Depth(u)'
        PROVE  /\ cp[stack'[u][i].obj] # None
               /\ stack'[u][i].obj \notin replaced => cp[stack'[u][i].obj] = stack'[u][i].cp
    <3>1. CASE i \in 1..Depth(u) /\ stack'[u][i] = stack[u][i]
      BY <3>1, OpenCall
    <3>2. CASE stack'[u][i] = f
      BY <1>1, <1>3, <3>2
    <3> QED
      BY <1>6, <3>1, <3>2
  <2>2. \A q \in Objects : cp[q] # None => prog'[cp[q]].live
    BY <1>7, PathOf
  <2>3. fault' \subseteq replaced'
    BY <1>1 DEF IInv, NoUseAfterDestroy
  <2> QED
    BY <1>1, <2>1, <2>2, <2>3 DEF NoUseAfterDestroy
\* An object that is sound after the call was so before, and the call is alone.
<1>13. /\ \A q \in Objects : q \notin replaced' \cup crossed' => Sound(q)
       /\ o \notin crossed' => ~Crosses(t, o, l)
  BY <1>1 DEF Sound
<1>14. ASSUME NEW u \in Threads, NEW i \in 1..Depth(u)', stack'[u][i].own # None,
              stack'[u][i].obj \notin replaced' \cup crossed'
       PROVE  /\ prog'[stack'[u][i].cp].roots = stack'[u][i].own
              /\ \A v \in Threads : \A j \in 1..Depth(v)' :
                   stack'[v][j].obj = stack'[u][i].obj => v = u /\ j <= i
  <2>1. CASE i \in 1..Depth(u) /\ stack'[u][i] = stack[u][i]
    <3>1. /\ stack[u][i].obj \in Objects /\ Sound(stack[u][i].obj)
          /\ stack[u][i].cp \in Progs /\ cp[stack[u][i].obj] = stack[u][i].cp
      BY <1>13, <1>14, <2>1, OpenCall DEF Sound
    <3>2. stack[u][i].obj # o
      BY <1>13, <1>14, <2>1 DEF Crosses
    <3>3. prog'[stack[u][i].cp] = prog[stack[u][i].cp]
      BY <1>2, <1>7, <3>1, <3>2
    <3>4. /\ prog[stack[u][i].cp].roots = stack[u][i].own
          /\ \A v \in Threads : \A j \in 1..Depth(v) :
               stack[v][j].obj = stack[u][i].obj => v = u /\ j <= i
      BY <1>14, <2>1, <3>1 DEF IInv, LendsAlone
    <3>5. \A v \in Threads : \A j \in 1..Depth(v)' :
            stack'[v][j].obj = stack'[u][i].obj => v = u /\ j <= i
      BY <1>3, <1>6, <2>1, <3>2, <3>4
    <3> QED
      BY <2>1, <3>3, <3>4, <3>5
  <2>2. CASE u = t /\ i = Depth(t) + 1 /\ stack'[u][i] = f
    <3>1. l # None /\ ~Crosses(t, o, l)
      BY <1>3, <1>13, <1>14, <2>2
    <3>2. \A v \in Threads : \A j \in 1..Depth(v) : stack[v][j].obj = o => v = t
      BY <3>1 DEF Crosses
    <3>3. \A v \in Threads : \A j \in 1..Depth(v)' :
            stack'[v][j].obj = o => v = t /\ j <= Depth(t) + 1
      <4> SUFFICES ASSUME NEW v \in Threads, NEW j \in 1..Depth(v)', stack'[v][j].obj = o
                   PROVE  v = t /\ j <= Depth(t) + 1
        OBVIOUS
      <4>1. CASE j \in 1..Depth(v) /\ stack'[v][j] = stack[v][j]
        <5>1. v = t
          BY <3>2, <4>1
        <5> QED
          BY <1>4, <4>1, <5>1
      <4>2. CASE v = t /\ j = Depth(t) + 1
        BY <1>4, <4>2
      <4> QED
        BY <1>6, <4>1, <4>2
    <3> QED
      BY <1>3, <1>7, <2>2, <3>1, <3>3
  <2> QED
    BY <1>6, <2>1, <2>2
<1>15. ASSUME NEW q \in Objects, Open(q)
       PROVE  Open(q)'
  <2>1. PICK u \in Threads : \E i \in 1..Depth(u) : stack[u][i].obj = q
    BY <1>15 DEF Open
  <2>2. PICK i \in 1..Depth(u) : stack[u][i].obj = q
    BY <2>1
  <2>3. i \in 1..Depth(u)' /\ stack'[u][i].obj = q
    BY <1>4, <1>6, <2>2
  <2> QED
    BY <2>3 DEF Open
<1>16. ASSUME NEW q \in Objects, Lending(q)
       PROVE  Lending(q)'
  <2>1. PICK u \in Threads : \E i \in 1..Depth(u) :
               stack[u][i].obj = q /\ stack[u][i].own # None
    BY <1>16 DEF Lending
  <2>2. PICK i \in 1..Depth(u) : stack[u][i].obj = q /\ stack[u][i].own # None
    BY <2>1
  <2>3. i \in 1..Depth(u)' /\ stack'[u][i].obj = q /\ stack'[u][i].own # None
    BY <1>4, <1>6, <2>2
  <2> QED
    BY <2>3 DEF Lending
<1>17. Open(o)' /\ (l # None => Lending(o)')
  BY <1>3, <1>4, <1>6 DEF Open, Lending
<1>18. ASSUME NEW q \in Objects, cp[q] # None, prog'[cp[q]].roots # None
       PROVE  Open(q)' /\ (Sound(q)' => Lending(q)')
  <2>1. CASE q = o /\ l # None
    BY <1>17, <2>1
  <2>2. CASE ~(q = o /\ l # None)
    <3>1. cp[q] \in Progs /\ prog'[cp[q]].roots = prog[cp[q]].roots
      BY <1>2, <1>7, <1>18, <2>2, PathOf
    <3>2. Open(q) /\ (Sound(q) => Lending(q))
      BY <1>18, <3>1 DEF IInv, LendsAlone
    <3>3. Sound(q)' => Sound(q)
      BY <1>13 DEF Sound
    <3> QED
      BY <1>15, <1>16, <3>2, <3>3
  <2> QED
    BY <2>1, <2>2
<1>19. ASSUME NEW r \in Progs, prog'[r].roots # None
       PROVE  prog'[r].roots \in held' /\ \A q \in Progs : prog'[q].roots = prog'[r].roots => q = r
  <2>1. \A q \in Progs : \/ q = p /\ l # None /\ prog'[q].roots = l
                         \/ ~(q = p /\ l # None) /\ prog'[q].roots = prog[q].roots
    BY <1>7
  <2>2. \A q \in Progs : prog[q].roots # None => prog[q].roots \in held /\ prog[q].roots # l
    BY <1>1 DEF IInv, LendsAlone
  <2>3. \A q \in Progs : prog[r].roots # None /\ prog[q].roots = prog[r].roots => q = r
    BY DEF IInv, LendsAlone
  <2> QED
    BY <1>1, <1>19, <2>1, <2>2, <2>3
<1>20. LendsAlone'
  <2>1. \A q \in Objects : cp'[q] # None /\ prog'[cp'[q]].roots # None =>
          Open(q)' /\ (Sound(q)' => Lending(q)')
    BY <1>1, <1>18
  <2>2. \A u \in Threads : \A i \in 1..Depth(u)' :
          (stack'[u][i].obj \notin replaced' \cup crossed') /\ stack'[u][i].own # None =>
            /\ prog'[stack'[u][i].cp].roots = stack'[u][i].own
            /\ \A v \in Threads : \A j \in 1..Depth(v)' :
                 stack'[v][j].obj = stack'[u][i].obj => v = u /\ j <= i
    BY <1>14
  <2> QED
    BY <1>19, <2>1, <2>2 DEF LendsAlone, Sound
<1> QED
  BY <1>9, <1>10, <1>11, <1>12, <1>20 DEF IInv

\* The roots that a call of a sound object finds are those it lent.
LEMMA RootsAreOwn ==
  ASSUME IInv, NEW t \in Threads, stack[t] # <<>>, Sound(Top(t).obj)
  PROVE  cp[Top(t).obj] = Top(t).cp /\ prog[Top(t).cp].roots = Top(t).own
<1>1. /\ Depth(t) \in 1..Depth(t) /\ Top(t) = stack[t][Depth(t)]
      /\ Top(t).obj \in Objects /\ cp[Top(t).obj] = Top(t).cp /\ Top(t).cp # None
  BY TopCall DEF Sound
<1>2. CASE Top(t).own # None
  BY <1>1, <1>2 DEF IInv, LendsAlone
<1>3. CASE Top(t).own = None
  <2>1. SUFFICES ASSUME prog[Top(t).cp].roots # None
                 PROVE  FALSE
    BY <1>1, <1>3
  <2>2. PICK u \in Threads : \E i \in 1..Depth(u) :
               stack[u][i].obj = Top(t).obj /\ stack[u][i].own # None
    BY <1>1, <2>1 DEF IInv, LendsAlone, Lending
  <2>3. PICK i \in 1..Depth(u) : stack[u][i].obj = Top(t).obj /\ stack[u][i].own # None
    BY <2>2
  <2>4. t = u /\ Depth(t) <= i
    BY <1>1, <2>3 DEF IInv, LendsAlone
  <2> QED
    BY <1>1, <1>3, <2>3, <2>4, StackType DEF IInv
<1> QED
  BY <1>1, <1>2, <1>3

LEMMA ReturnStep ==
  ASSUME IInv, fault = {}, NEW t \in Threads, Return(t)
  PROVE  IInv'
<1> DEFINE f == Top(t)
           p == cp[f.obj]
<1>1. /\ stack[t] # <<>> /\ UNCHANGED <<gil, cp, fault>>
      /\ held' = held \ {prog[p].roots}
      /\ prog' = [prog EXCEPT ![p].roots = None]
      /\ stack' = [stack EXCEPT ![t] = SubSeq(@, 1, Len(@) - 1)]
      /\ err' = [err EXCEPT ![t] = @ \/ f.failed]
      /\ replaced' = After(t, replaced) /\ crossed' = After(t, crossed)
  BY DEF Return, At
<1>2. /\ Depth(t) \in 1..Depth(t) /\ f = stack[t][Depth(t)] /\ f \in Frame
      /\ f.obj \in Objects /\ p \in Progs /\ p # None
  BY <1>1, TopCall
<1>3. prog[p].live /\ \A q \in Objects : cp[q] = p => q = f.obj
  BY <1>2, PathOf
<1>4. /\ stack' \in [Threads -> Seq(Frame)]
      /\ \A u \in Threads : Depth(u)' = IF u = t THEN Depth(t) - 1 ELSE Depth(u)
      /\ \A u \in Threads : \A i \in 1..Depth(u)' : stack'[u][i] = stack[u][i]
  BY <1>1, PopFacts DEF IInv
<1>5. \A u \in Threads : Depth(u) \in Nat
  BY StackType DEF IInv
<1>6. /\ \A u \in Threads : \A i \in 1..Depth(u)' :
           i \in 1..Depth(u) /\ stack'[u][i] = stack[u][i] /\ (u = t => i < Depth(t))
      /\ \A u \in Threads : \A i \in 1..Depth(u) :
           ~(u = t /\ i = Depth(t)) => i \in 1..Depth(u)'
  BY <1>2, <1>4, <1>5
<1>7. /\ prog' \in [Progs -> Prog] /\ \A q \in Progs : prog'[q].live = prog[q].live
      /\ \A q \in Progs : q # p => prog'[q] = prog[q]
      /\ prog'[p].roots = None
  BY <1>1, <1>2 DEF IInv, TypeOK, Prog, Roots
<1>8. err' \in [Threads -> BOOLEAN] /\ replaced' \subseteq Objects /\ crossed' \subseteq Objects
  BY <1>1, <1>2, FrameFields DEF IInv, TypeOK, After
<1>9. TypeOK'
  BY <1>1, <1>4, <1>7, <1>8 DEF IInv, TypeOK
<1>10. OwnPaths'
  BY <1>1 DEF IInv, OwnPaths
<1>11. StaleCalls'
  <2>1. ASSUME NEW u \in Threads, NEW i \in 1..Depth(u)',
               cp[stack'[u][i].obj] # stack'[u][i].cp
        PROVE  prog'[stack'[u][i].cp] = Destroyed
    <3>1. stack[u][i].cp \in Progs /\ prog[stack[u][i].cp] = Destroyed
      BY <1>6, <2>1, OpenCall
    <3>2. stack[u][i].cp # p
      BY <1>3, <3>1 DEF Destroyed
    <3> QED
      BY <1>6, <1>7, <3>1, <3>2
  <2> QED
    BY <1>1, <2>1 DEF StaleCalls, Destroyed
\* History is kept for the objects that still have an open call.
<1>12. ASSUME NEW u \in Threads, NEW i \in 1..Depth(u)'
       PROVE  /\ stack[u][i].obj \in replaced' <=> stack[u][i].obj \in replaced
              /\ stack[u][i].obj \in crossed' <=> stack[u][i].obj \in crossed
  <2>1. i \in 1..Depth(u) /\ (u # t \/ i # Depth(t))
    BY <1>5, <1>6
  <2>2. stack[u][i].obj = f.obj => OpenElsewhere(t)
    BY <2>1 DEF OpenElsewhere
  <2> QED
    BY <1>1, <2>2 DEF After
<1>13. NoUseAfterDestroy'
  <2>1. \A u \in Threads : \A i \in 1..Depth(u)' :
          /\ cp[stack'[u][i].obj] # None
          /\ stack'[u][i].obj \notin replaced' => cp[stack'[u][i].obj] = stack'[u][i].cp
    BY <1>6, <1>12, OpenCall
  <2>2. \A q \in Objects : cp[q] # None => prog'[cp[q]].live
    BY <1>7, PathOf
  <2> QED
    BY <1>1, <2>1, <2>2 DEF NoUseAfterDestroy
<1>14. ASSUME NEW u \in Threads, NEW i \in 1..Depth(u)', stack'[u][i].own # None,
              stack'[u][i].obj \notin replaced' \cup crossed'
       PROVE  /\ prog'[stack'[u][i].cp].roots = stack'[u][i].own
              /\ \A v \in Threads : \A j \in 1..Depth(v)' :
                   stack'[v][j].obj = stack'[u][i].obj => v = u /\ j <= i
  <2>1. /\ i \in 1..Depth(u) /\ stack'[u][i] = stack[u][i] /\ (u = t => i < Depth(t))
        /\ stack[u][i].own # None
    BY <1>6, <1>14
  <2>2. Sound(stack[u][i].obj)
    BY <1>12, <1>14, <2>1 DEF Sound
  <2>3. /\ prog[stack[u][i].cp].roots = stack[u][i].own
        /\ \A v \in Threads : \A j \in 1..Depth(v) :
             stack[v][j].obj = stack[u][i].obj => v = u /\ j <= i
    BY <2>1, <2>2 DEF IInv, LendsAlone
  <2>4. stack[u][i].obj # f.obj
    BY <1>2, <1>5, <2>1, <2>3
  <2>5. /\ stack[u][i].obj \in Objects /\ cp[stack[u][i].obj] = stack[u][i].cp
        /\ stack[u][i].cp \in Progs
    BY <2>1, <2>2, OpenCall DEF Sound
  <2>6. prog'[stack[u][i].cp] = prog[stack[u][i].cp]
    BY <1>3, <1>7, <2>4, <2>5
  <2> QED
    BY <1>6, <2>1, <2>3, <2>6
<1>15. ASSUME NEW q \in Objects, q # f.obj
       PROVE  (Open(q) => Open(q)') /\ (Lending(q) => Lending(q)')
  <2>1. ASSUME Open(q) PROVE Open(q)'
    <3>1. PICK u \in Threads : \E i \in 1..Depth(u) : stack[u][i].obj = q
      BY <2>1 DEF Open
    <3>2. PICK i \in 1..Depth(u) : stack[u][i].obj = q
      BY <3>1
    <3>3. i \in 1..Depth(u)' /\ stack'[u][i].obj = q
      BY <1>2, <1>6, <1>15, <3>2
    <3> QED
      BY <3>3 DEF Open
  <2>2. ASSUME Lending(q) PROVE Lending(q)'
    <3>1. PICK u \in Threads : \E i \in 1..Depth(u) :
                 stack[u][i].obj = q /\ stack[u][i].own # None
      BY <2>2 DEF Lending
    <3>2. PICK i \in 1..Depth(u) : stack[u][i].obj = q /\ stack[u][i].own # None
      BY <3>1
    <3>3. i \in 1..Depth(u)' /\ stack'[u][i].obj = q /\ stack'[u][i].own # None
      BY <1>2, <1>6, <1>15, <3>2
    <3> QED
      BY <3>3 DEF Lending
  <2> QED
    BY <2>1, <2>2
<1>16. ASSUME NEW q \in Objects, cp[q] # None, prog'[cp[q]].roots # None
       PROVE  Open(q)' /\ (Sound(q)' => Lending(q)')
  <2>1. q # f.obj /\ cp[q] # p
    BY <1>3, <1>7, <1>16
  <2>2. cp[q] \in Progs /\ prog'[cp[q]].roots = prog[cp[q]].roots
    BY <1>7, <1>16, <2>1, PathOf
  <2>3. Open(q) /\ (Sound(q) => Lending(q))
    BY <1>16, <2>2 DEF IInv, LendsAlone
  <2>4. Sound(q)' => Sound(q)
    BY <1>1, <2>1 DEF Sound, After
  <2> QED
    BY <1>15, <2>1, <2>3, <2>4
<1>17. ASSUME NEW r \in Progs, prog'[r].roots # None
       PROVE  prog'[r].roots \in held' /\ \A q \in Progs : prog'[q].roots = prog'[r].roots => q = r
  <2>1. r # p /\ prog'[r].roots = prog[r].roots
    BY <1>7, <1>17
  <2>2. /\ prog[r].roots \in held
        /\ \A q \in Progs : prog[q].roots = prog[r].roots => q = r
    BY <1>17, <2>1 DEF IInv, LendsAlone
  <2>3. prog[p].roots # prog[r].roots
    BY <1>2, <2>1, <2>2
  <2>4. \A q \in Progs : prog'[q].roots = prog[q].roots \/ prog'[q].roots = None
    BY <1>7
  <2> QED
    BY <1>1, <1>17, <2>1, <2>2, <2>3, <2>4
<1>18. LendsAlone'
  <2>1. \A q \in Objects : cp'[q] # None /\ prog'[cp'[q]].roots # None =>
          Open(q)' /\ (Sound(q)' => Lending(q)')
    BY <1>1, <1>16
  <2>2. \A u \in Threads : \A i \in 1..Depth(u)' :
          (stack'[u][i].obj \notin replaced' \cup crossed') /\ stack'[u][i].own # None =>
            /\ prog'[stack'[u][i].cp].roots = stack'[u][i].own
            /\ \A v \in Threads : \A j \in 1..Depth(v)' :
                 stack'[v][j].obj = stack'[u][i].obj => v = u /\ j <= i
    BY <1>14
  <2> QED
    BY <1>17, <2>1, <2>2 DEF LendsAlone, Sound
<1> QED
  BY <1>9, <1>10, <1>11, <1>13, <1>18 DEF IInv

--------------------------------------------------------------------------------
LEMMA InitInv == Init => IInv
<1> SUFFICES ASSUME Init PROVE IInv
  OBVIOUS
<1>1. \A t \in Threads : stack[t] = <<>> /\ Depth(t) = 0
  BY DEF Init, Depth
<1>2. TypeOK
  <2>1. <<>> \in Seq(Frame)
    OBVIOUS
  <2> QED
    BY <2>1, PathTypes DEF Init, TypeOK
<1>3. OwnPaths /\ StaleCalls /\ NoUseAfterDestroy
  BY <1>1 DEF Init, OwnPaths, StaleCalls, NoUseAfterDestroy
<1>4. LendsAlone
  <2>1. \A p \in Progs : prog[p].roots = None
    BY PathTypes DEF Init
  <2>2. cp \in [Objects -> {None}]
    BY DEF Init
  <2> QED
    BY <1>1, <2>1, <2>2 DEF LendsAlone
<1> QED
  BY <1>2, <1>3, <1>4 DEF IInv

LEMMA NextInv ==
  ASSUME IInv, [Next]_vars
  PROVE  IInv'
<1>1. CASE UNCHANGED vars
  <2>1. Threads # {}
    BY DEF IInv, TypeOK
  <2> QED
    BY <1>1, <2>1, IdleStep
<1>2. ASSUME NEW t \in Threads, UserStep(t)
      PROVE  IInv'
  <2>1. CASE \E o \in Objects :
               Dealloc(t, o) \/ \E p \in Progs : SetPath(t, o, p) \/ New(t, o, p)
    BY <2>1, DeallocStep, SetPathStep, NewStep
  <2>2. CASE \E o \in Objects, l \in Roots : Call(t, o, l)
    BY <2>2, CallStep
  <2>3. CASE Catch(t) \/ CallbackRaises(t) \/ CallbackReturns(t)
    BY <2>3, CatchStep, CallbackStep
  <2>4. CASE \E u \in Threads : Switch(t, u)
    BY <2>4, IdleStep
  <2> QED
    BY <1>2, <2>1, <2>2, <2>3, <2>4 DEF UserStep
<1>3. ASSUME NEW t \in Threads, fault = {}, WalkStep(t)
      PROVE  IInv'
  BY <1>3, ReadRootsStep, CallUserStep, WalkEndsStep, ReturnStep DEF WalkStep
<1> QED
  BY <1>1, <1>2, <1>3 DEF Next

LEMMA Invariant == Spec => []IInv
<1>1. IInv /\ [Next]_vars => IInv'
  BY NextInv
<1> QED
  BY <1>1, InitInv, PTL DEF Spec

\* A walk finds its compiled path destroyed only if set_path gave its object a
\* new one under it, and no object is ever left without a live path while calls
\* of it are open (csonpath_python.c 472-478, 548-568).  Nothing is asked of
\* user code: it may call, re-enter and set_path an object as it likes.
THEOREM PathsOutliveWalks == Spec => []NoUseAfterDestroy
<1>1. IInv => NoUseAfterDestroy
  BY DEF IInv
<1> QED
  BY <1>1, Invariant, PTL

\* Whatever the interleaving of the threads is, the variables of the binding
\* keep their types, and among them the roots a call lends and reads
\* (csonpath_python.c 274-295, 548-568).
THEOREM TypeCorrect == Spec => []TypeOK
<1>1. IInv => TypeOK
  BY DEF IInv
<1> QED
  BY <1>1, Invariant, PTL

\* A compiled path has the roots of one open call, the last to have begun, or
\* calls of its object got into each other's way and have not all ended; even
\* then a list is in one path only and roots do not outlast the calls
\* (csonpath_python.c 274-295).
THEOREM OneBorrower == Spec => []LendsAlone
<1>1. IInv => LendsAlone
  BY DEF IInv
<1> QED
  BY <1>1, Invariant, PTL

--------------------------------------------------------------------------------
(***************************************************************************)
(* The shared field implements roots of one's own.  View is how the stack  *)
(* of a thread looks to CsonpathLend.                                      *)
(***************************************************************************)

Shown(f) == [obj |-> f.obj, own |-> f.own, got |-> f.got]
View(t)  == [i \in 1..Depth(t) |-> [obj |-> stack[t][i].obj, own |-> stack[t][i].own,
                                    got |-> stack[t][i].got]]
LendOpen == [t \in Threads |-> View(t)]

LEMMA ViewFacts ==
  ASSUME IInv
  PROVE  \A u \in Threads :
           /\ LendOpen[u] = View(u) /\ Len(LendOpen[u]) = Depth(u)
           /\ \A i \in 1..Depth(u) : LendOpen[u][i] = Shown(stack[u][i])
<1>1. \A u \in Threads : Depth(u) \in Nat
  BY StackType DEF IInv
<1> QED
  BY <1>1 DEF LendOpen, View, Shown

\* What CsonpathLend sees of each call.
LEMMA ShownFacts ==
  ASSUME IInv, NEW u \in Threads, NEW i \in 1..Depth(u)
  PROVE  /\ i \in 1..Len(LendOpen[u])
         /\ LendOpen[u][i].obj = stack[u][i].obj
         /\ LendOpen[u][i].own = stack[u][i].own
         /\ LendOpen[u][i].got = stack[u][i].got
<1>1. Len(LendOpen[u]) = Depth(u) /\ LendOpen[u][i] = Shown(stack[u][i])
  BY ViewFacts
<1> QED
  BY <1>1 DEF Shown

LEMMA AppendIsFunction ==
  ASSUME NEW S, NEW s \in Seq(S), NEW e \in S
  PROVE  Append(s, e) = [i \in 1..(Len(s) + 1) |-> IF i = Len(s) + 1 THEN e ELSE s[i]]
<1> DEFINE g == [i \in 1..(Len(s) + 1) |-> IF i = Len(s) + 1 THEN e ELSE s[i]]
<1>1. Len(s) \in Nat /\ \A i \in 1..(Len(s) + 1) : g[i] \in S
  OBVIOUS
<1>2. g \in Seq(S) /\ Len(g) = Len(s) + 1
  BY <1>1
<1>3. /\ Append(s, e) \in Seq(S) /\ Len(Append(s, e)) = Len(s) + 1
      /\ \A i \in 1..(Len(s) + 1) : Append(s, e)[i] = g[i]
  OBVIOUS
<1> HIDE DEF g
<1>4. Append(s, e) = g
  BY <1>1, <1>2, <1>3
<1> QED
  BY <1>4 DEF g

\* Steps that leave what was lent and read alone.
LEMMA ViewKept ==
  ASSUME IInv, \A u \in Threads : Depth(u)' = Depth(u),
         \A u \in Threads : \A i \in 1..Depth(u) : Shown(stack'[u][i]) = Shown(stack[u][i])
  PROVE  LendOpen' = LendOpen
<1>1. \A u \in Threads : View(u)' = View(u)
  BY DEF View, Shown
<1> QED
  BY <1>1 DEF LendOpen

\* A call that looks at its roots, or has done with them.
LEMMA ViewRead ==
  ASSUME IInv, NEW t \in Threads, stack[t] # <<>>, NEW f \in Frame, SetTop(t, f),
         f.obj = Top(t).obj, f.own = Top(t).own
  PROVE  LendOpen' = [LendOpen EXCEPT ![t][Len(LendOpen[t])].got = f.got]
<1>1. /\ \A u \in Threads : Depth(u)' = Depth(u)
      /\ \A u \in Threads : \A i \in 1..Depth(u) :
           stack'[u][i] = IF u = t /\ i = Depth(t) THEN f ELSE stack[u][i]
  BY SetFacts DEF IInv
<1>2. Depth(t) \in Nat /\ Depth(t) \in 1..Depth(t) /\ Top(t) = stack[t][Depth(t)]
  BY TopCall, StackType DEF IInv
<1>3. /\ LendOpen[t] = View(t) /\ Len(LendOpen[t]) = Depth(t)
      /\ View(t)[Depth(t)] = [obj |-> Top(t).obj, own |-> Top(t).own, got |-> Top(t).got]
  BY <1>2, ViewFacts DEF View
<1>4. \A u \in Threads : u # t => View(u)' = View(u)
  BY <1>1 DEF View
<1>5. View(t)' = [View(t) EXCEPT ![Depth(t)].got = f.got]
  BY <1>1, <1>2, <1>3 DEF View
<1>6. LendOpen' = [LendOpen EXCEPT ![t] = View(t)']
  BY <1>4 DEF LendOpen
<1> QED
  BY <1>3, <1>5, <1>6

LEMMA ViewPush ==
  ASSUME IInv, NEW t \in Threads, NEW f \in Frame,
         stack' = [stack EXCEPT ![t] = Append(@, f)]
  PROVE  LendOpen' = [LendOpen EXCEPT ![t] = Append(@, Shown(f))]
<1>1. /\ \A u \in Threads : Depth(u)' = IF u = t THEN Depth(t) + 1 ELSE Depth(u)
      /\ stack'[t][Depth(t) + 1] = f
      /\ \A u \in Threads : \A i \in 1..Depth(u) : stack'[u][i] = stack[u][i]
  BY PushFacts DEF IInv
<1>2. Depth(t) \in Nat /\ LendOpen[t] = View(t) /\ Len(View(t)) = Depth(t)
  BY StackType, ViewFacts DEF IInv
<1>3. \A u \in Threads : u # t => View(u)' = View(u)
  BY <1>1 DEF View
<1>4. View(t)' = Append(View(t), Shown(f))
  <2> DEFINE e == Shown(f)
             S == {View(t)[i] : i \in 1..Depth(t)} \cup {e}
  <2>1. View(t) \in Seq(S) /\ e \in S
    BY <1>2 DEF View
  <2>2. Append(View(t), e) = [i \in 1..(Depth(t) + 1) |->
                                IF i = Depth(t) + 1 THEN e ELSE View(t)[i]]
    <3> HIDE DEF e, S
    <3> QED
      BY <1>2, <2>1, AppendIsFunction
  <2>3. View(t)' = [i \in 1..(Depth(t) + 1) |-> IF i = Depth(t) + 1 THEN e ELSE View(t)[i]]
    <3>1. Depth(t)' = Depth(t) + 1 /\ stack'[t][Depth(t) + 1] = f
      BY <1>1
    <3>2. \A i \in 1..(Depth(t) + 1) :
            [obj |-> stack'[t][i].obj, own |-> stack'[t][i].own, got |-> stack'[t][i].got]
              = IF i = Depth(t) + 1 THEN e ELSE View(t)[i]
      <4>1. \A i \in 1..(Depth(t) + 1) : i # Depth(t) + 1 => i \in 1..Depth(t)
        BY <1>2
      <4> QED
        BY <1>1, <3>1, <4>1 DEF View, Shown
    <3>3. View(t)' = [i \in 1..(Depth(t) + 1) |->
                        [obj |-> stack'[t][i].obj, own |-> stack'[t][i].own,
                         got |-> stack'[t][i].got]]
      BY <3>1 DEF View
    <3> QED
      BY <3>2, <3>3
  <2> QED
    BY <2>2, <2>3
<1>5. LendOpen' = [LendOpen EXCEPT ![t] = View(t)']
  BY <1>3 DEF LendOpen
<1> QED
  BY <1>2, <1>4, <1>5

LEMMA ViewPop ==
  ASSUME IInv, NEW t \in Threads, stack[t] # <<>>,
         stack' = [stack EXCEPT ![t] = SubSeq(@, 1, Len(@) - 1)]
  PROVE  LendOpen' = [LendOpen EXCEPT ![t] = SubSeq(@, 1, Len(@) - 1)]
<1>1. /\ \A u \in Threads : Depth(u)' = IF u = t THEN Depth(t) - 1 ELSE Depth(u)
      /\ \A u \in Threads : \A i \in 1..Depth(u)' : stack'[u][i] = stack[u][i]
  BY PopFacts DEF IInv
<1>2. Depth(t) \in Nat \ {0} /\ LendOpen[t] = View(t) /\ Len(View(t)) = Depth(t)
  BY TopCall, StackType, ViewFacts DEF IInv
<1>3. \A u \in Threads : u # t => View(u)' = View(u)
  BY <1>1 DEF View
<1>4. View(t)' = SubSeq(View(t), 1, Depth(t) - 1)
  <2>1. SubSeq(View(t), 1, Depth(t) - 1) = [i \in 1..(Depth(t) - 1) |-> View(t)[i]]
    <3> DEFINE S == {View(t)[i] : i \in 1..Depth(t)}
    <3>1. View(t) \in Seq(S)
      BY <1>2 DEF View
    <3> QED
      BY <1>2, <3>1
  <2>2. View(t)' = [i \in 1..(Depth(t) - 1) |-> View(t)[i]]
    <3>1. /\ Depth(t)' = Depth(t) - 1
          /\ \A i \in 1..(Depth(t) - 1) : i \in 1..Depth(t) /\ stack'[t][i] = stack[t][i]
      <4>1. Depth(t)' = Depth(t) - 1
        BY <1>1
      <4>2. \A i \in 1..(Depth(t) - 1) : i \in 1..Depth(t)
        BY <1>2
      <4> QED
        BY <1>1, <4>1, <4>2
    <3>2. \A i \in 1..(Depth(t) - 1) :
            [obj |-> stack'[t][i].obj, own |-> stack'[t][i].own, got |-> stack'[t][i].got]
              = View(t)[i]
      BY <3>1 DEF View
    <3>3. View(t)' = [i \in 1..(Depth(t) - 1) |->
                        [obj |-> stack'[t][i].obj, own |-> stack'[t][i].own,
                         got |-> stack'[t][i].got]]
      BY <3>1 DEF View
    <3> QED
      BY <3>2, <3>3
  <2> QED
    BY <2>1, <2>2
<1>5. LendOpen' = [LendOpen EXCEPT ![t] = View(t)']
  BY <1>3 DEF LendOpen
<1> QED
  BY <1>2, <1>4, <1>5

\* What the guards of CsonpathLend say of the stacks.
LEMMA LendGuards ==
  ASSUME IInv
  PROVE  /\ \A t \in Threads, o \in Objects, l \in Roots :
              Crosses(t, o, l) <=> Lend!Crosses(t, o, l)
         /\ \A t \in Threads : stack[t] # <<>> =>
              /\ LendOpen[t] # <<>> /\ Lend!Last(t) = Shown(Top(t))
              /\ OpenElsewhere(t) <=> ~Lend!IsOnlyCall(t)
         /\ \A l : l \in Lend!Promised => l \in Lists /\
              \E u \in Threads : \E i \in 1..Depth(u) :
                stack[u][i].own = l /\ Sound(stack[u][i].obj)
<1>1. \A u \in Threads :
        /\ LendOpen[u] = View(u) /\ Len(LendOpen[u]) = Depth(u)
        /\ \A i \in 1..Depth(u) : /\ LendOpen[u][i].obj = stack[u][i].obj
                                  /\ LendOpen[u][i].own = stack[u][i].own
                                  /\ LendOpen[u][i].got = stack[u][i].got
  BY ViewFacts, ShownFacts
<1>2. ASSUME NEW t \in Threads, NEW o \in Objects, NEW l \in Roots
      PROVE  Crosses(t, o, l) <=> Lend!Crosses(t, o, l)
  <2>1. Lend!Crosses(t, o, l) <=>
          \E u \in Threads : \E i \in 1..Len(LendOpen[u]) :
            LendOpen[u][i].obj = o /\ (LendOpen[u][i].own # None \/ (l # None /\ u # t))
    BY DEF Lend!Crosses, LendOpen, View
  <2> QED
    BY <1>1, <2>1 DEF Crosses
<1>3. ASSUME NEW t \in Threads, stack[t] # <<>>
      PROVE  /\ LendOpen[t] # <<>> /\ Lend!Last(t) = Shown(Top(t))
             /\ OpenElsewhere(t) <=> ~Lend!IsOnlyCall(t)
  <2>1. Depth(t) \in 1..Depth(t) /\ Top(t) = stack[t][Depth(t)]
    BY <1>3, TopCall
  <2>2. LendOpen[t] # <<>> /\ LendOpen[t][Len(LendOpen[t])] = Shown(Top(t))
    BY <1>1, <2>1, ViewFacts
  <2>3. Lend!Last(t) = Shown(Top(t))
    BY <2>2 DEF Lend!Last, LendOpen, View
  <2>4. Lend!IsOnlyCall(t) <=>
          \A u \in Threads : \A i \in 1..Len(LendOpen[u]) :
            LendOpen[u][i].obj = Lend!Last(t).obj => u = t /\ i = Len(LendOpen[t])
    BY DEF Lend!IsOnlyCall, LendOpen, View
  <2>5. Lend!IsOnlyCall(t) <=>
          \A u \in Threads : \A i \in 1..Depth(u) :
            stack[u][i].obj = Top(t).obj => u = t /\ i = Depth(t)
    BY <1>1, <2>3, <2>4 DEF Shown
  <2> QED
    BY <2>2, <2>3, <2>5 DEF OpenElsewhere
<1>4. ASSUME NEW l, l \in Lend!Promised
      PROVE  l \in Lists /\ \E u \in Threads : \E i \in 1..Depth(u) :
               stack[u][i].own = l /\ Sound(stack[u][i].obj)
  <2>1. l \in Lists /\ \E u \in Threads : \E i \in 1..Len(LendOpen[u]) :
          LendOpen[u][i].own = l /\ LendOpen[u][i].obj \notin replaced \cup crossed
    BY <1>4 DEF Lend!Promised, LendOpen, View
  <2> QED
    BY <1>1, <2>1 DEF Sound
<1> QED
  BY <1>2, <1>3, <1>4

\* A call of an object that is not sound keeps clear of the lists of those that
\* are.
LEMMA OthersAreSafe ==
  ASSUME IInv, NEW t \in Threads, stack[t] # <<>>, ~Sound(Top(t).obj)
  PROVE  /\ prog[Top(t).cp].roots \notin Lend!Promised
         /\ prog[cp[Top(t).obj]].roots \notin Lend!Promised
<1>1. /\ Top(t).obj \in Objects /\ cp[Top(t).obj] \in Progs /\ Top(t).cp \in Progs
      /\ cp[Top(t).obj] # None /\ None \notin Lists
      /\ cp[Top(t).obj] # Top(t).cp => prog[Top(t).cp].roots = None
  BY TopCall, PathTypes, PythonAssumption
<1>2. ASSUME prog[cp[Top(t).obj]].roots \in Lend!Promised
      PROVE  FALSE
  <2> DEFINE l == prog[cp[Top(t).obj]].roots
  <2>1. l \in Lists /\ \E u \in Threads : \E i \in 1..Depth(u) :
          stack[u][i].own = l /\ Sound(stack[u][i].obj)
    BY <1>2, LendGuards
  <2>2. PICK u \in Threads : \E i \in 1..Depth(u) :
               stack[u][i].own = l /\ Sound(stack[u][i].obj)
    BY <2>1
  <2>3. PICK i \in 1..Depth(u) : stack[u][i].own = l /\ Sound(stack[u][i].obj)
    BY <2>2
  <2>4. /\ stack[u][i].obj \in Objects /\ stack[u][i].cp \in Progs
        /\ cp[stack[u][i].obj] = stack[u][i].cp
    BY <2>3, OpenCall DEF Sound
  <2>5. l # None
    BY <1>1, <2>1
  <2>6. prog[stack[u][i].cp].roots = l
    BY <2>3, <2>5 DEF IInv, LendsAlone
  <2>7. stack[u][i].cp = cp[Top(t).obj]
    BY <1>1, <2>4, <2>5, <2>6 DEF IInv, LendsAlone
  <2>8. stack[u][i].obj = Top(t).obj
    BY <1>1, <2>4, <2>7, PathOf
  <2> QED
    BY <2>3, <2>8
<1>3. None \notin Lend!Promised
  BY <1>1, LendGuards
<1> QED
  BY <1>1, <1>2, <1>3

\* For whoever looks at lists, a step is one of CsonpathLend or none.
LendStutter == UNCHANGED <<LendOpen, held, replaced, crossed>>

LEMMA LendBegin ==
  ASSUME IInv, NEW t \in Threads, NEW o \in Objects, NEW l \in Roots, Call(t, o, l)
  PROVE  Lend!Begin(t, o, l)
<1> DEFINE f == [obj |-> o, cp |-> cp[o], pc |-> "walk", failed |-> FALSE,
                 own |-> l, got |-> Unread, bad |-> "none"]
<1>1. cp[o] \in Progs
  BY PathOf DEF Call
<1>2. f \in Frame /\ Shown(f) = [obj |-> o, own |-> l, got |-> Unread]
  BY <1>1 DEF Frame, Shown
<1>3. LendOpen' = [LendOpen EXCEPT ![t] = Append(@, [obj |-> o, own |-> l, got |-> Unread])]
  BY <1>2, ViewPush DEF Call
<1>4. (replaced \cup crossed)' =
        IF Lend!Crosses(t, o, l) THEN (replaced \cup crossed) \cup {o} ELSE replaced \cup crossed
  BY LendGuards DEF Call
<1> QED
  BY <1>3, <1>4 DEF Call, Lend!Begin, LendOpen, View

LEMMA LendEnd ==
  ASSUME IInv, NEW t \in Threads, Return(t)
  PROVE  Lend!End(t)
<1> DEFINE r == prog[cp[Top(t).obj]].roots
           S == replaced \cup crossed
<1>1. /\ stack[t] # <<>> /\ stack' = [stack EXCEPT ![t] = SubSeq(@, 1, Len(@) - 1)]
      /\ held' = held \ {r}
      /\ replaced' = After(t, replaced) /\ crossed' = After(t, crossed)
  BY DEF Return, At
<1>2. LendOpen' = [LendOpen EXCEPT ![t] = SubSeq(@, 1, Len(@) - 1)]
  BY <1>1, ViewPop
<1>3. /\ LendOpen[t] # <<>> /\ Lend!Last(t).obj = Top(t).obj /\ Lend!Last(t).own = Top(t).own
      /\ OpenElsewhere(t) <=> ~Lend!IsOnlyCall(t)
  BY <1>1, LendGuards DEF Shown
<1>4. r \in IF Lend!Last(t).obj \in S THEN (held \ Lend!Promised) \cup {None}
            ELSE {Lend!Last(t).own}
  <2>1. CASE Sound(Top(t).obj)
    BY <1>1, <1>3, <2>1, RootsAreOwn DEF Sound
  <2>2. CASE ~Sound(Top(t).obj)
    <3>1. r # None => r \in held
      BY <1>1, TopCall DEF IInv, LendsAlone
    <3> QED
      BY <1>1, <1>3, <2>2, <3>1, OthersAreSafe DEF Sound
  <2> QED
    BY <2>1, <2>2
<1>5. (replaced \cup crossed)' =
        IF Lend!IsOnlyCall(t) THEN S \ {Lend!Last(t).obj} ELSE S
  BY <1>1, <1>3 DEF After
<1> QED
  BY <1>1, <1>2, <1>3, <1>4, <1>5 DEF Lend!End, LendOpen, View

LEMMA LendRead ==
  ASSUME IInv, NEW t \in Threads, ReadRoots(t)
  PROVE  Lend!Read(t)
<1> DEFINE r == prog[Top(t).cp].roots
           f1 == [Top(t) EXCEPT !.got = r]
           f2 == [f1 EXCEPT !.pc = "end", !.failed = TRUE, !.bad = "error"]
           f3 == [f1 EXCEPT !.bad = "operand"]
<1>1. /\ stack[t] # <<>> /\ UNCHANGED <<held, replaced, crossed>>
      /\ SetTop(t, f1) \/ SetTop(t, f2) \/ SetTop(t, f3)
  BY DEF ReadRoots, At
<1>2. Top(t) \in Frame /\ r \in Roots
  BY <1>1, TopCall
<1>3. \A f \in {f1, f2, f3} :
        f \in Frame /\ f.obj = Top(t).obj /\ f.own = Top(t).own /\ f.got = r
  BY <1>2 DEF Frame
<1>4. PICK f \in Frame : SetTop(t, f) /\ f.obj = Top(t).obj /\ f.own = Top(t).own /\ f.got = r
  BY <1>1, <1>3
<1>5. LendOpen' = [LendOpen EXCEPT ![t][Len(LendOpen[t])].got = r]
  BY <1>1, <1>4, ViewRead
<1>6. /\ LendOpen[t] # <<>> /\ Lend!Last(t).obj = Top(t).obj /\ Lend!Last(t).own = Top(t).own
  BY <1>1, LendGuards DEF Shown
<1>7. r \in IF Lend!Last(t).obj \in replaced \cup crossed
            THEN (Lists \ Lend!Promised) \cup {None} ELSE {Lend!Last(t).own}
  <2>1. CASE Sound(Top(t).obj)
    BY <1>1, <1>6, <2>1, RootsAreOwn DEF Sound
  <2>2. CASE ~Sound(Top(t).obj)
    BY <1>1, <1>2, <1>6, <2>2, OthersAreSafe DEF Sound, Roots
  <2> QED
    BY <2>1, <2>2
<1> QED
  BY <1>1, <1>5, <1>6, <1>7 DEF Lend!Read, LendOpen, View

LEMMA LendForget ==
  ASSUME IInv, NEW t \in Threads, CallUser(t)
  PROVE  Lend!Forget(t)
<1> DEFINE f == [Top(t) EXCEPT !.pc = "user", !.got = Unread]
<1>1. stack[t] # <<>> /\ UNCHANGED <<held, replaced, crossed>> /\ SetTop(t, f)
  BY DEF CallUser, At
<1>2. f \in Frame /\ f.obj = Top(t).obj /\ f.own = Top(t).own /\ f.got = Unread
  BY <1>1, TopCall DEF Frame
<1>3. LendOpen' = [LendOpen EXCEPT ![t][Len(LendOpen[t])].got = Unread]
  BY <1>1, <1>2, ViewRead
<1>4. LendOpen[t] # <<>>
  BY <1>1, LendGuards
<1> QED
  BY <1>1, <1>3, <1>4 DEF Lend!Forget, LendOpen, View

LEMMA LendSpoil ==
  ASSUME IInv, NEW t \in Threads, NEW o \in Objects, NEW p \in Progs, SetPath(t, o, p)
  PROVE  LendStutter \/ Lend!Spoil(o)
<1>1. UNCHANGED <<stack, held, crossed>>
  BY DEF SetPath
<1>2. LendOpen' = LendOpen
  BY <1>1 DEF LendOpen, View, Depth
<1>3. CASE UNCHANGED replaced
  BY <1>1, <1>2, <1>3 DEF LendStutter
<1>4. CASE Open(o) /\ replaced' = replaced \cup {o}
  <2>1. \E u \in Threads : \E i \in 1..Len(LendOpen[u]) : LendOpen[u][i].obj = o
    BY <1>4, ShownFacts DEF Open
  <2>2. (replaced \cup crossed)' = (replaced \cup crossed) \cup {o}
    BY <1>1, <1>4
  <2> QED
    BY <1>1, <1>2, <2>1, <2>2 DEF Lend!Spoil, LendOpen, View
<1> QED
  BY <1>3, <1>4 DEF SetPath

LEMMA LendIdle ==
  ASSUME IInv, NEW t \in Threads,
         WalkEnds(t) \/ CallbackRaises(t) \/ CallbackReturns(t) \/ Catch(t)
  PROVE  LendStutter
<1>1. UNCHANGED <<held, replaced, crossed>>
  BY DEF WalkEnds, CallbackRaises, CallbackReturns, Catch
<1>2. CASE WalkEnds(t) \/ CallbackRaises(t) \/ CallbackReturns(t)
  <2> DEFINE f1 == [Top(t) EXCEPT !.pc = "end"]
             f2 == [Top(t) EXCEPT !.pc = "end", !.failed = TRUE, !.bad = "error"]
             f3 == [Top(t) EXCEPT !.pc = "walk"]
  <2>1. stack[t] # <<>> /\ (SetTop(t, f1) \/ SetTop(t, f2) \/ SetTop(t, f3))
    BY <1>2 DEF WalkEnds, CallbackRaises, CallbackReturns, At
  <2>2. \A f \in {f1, f2, f3} : f \in Frame /\ Shown(f) = Shown(Top(t))
    BY <2>1, TopCall DEF Frame, Shown
  <2>3. PICK f \in Frame : SetTop(t, f) /\ Shown(f) = Shown(Top(t))
    BY <2>1, <2>2
  <2>4. /\ \A u \in Threads : Depth(u)' = Depth(u)
        /\ \A u \in Threads : \A i \in 1..Depth(u) :
             stack'[u][i] = IF u = t /\ i = Depth(t) THEN f ELSE stack[u][i]
    BY <2>1, <2>3, SetFacts DEF IInv
  <2>5. \A u \in Threads : \A i \in 1..Depth(u) : Shown(stack'[u][i]) = Shown(stack[u][i])
    BY <2>1, <2>3, <2>4, TopCall
  <2> QED
    BY <1>1, <2>4, <2>5, ViewKept DEF LendStutter
<1>3. CASE Catch(t)
  <2>1. /\ \A u \in Threads : Depth(u)' = Depth(u)
        /\ \A u \in Threads : \A i \in 1..Depth(u) :
             stack'[u][i] = IF u = t THEN Handled(stack[u][i]) ELSE stack[u][i]
    BY <1>3, CatchFacts DEF IInv
  <2>2. \A f \in Frame : Shown(Handled(f)) = Shown(f)
    BY DEF Handled, Frame, Shown
  <2>3. \A u \in Threads : \A i \in 1..Depth(u) : Shown(stack'[u][i]) = Shown(stack[u][i])
    BY <2>1, <2>2, OpenCall
  <2> QED
    BY <1>1, <2>1, <2>3, ViewKept DEF LendStutter
<1> QED
  BY <1>2, <1>3

LEMMA LendStep ==
  ASSUME IInv, [Next]_vars
  PROVE  LendStutter \/ Lend!Next
<1>1. CASE UNCHANGED <<stack, held, replaced, crossed>>
  BY <1>1 DEF LendStutter, LendOpen, View, Depth
<1>2. ASSUME NEW t \in Threads, UserStep(t) \/ WalkStep(t)
      PROVE  \/ UNCHANGED <<stack, held, replaced, crossed>>
             \/ \E o \in Objects, l \in Roots : Call(t, o, l)
             \/ \E o \in Objects, p \in Progs : SetPath(t, o, p)
             \/ Return(t) \/ ReadRoots(t) \/ CallUser(t)
             \/ WalkEnds(t) \/ CallbackRaises(t) \/ CallbackReturns(t) \/ Catch(t)
  BY <1>2 DEF UserStep, WalkStep, Dealloc, New, Switch
<1>3. /\ \A t \in Threads : Lend!Read(t) \/ Lend!Forget(t) \/ Lend!End(t) => Lend!Next
      /\ \A t \in Threads, o \in Objects, l \in Roots : Lend!Begin(t, o, l) => Lend!Next
      /\ \A o \in Objects : Lend!Spoil(o) => Lend!Next
  BY DEF Lend!Next, Roots
<1>4. ASSUME NEW t \in Threads, UserStep(t) \/ WalkStep(t)
      PROVE  LendStutter \/ Lend!Next
  <2>1. CASE \E o \in Objects, l \in Roots : Call(t, o, l)
    BY <1>3, <2>1, LendBegin
  <2>2. CASE \E o \in Objects, p \in Progs : SetPath(t, o, p)
    BY <1>3, <2>2, LendSpoil
  <2>3. CASE Return(t)
    BY <1>3, <2>3, LendEnd
  <2>4. CASE ReadRoots(t)
    BY <1>3, <2>4, LendRead
  <2>5. CASE CallUser(t)
    BY <1>3, <2>5, LendForget
  <2>6. CASE WalkEnds(t) \/ CallbackRaises(t) \/ CallbackReturns(t) \/ Catch(t)
    BY <2>6, LendIdle
  <2> QED
    BY <1>1, <1>2, <1>4, <2>1, <2>2, <2>3, <2>4, <2>5, <2>6
<1> QED
  BY <1>1, <1>4 DEF Next, vars

\* The extra roots of a compiled path behave as though each call of the object
\* had its own: csonpath_python.c 274-295 implements CsonpathLend, whatever
\* calls users make.  Where calls of an object get into each other's way, or it
\* gets a new path under one, the promise is off for that object until they have
\* ended, and kept to every other.
THEOREM ExtraRootsAreLent == Spec => RootsAreLent
<1>1. Init => Lend!Init
  <2> SUFFICES ASSUME Init PROVE Lend!Init
    OBVIOUS
  <2>1. \A t \in Threads : Depth(t) = 0
    BY DEF Init, Depth
  <2>2. \A t \in Threads : View(t) = <<>>
    <3>1. ASSUME NEW t \in Threads
          PROVE  View(t) \in Seq({}) /\ Len(View(t)) = 0
      BY <2>1 DEF View
    <3> QED
      BY <3>1, EmptySeq
  <2> QED
    BY <2>2 DEF Init, Lend!Init, View
<1>2. IInv /\ [Next]_vars => [Lend!Next]_(Lend!vars)
  <2>1. LendStutter => UNCHANGED Lend!vars
    BY DEF LendStutter, Lend!vars, LendOpen, View
  <2> QED
    BY <2>1, LendStep
<1> QED
  BY <1>1, <1>2, Invariant, PTL DEF Spec, RootsAreLent, Lend!Spec

--------------------------------------------------------------------------------
(***************************************************************************)
(* Errors.  An error that ends its call makes csonpath_<op> return -1; that *)
(* of an operand stays with the thread until user code handles it.         *)
(***************************************************************************)

ErrorsAreKept ==
  \A t \in Threads : \A i \in 1..Depth(t) :
    /\ stack[t][i].bad = "error" => stack[t][i].failed
    /\ stack[t][i].bad = "operand" => stack[t][i].failed \/ err[t]

LEMMA SetKept ==
  ASSUME IInv, ErrorsAreKept, NEW t \in Threads, stack[t] # <<>>, NEW f \in Frame,
         SetTop(t, f), f.bad = "error" => f.failed,
         f.bad = "operand" => f.failed \/ err'[t],
         \A u \in Threads : err[u] => err'[u]
  PROVE  /\ ErrorsAreKept' /\ \A u \in Threads : Depth(u)' = Depth(u)
<1>1. /\ \A u \in Threads : Depth(u)' = Depth(u)
      /\ \A u \in Threads : \A i \in 1..Depth(u) :
           stack'[u][i] = IF u = t /\ i = Depth(t) THEN f ELSE stack[u][i]
  BY SetFacts DEF IInv
<1> QED
  BY <1>1 DEF ErrorsAreKept

LEMMA ErrorStep ==
  ASSUME IInv, ErrorsAreKept, [Next]_vars
  PROVE  /\ ErrorsAreKept'
         /\ \A t \in Threads :
              Len(stack'[t]) < Depth(t) /\ Top(t).bad \in {"operand", "error"} => err'[t]
<1> DEFINE Kept == ErrorsAreKept' /\ \A u \in Threads : Depth(u)' = Depth(u)
<1>1. ASSUME stack' = stack, \A u \in Threads : err[u] => err'[u]
      PROVE  Kept
  BY <1>1 DEF ErrorsAreKept, Depth
<1>2. ASSUME NEW t \in Threads, ReadRoots(t)
      PROVE  Kept
  <2> DEFINE r == prog[Top(t).cp].roots
             f1 == [Top(t) EXCEPT !.got = r]
             f2 == [f1 EXCEPT !.pc = "end", !.failed = TRUE, !.bad = "error"]
             f3 == [f1 EXCEPT !.bad = "operand"]
  <2>1. stack[t] # <<>>
    BY <1>2 DEF ReadRoots, At
  <2>2. Top(t) \in Frame /\ r \in Roots /\ Top(t) = stack[t][Depth(t)]
        /\ Depth(t) \in 1..Depth(t)
    BY <2>1, TopCall
  <2>3. /\ f1 \in Frame /\ f1.bad = Top(t).bad /\ f1.failed = Top(t).failed
        /\ f2 \in Frame /\ f2.bad = "error" /\ f2.failed
        /\ f3 \in Frame /\ f3.bad = "operand"
    BY <2>2 DEF Frame
  <2>4. /\ Top(t).bad = "error" => Top(t).failed
        /\ Top(t).bad = "operand" => Top(t).failed \/ err[t]
    BY <2>2 DEF ErrorsAreKept
  <2>5. err \in [Threads -> BOOLEAN]
    BY DEF IInv, TypeOK
  <2>6. CASE SetTop(t, f1) /\ UNCHANGED err
    BY <2>1, <2>3, <2>4, <2>6, SetKept
  <2>7. CASE (SetTop(t, f2) \/ SetTop(t, f3)) /\ err' = [err EXCEPT ![t] = TRUE]
    <3>1. err'[t] /\ \A u \in Threads : err[u] => err'[u]
      BY <2>5, <2>7
    <3> QED
      BY <2>1, <2>3, <2>7, <3>1, SetKept
  <2> QED
    BY <1>2, <2>6, <2>7 DEF ReadRoots
<1>3. ASSUME NEW t \in Threads,
             CallUser(t) \/ WalkEnds(t) \/ CallbackRaises(t) \/ CallbackReturns(t)
      PROVE  Kept
  <2> DEFINE f1 == [Top(t) EXCEPT !.pc = "user", !.got = Unread]
             f2 == [Top(t) EXCEPT !.pc = "end"]
             f3 == [Top(t) EXCEPT !.pc = "end", !.failed = TRUE, !.bad = "error"]
             f4 == [Top(t) EXCEPT !.pc = "walk"]
  <2>1. /\ stack[t] # <<>>
        /\ SetTop(t, f1) \/ SetTop(t, f2) \/ SetTop(t, f3) \/ SetTop(t, f4)
    BY <1>3 DEF CallUser, WalkEnds, CallbackRaises, CallbackReturns, At
  <2>2. Top(t) \in Frame /\ Top(t) = stack[t][Depth(t)] /\ Depth(t) \in 1..Depth(t)
    BY <2>1, TopCall
  <2>3. /\ Top(t).bad = "error" => Top(t).failed
        /\ Top(t).bad = "operand" => Top(t).failed \/ err[t]
    BY <2>2 DEF ErrorsAreKept
  <2>4. \A u \in Threads : err[u] => err'[u]
    BY <1>3 DEF CallUser, WalkEnds, CallbackRaises, CallbackReturns, IInv, TypeOK
  <2>5. \A f \in {f1, f2, f4} : f \in Frame /\ f.bad = Top(t).bad /\ f.failed = Top(t).failed
    BY <2>2 DEF Frame
  <2>6. f3 \in Frame /\ f3.bad = "error" /\ f3.failed
    BY <2>2 DEF Frame
  <2>7. PICK f \in {f1, f2, f3, f4} : SetTop(t, f)
    BY <2>1
  <2>8. /\ f \in Frame /\ f.bad = "error" => f.failed
        /\ f.bad = "operand" => f.failed \/ err'[t]
    BY <2>3, <2>4, <2>5, <2>6
  <2> QED
    BY <2>1, <2>4, <2>5, <2>6, <2>7, <2>8, SetKept
<1>4. ASSUME NEW t \in Threads, NEW o \in Objects, NEW l \in Roots, Call(t, o, l)
      PROVE  ErrorsAreKept' /\ \A u \in Threads : ~(Depth(u)' < Depth(u))
  <2> DEFINE f == [obj |-> o, cp |-> cp[o], pc |-> "walk", failed |-> FALSE,
                   own |-> l, got |-> Unread, bad |-> "none"]
  <2>1. cp[o] \in Progs
    BY <1>4, PathOf DEF Call
  <2>2. f \in Frame /\ f.bad = "none"
    BY <2>1 DEF Frame
  <2>3. stack' = [stack EXCEPT ![t] = Append(@, f)] /\ err' = err
    BY <1>4 DEF Call
  <2>4. /\ \A u \in Threads : Depth(u)' = IF u = t THEN Depth(t) + 1 ELSE Depth(u)
        /\ stack'[t][Depth(t) + 1] = f
        /\ \A u \in Threads : \A i \in 1..Depth(u) : stack'[u][i] = stack[u][i]
    BY <2>2, <2>3, PushFacts DEF IInv
  <2>5. \A u \in Threads : Depth(u) \in Nat
    BY StackType DEF IInv
  <2>6. \A u \in Threads : \A i \in 1..Depth(u)' :
          \/ i \in 1..Depth(u) /\ stack'[u][i] = stack[u][i]
          \/ stack'[u][i] = f
    BY <2>4, <2>5
  <2>7. ErrorsAreKept'
    BY <2>2, <2>3, <2>6 DEF ErrorsAreKept
  <2> QED
    BY <2>4, <2>5, <2>7
<1>5. ASSUME NEW t \in Threads, Return(t)
      PROVE  /\ ErrorsAreKept' /\ \A u \in Threads : u # t => Depth(u)' = Depth(u)
             /\ Top(t).bad \in {"operand", "error"} => err'[t]
  <2>1. /\ stack[t] # <<>> /\ stack' = [stack EXCEPT ![t] = SubSeq(@, 1, Len(@) - 1)]
        /\ err' = [err EXCEPT ![t] = @ \/ Top(t).failed]
    BY <1>5 DEF Return, At
  <2>2. /\ \A u \in Threads : Depth(u)' = IF u = t THEN Depth(t) - 1 ELSE Depth(u)
        /\ \A u \in Threads : \A i \in 1..Depth(u)' : stack'[u][i] = stack[u][i]
    BY <2>1, PopFacts DEF IInv
  <2>3. \A u \in Threads : \A i \in 1..Depth(u)' : i \in 1..Depth(u)
    BY <2>1, <2>2, TopCall, StackType DEF IInv
  <2>4. /\ err'[t] <=> err[t] \/ Top(t).failed
        /\ \A u \in Threads : err[u] => err'[u]
    BY <2>1 DEF IInv, TypeOK
  <2>5. ErrorsAreKept'
    BY <2>2, <2>3, <2>4 DEF ErrorsAreKept
  <2>6. Top(t).bad \in {"operand", "error"} => Top(t).failed \/ err[t]
    BY <2>1, TopCall DEF ErrorsAreKept
  <2> QED
    BY <2>2, <2>4, <2>5, <2>6
<1>6. ASSUME NEW t \in Threads, Catch(t)
      PROVE  Kept
  <2>1. /\ \A u \in Threads : Depth(u)' = Depth(u)
        /\ \A u \in Threads : \A i \in 1..Depth(u) :
             stack'[u][i] = IF u = t THEN Handled(stack[u][i]) ELSE stack[u][i]
    BY <1>6, CatchFacts DEF IInv
  <2>2. \A f \in Frame : /\ Handled(f).bad # "operand" /\ Handled(f).failed = f.failed
                         /\ Handled(f).bad = "error" => f.bad = "error"
    BY DEF Handled, Frame
  <2>3. \A u \in Threads : u # t => err'[u] = err[u]
    BY <1>6 DEF Catch, IInv, TypeOK
  <2>4. ASSUME NEW u \in Threads, NEW i \in 1..Depth(u)
        PROVE  /\ stack'[u][i].bad = "error" => stack'[u][i].failed
               /\ stack'[u][i].bad = "operand" => stack'[u][i].failed \/ err'[u]
    BY <2>1, <2>2, <2>3, OpenCall DEF ErrorsAreKept
  <2> QED
    BY <2>1, <2>4 DEF ErrorsAreKept
<1>7. ASSUME NEW t \in Threads, UserStep(t) \/ WalkStep(t)
      PROVE  \/ stack' = stack /\ \A u \in Threads : err[u] => err'[u]
             \/ \E o \in Objects, l \in Roots : Call(t, o, l)
             \/ Return(t) \/ ReadRoots(t) \/ Catch(t)
             \/ CallUser(t) \/ WalkEnds(t) \/ CallbackRaises(t) \/ CallbackReturns(t)
  BY <1>7 DEF UserStep, WalkStep, Dealloc, SetPath, New, Switch, IInv, TypeOK
<1>8. \A u \in Threads : Depth(u) \in Nat /\ Depth(u)' = Len(stack'[u])
  BY StackType DEF IInv, Depth
<1>9. ASSUME Kept
      PROVE  \A u \in Threads : ~(Len(stack'[u]) < Depth(u))
  BY <1>8, <1>9
<1>10. ASSUME NEW t \in Threads, UserStep(t) \/ WalkStep(t)
       PROVE  /\ ErrorsAreKept'
              /\ \A u \in Threads : Len(stack'[u]) < Depth(u)
                   /\ Top(u).bad \in {"operand", "error"} => err'[u]
  <2>1. CASE stack' = stack /\ \A u \in Threads : err[u] => err'[u]
    BY <1>1, <1>9, <2>1
  <2>2. CASE \E o \in Objects, l \in Roots : Call(t, o, l)
    BY <1>4, <1>8, <2>2
  <2>3. CASE Return(t)
    BY <1>5, <1>8, <2>3
  <2>4. CASE ReadRoots(t) \/ CallUser(t) \/ WalkEnds(t) \/ CallbackRaises(t)
             \/ CallbackReturns(t) \/ Catch(t)
    BY <1>2, <1>3, <1>6, <1>9, <2>4
  <2> QED
    BY <1>7, <1>10, <2>1, <2>2, <2>3, <2>4
<1>11. CASE UNCHANGED vars
  BY <1>1, <1>9, <1>11 DEF vars
<1> QED
  BY <1>10, <1>11 DEF Next

\* A call in which an error was reported raises (the PyErr_Occurred tests of
\* csonpath_python.c 343-470), unless it was the error of a filter's operand and
\* user code handled it meanwhile.
THEOREM ErrorsRaise == Spec => UnhandledErrorIsRaised
<1>1. Init => ErrorsAreKept
  BY DEF Init, ErrorsAreKept, Depth
<1>2. IInv /\ ErrorsAreKept /\ [Next]_vars =>
        /\ ErrorsAreKept'
        /\ [\A t \in Threads : Len(stack'[t]) < Depth(t)
              /\ Top(t).bad \in {"operand", "error"} => err'[t]]_vars
  BY ErrorStep
<1> QED
  BY <1>1, <1>2, Invariant, PTL DEF Spec, UnhandledErrorIsRaised

================================================================================
