-------------------------- MODULE CsonpathFuzz_proofs --------------------------
(***************************************************************************)
(* Whatever the document, the paths and the values to leave alone, what a  *)
(* fuzzer changes can be put back, and it gives back the references it     *)
(* took.                                                                   *)
(*                                                                         *)
(* Restorable is not inductive by itself.  To show that a step puts a      *)
(* value back into the slot it came from, one needs that the slot is still *)
(* there, and that what is in it now is no part of the document and has no *)
(* children but those of the value it replaced (Fresh): so what is put     *)
(* back keeps them when it is released.  To show that a mutation does not  *)
(* release a part of the document, one needs that the parent is one        *)
(* (OnDocument) and that nothing else is changed at that time (Quiet).     *)
(***************************************************************************)
EXTENDS CsonpathFuzz, CsonpathDoc_proofs, FiniteSetTheorems

\* The slot that a child info designates is there.
Slot(h, n, info) ==
  /\ info.type # "NONE"
  /\ info.type = "STR" => KeyIndex(h, n, info.key) # {}
  /\ Position(h, n, info) \in DOMAIN h[n].kids

InSlot(h, n, info) == h[n].kids[Position(h, n, info)].at

\* Restorable, which the destruction of the fuzzer does not change.
Restored ==
  \A n \in Nodes : Alive(camp.doc, n) =>
    /\ heap[n].kind = camp.doc[n].kind
    /\ DOMAIN heap[n].kids = DOMAIN camp.doc[n].kids
    /\ \A i \in DOMAIN heap[n].kids :
         /\ heap[n].kids[i].key = camp.doc[n].kids[i].key
         /\ camp.doc[n].kids[i].at =
              IF snapshot # NULL /\ n = parent /\ i = Position(heap, n, ci)
              THEN snapshot ELSE heap[n].kids[i].at

\* The children of n in h are children of v in the document.
Shares(h, n, v) ==
  n \in Nodes => \A i \in DOMAIN h[n].kids :
    /\ IsContainer(camp.doc, v)
    /\ \E j \in DOMAIN camp.doc[v].kids : camp.doc[v].kids[j].at = h[n].kids[i].at

Fresh ==
  snapshot # NULL =>
    /\ Slot(heap, parent, ci) /\ ~Alive(camp.doc, InSlot(heap, parent, ci))
    /\ Alive(camp.doc, snapshot) /\ Shares(heap, InSlot(heap, parent, ci), snapshot)

Walking == {"do_action", "next_inst", "next_path"}
Quiet   == pc \in Walking => snapshot = NULL /\ path <= Len(camp.progs)

OnDocument ==
  /\ Alive(camp.doc, parent)
  /\ \A i \in DOMAIN frames : Alive(camp.doc, frames[i].container)

IInv ==
  camp \in Campaigns /\ TypeOK /\ Quiet /\ OnDocument /\ Restored /\ Fresh

--------------------------------------------------------------------------------
(***************************************************************************)
(* The campaign and the code of its paths.                                 *)
(***************************************************************************)

\* What csonpath_fuzzer_new is given.
LEMMA CampaignType ==
  ASSUME NEW c \in Campaigns
  PROVE  /\ c.doc \in Heap
         /\ Alive(c.doc, c.root) /\ c.root \in Nodes
         /\ c.progs \in Seq(Seq(Cells)) /\ 1 \in DOMAIN c.progs
         /\ Len(c.progs) \in Nat
         /\ c.skip \subseteq Nodes
         /\ \A n \in Nodes : \A i \in DOMAIN c.doc[n].kids :
              Alive(c.doc, n) =>
                c.doc[n].kids[i].at = NULL \/ Alive(c.doc, c.doc[n].kids[i].at)
  BY FuzzAssumption DEF Alive

\* An instruction has a key and a number.
LEMMA InstructionType ==
  ASSUME NEW prog \in Seq(Cells), NEW i \in Nat
  PROVE  /\ CellAt(prog, i).key \in Text
         /\ CellAt(prog, i).num \in Nat
         /\ NextInst(prog, i) \in Nat
<1>1. Outside.key \in Text /\ Outside.num \in Nat
  BY DEF Outside, Cell, Text, NoKey
<1>2. \A c \in Cells : c.key \in Text /\ c.num \in Nat
  BY DEF Cells
<1>3. i \in DOMAIN prog => prog[i] \in Cells
  OBVIOUS
<1> QED
  BY <1>1, <1>2, <1>3 DEF CellAt, NextInst

--------------------------------------------------------------------------------
(***************************************************************************)
(* The slot that is read, changed and put back.                            *)
(***************************************************************************)

\* A value that csonpath_fuzz_current gives is in the slot.
LEMMA Located ==
  ASSUME NEW h \in Heap, NEW n, NEW info \in ChildInfo,
         Refetch(h, n, info) # NULL
  PROVE  /\ n \in Nodes
         /\ Slot(h, n, info)
         /\ Refetch(h, n, info) = InSlot(h, n, info)
<1>1. CASE info.type = "STR"
  <2>1. Get(h, n, info.key) # NULL
    BY <1>1 DEF Refetch
  <2>2. IsObj(h, n) /\ KeyIndex(h, n, info.key) # {}
    BY <2>1 DEF Get
  <2>3. Position(h, n, info) \in KeyIndex(h, n, info.key)
    BY <1>1, <2>2 DEF Position
  <2>4. Position(h, n, info) \in DOMAIN h[n].kids
    BY <2>3 DEF KeyIndex
  <2> QED
    BY <1>1, <2>2, <2>4 DEF Refetch, Get, Slot, InSlot, Position, IsObj, IsKind
<1>2. CASE info.type = "INTEGER"
  <2>1. At(h, n, info.idx) # NULL
    BY <1>2 DEF Refetch
  <2>2. n \in Nodes /\ 0 <= info.idx /\ info.idx < Size(h, n)
    BY <2>1 DEF At, IsArray, IsKind
  <2>3. info.idx \in Int /\ Size(h, n) \in Nat /\ DOMAIN h[n].kids = 1..Size(h, n)
    BY <2>2, KidsType DEF ChildInfo
  <2>4. Position(h, n, info) = info.idx + 1
    BY <1>2 DEF Position
  <2>5. info.idx + 1 \in 1..Size(h, n)
    BY <2>2, <2>3
  <2> QED
    BY <1>2, <2>1, <2>2, <2>3, <2>4, <2>5 DEF Refetch, At, Slot, InSlot
<1>3. CASE info.type \notin {"STR", "INTEGER"}
  BY <1>3 DEF Refetch
<1> QED
  BY <1>1, <1>2, <1>3

\* Putting a value into a slot that is there: nothing is added or padded.
LEMMA PutIs ==
  ASSUME NEW h \in Heap, NEW n \in Nodes, NEW info \in ChildInfo, NEW v,
         NEW pinned, Slot(h, n, info)
  PROVE  AppendAt(h, n, info, v, pinned) =
           Release([h EXCEPT ![n].kids =
                      [h[n].kids EXCEPT ![Position(h, n, info)].at = v]],
                   InSlot(h, n, info), pinned)
<1> DEFINE kids == h[n].kids
           p    == Position(h, n, info)
           hit  == KeyIndex(h, n, info.key)
           i    == IF info.type = "STR"
                   THEN IF hit # {} THEN CHOOSE j \in hit : TRUE ELSE Len(kids) + 1
                   ELSE info.idx + 1
           new  == IF i \in DOMAIN kids THEN [kids EXCEPT ![i].at = v]
                   ELSE IF info.type = "STR" THEN Append(kids, [key |-> info.key, at |-> v])
                   ELSE [Padded(kids, info.idx) EXCEPT ![i].at = v]
           old  == IF i \in DOMAIN kids THEN kids[i].at ELSE NULL
<1>1. p \in DOMAIN kids /\ p > 0
  BY KidsType DEF Slot
<1>2. i = p
  BY DEF Slot, Position
<1>3. new = [kids EXCEPT ![p].at = v] /\ old = kids[p].at
  <2> HIDE DEF i, p, kids
  <2> QED
    BY <1>1, <1>2
<1>4. AppendAt(h, n, info, v, pinned) =
        IF i > 0 THEN Release([h EXCEPT ![n].kids = new], old, pinned) ELSE h
  BY DEF AppendAt
<1>5. i > 0
  <2> HIDE DEF i, p
  <2> QED
    BY <1>1, <1>2
<1> HIDE DEF i, new, old
<1> QED
  BY <1>3, <1>4, <1>5 DEF InSlot

\* The document in which the slot has v, before what was there is released.
Exchanging(h, n, info, v) ==
  [h EXCEPT ![n].kids = [h[n].kids EXCEPT ![Position(h, n, info)].at = v]]

\* No other slot changes.
LEMMA SlotChanges ==
  ASSUME NEW h \in Heap, NEW n \in Nodes, NEW info \in ChildInfo, NEW v \in ValueSet,
         Slot(h, n, info)
  PROVE  LET h1 == Exchanging(h, n, info, v) IN
         /\ h1 \in Heap
         /\ \A m \in Nodes :
              /\ h1[m].kind = h[m].kind
              /\ DOMAIN h1[m].kids = DOMAIN h[m].kids
              /\ \A i \in DOMAIN h[m].kids :
                   /\ h1[m].kids[i].key = h[m].kids[i].key
                   /\ h1[m].kids[i].at = IF m = n /\ i = Position(h, n, info)
                                         THEN v ELSE h[m].kids[i].at
<1> DEFINE p  == Position(h, n, info)
           ks == [h[n].kids EXCEPT ![p].at = v]
           h1 == Exchanging(h, n, info, v)
<1>1. h1 = [h EXCEPT ![n].kids = ks]
  BY DEF Exchanging
<1>2. h1 \in Heap
  <2>1. h[n].kids \in Seq(Entry)
    BY KidsType
  <2>2. ks \in Seq(Entry)
    BY <2>1, SetAtType
  <2> HIDE DEF ks, h1
  <2> QED
    BY <1>1, <2>2, KidsUpdate
<1>3. p \in DOMAIN h[n].kids
  BY DEF Slot
<1>4. DOMAIN ks = DOMAIN h[n].kids
  OBVIOUS
<1>5. \A i \in DOMAIN h[n].kids :
        /\ ks[i].key = h[n].kids[i].key
        /\ ks[i].at = IF i = p THEN v ELSE h[n].kids[i].at
  <2>1. \A i \in DOMAIN h[n].kids : h[n].kids[i] \in Entry
    BY KidsType
  <2> QED
    BY <1>3, <2>1 DEF Entry
<1> HIDE DEF ks, h1
<1>6. \A m \in Nodes : /\ h1[m].kind = h[m].kind
                       /\ h1[m].kids = IF m = n THEN ks ELSE h[m].kids
  BY <1>1 DEF Heap, Node
<1> HIDE DEF p
<1>7. \A m \in Nodes :
        /\ h1[m].kind = h[m].kind
        /\ DOMAIN h1[m].kids = DOMAIN h[m].kids
        /\ \A i \in DOMAIN h[m].kids :
             /\ h1[m].kids[i].key = h[m].kids[i].key
             /\ h1[m].kids[i].at = IF m = n /\ i = p THEN v ELSE h[m].kids[i].at
  BY <1>4, <1>5, <1>6
<1> QED
  BY <1>2, <1>7 DEF h1, p

\* A value that takes nothing with it when it is released: it is kept, or others
\* have its children too.
Alone(h, w, pinned) ==
  w \notin Nodes \/ w \in pinned \/ Contents(h, {w}) \subseteq Contents(h, Parents(h) \ {w})

LEMMA ReleasedAlone ==
  ASSUME NEW h \in Heap, NEW w, NEW pinned, Alone(h, w, pinned),
         NEW m \in Nodes, w \in pinned \/ m # w
  PROVE  Release(h, w, pinned)[m] = h[m]
<1> DEFINE last == w \in Nodes /\ w \notin pinned /\ w \notin Contents(h, Parents(h))
           gone == IF last THEN Released(h, w, pinned)[Parents(h)] ELSE {}
<1>1. CASE ~last
  BY <1>1 DEF Release
<1>2. CASE last
  <2>1. HeldBy(h, Parents(h), {w}, pinned) = {}
    BY <1>2 DEF HeldBy, Alone
  <2>2. m \notin gone
    <3>1. CASE w \in Parents(h)
      <4>1. Closed(h, w, pinned, {w})
        BY <1>2, <2>1, <3>1 DEF Closed
      <4>2. ASSUME m \in Released(h, w, pinned)[Parents(h)] PROVE FALSE
        BY <1>2, <2>1, <4>1, <4>2, ReleasedInside
      <4> QED
        BY <4>2
    <3>2. CASE w \notin Parents(h)
      <4>1. Parents(h) \in SUBSET Nodes
        BY DEF Parents
      <4> QED
        BY <1>2, <3>2, <4>1 DEF Released
    <3> QED
      BY <3>1, <3>2
  <2>3. Release(h, w, pinned) =
          [x \in Nodes |-> IF x \in gone THEN [h[x] EXCEPT !.kind = "freed"] ELSE h[x]]
    BY ReleaseNodes
  <2> HIDE DEF gone
  <2> QED
    BY <2>2, <2>3
<1> QED
  BY <1>1, <1>2

\* A node that is not released for it keeps its other slots.
LEMMA PutKeeps ==
  ASSUME NEW h \in Heap, NEW n \in Nodes, NEW info \in ChildInfo, NEW v \in ValueSet,
         NEW pinned, Slot(h, n, info),
         NEW w, w = InSlot(h, n, info), Alone(Exchanging(h, n, info, v), w, pinned),
         NEW m \in Nodes, w \in pinned \/ m # w
  PROVE  LET h2 == AppendAt(h, n, info, v, pinned) IN
         /\ h2[m].kind = h[m].kind
         /\ DOMAIN h2[m].kids = DOMAIN h[m].kids
         /\ \A i \in DOMAIN h[m].kids :
              /\ h2[m].kids[i].key = h[m].kids[i].key
              /\ h2[m].kids[i].at = IF m = n /\ i = Position(h, n, info)
                                    THEN v ELSE h[m].kids[i].at
<1> DEFINE h1 == Exchanging(h, n, info, v)
           h2 == AppendAt(h, n, info, v, pinned)
<1>1. h2 = Release(h1, w, pinned)
  <2>1. h2 = Release([h EXCEPT ![n].kids =
                        [h[n].kids EXCEPT ![Position(h, n, info)].at = v]],
                     InSlot(h, n, info), pinned)
    BY PutIs
  <2> HIDE DEF h2
  <2> QED
    BY <2>1 DEF Exchanging
<1>2. h1 \in Heap
  BY SlotChanges
<1>3. Alone(h1, w, pinned)
  OBVIOUS
<1>4. h2[m] = h1[m]
  <2> HIDE DEF h1, h2
  <2> QED
    BY <1>1, <1>2, <1>3, ReleasedAlone
<1>5. /\ h1[m].kind = h[m].kind
      /\ DOMAIN h1[m].kids = DOMAIN h[m].kids
      /\ \A i \in DOMAIN h[m].kids :
           /\ h1[m].kids[i].key = h[m].kids[i].key
           /\ h1[m].kids[i].at = IF m = n /\ i = Position(h, n, info)
                                 THEN v ELSE h[m].kids[i].at
  BY SlotChanges
<1> HIDE DEF h1, h2
<1>6. /\ h2[m].kind = h[m].kind
      /\ DOMAIN h2[m].kids = DOMAIN h[m].kids
      /\ \A i \in DOMAIN h[m].kids :
           /\ h2[m].kids[i].key = h[m].kids[i].key
           /\ h2[m].kids[i].at = IF m = n /\ i = Position(h, n, info)
                                 THEN v ELSE h[m].kids[i].at
  BY <1>4, <1>5
<1> QED
  BY <1>6 DEF h2

\* A container that keeps its keys keeps its slots.
LEMMA SameSlot ==
  ASSUME NEW h, NEW h2, NEW n, NEW info,
         DOMAIN h2[n].kids = DOMAIN h[n].kids,
         \A i \in DOMAIN h[n].kids : h2[n].kids[i].key = h[n].kids[i].key
  PROVE  /\ Position(h2, n, info) = Position(h, n, info)
         /\ Slot(h2, n, info) <=> Slot(h, n, info)
<1>1. KeyIndex(h2, n, info.key) = KeyIndex(h, n, info.key)
  BY DEF KeyIndex
<1> QED
  BY <1>1 DEF Position, Slot

--------------------------------------------------------------------------------
(***************************************************************************)
(* Between two calls and during one.                                       *)
(***************************************************************************)

\* The document's own nodes are still there.
LEMMA StillThere ==
  ASSUME Restored, NEW n, Alive(camp.doc, n)
  PROVE  Alive(heap, n)
  BY DEF Restored, Alive

\* The value at a child of the document is one of the document's, when
\* nothing is changed.
LEMMA ChildrenAlive ==
  ASSUME IInv, snapshot = NULL,
         NEW n, Alive(camp.doc, n), NEW i \in DOMAIN heap[n].kids
  PROVE  /\ heap[n].kids[i].at \in ValueSet
         /\ heap[n].kids[i].at # NULL => Alive(camp.doc, heap[n].kids[i].at)
<1>1. n \in Nodes
  BY DEF Alive
<1>2. DOMAIN heap[n].kids = DOMAIN camp.doc[n].kids
      /\ camp.doc[n].kids[i].at = heap[n].kids[i].at
  BY <1>1 DEF IInv, Restored
<1>3. camp.doc[n].kids[i].at = NULL \/ Alive(camp.doc, camp.doc[n].kids[i].at)
  BY <1>1, <1>2, CampaignType DEF IInv
<1> QED
  BY <1>2, <1>3 DEF Alive, ValueSet

\* What csonpath_fuzz_current gives then.
LEMMA CurrentAlive ==
  ASSUME IInv, snapshot = NULL
  PROVE  /\ Current \in ValueSet
         /\ Current # NULL => /\ Alive(camp.doc, Current)
                              /\ Slot(heap, parent, ci)
                              /\ Current = InSlot(heap, parent, ci)
<1>1. heap \in Heap /\ ci \in ChildInfo
  BY DEF IInv, TypeOK
<1>2. Current \in ValueSet
  BY <1>1, RefetchType DEF Current
<1>3. ASSUME Current # NULL
      PROVE  /\ Alive(camp.doc, Current)
             /\ Slot(heap, parent, ci)
             /\ Current = InSlot(heap, parent, ci)
  <2>1. Slot(heap, parent, ci) /\ Current = InSlot(heap, parent, ci)
    BY <1>1, <1>3, Located DEF Current
  <2>2. Alive(camp.doc, parent) /\ Position(heap, parent, ci) \in DOMAIN heap[parent].kids
    BY <2>1 DEF IInv, OnDocument, Slot
  <2>3. Alive(camp.doc, Current)
    BY <1>3, <2>1, <2>2, ChildrenAlive DEF InSlot
  <2> QED
    BY <2>1, <2>3
<1> QED
  BY <1>2, <1>3

\* A step that changes nothing of the document, while nothing is changed.
LEMMA NothingChanged ==
  ASSUME IInv, snapshot = NULL, UNCHANGED <<camp, heap, snapshot>>
  PROVE  Restored' /\ Fresh'
<1>1. \A n \in Nodes : Alive(camp.doc, n) => Alive(camp.doc, n)'
  BY DEF Alive
<1>2. Restored'
  BY DEF IInv, Restored, Alive
<1>3. Fresh'
  BY DEF Fresh
<1> QED
  BY <1>2, <1>3

\* A step that leaves the document, and what is changed in it, as they are.
LEMMA SameDocument ==
  ASSUME Restored, Fresh, UNCHANGED <<camp, heap, snapshot, parent, ci>>
  PROVE  Restored' /\ Fresh'
<1>1. Restored'
  BY DEF Restored
<1>2. Fresh'
  BY DEF Fresh, Shares
<1> QED
  BY <1>1, <1>2

\* An instruction is executed on the value that the last one reached.
LEMMA CrawlFacts ==
  ASSUME IInv, NEW opcodes, Crawling(opcodes)
  PROVE  /\ pc = "next_inst" /\ snapshot = NULL /\ path <= Len(camp.progs)
         /\ heap \in Heap
         /\ parent' \in Nodes /\ Alive(camp.doc, parent')
         /\ CellAt(Prog, walker).key \in Text /\ CellAt(Prog, walker).num \in Nat
         /\ walker' \in Nat
         /\ camp' \in Campaigns
         /\ Restored' /\ Fresh'
<1>1. pc = "next_inst" /\ snapshot = NULL /\ path <= Len(camp.progs)
  BY DEF IInv, Quiet, Walking, Crawling
<1>2. heap \in Heap /\ walker \in Nat /\ path \in 1..(Len(camp.progs) + 1)
  BY DEF IInv, TypeOK
<1>3. Prog \in Seq(Cells)
  <2>1. camp.progs \in Seq(Seq(Cells)) /\ Len(camp.progs) \in Nat
    BY CampaignType DEF IInv
  <2>2. path \in 1..Len(camp.progs)
    BY <1>1, <1>2, <2>1
  <2> QED
    BY <2>1, <2>2 DEF Prog
<1>4. Alive(camp.doc, parent')
  <2>1. CASE ci.type = "NONE"
    BY <2>1 DEF Crawling, IInv, OnDocument
  <2>2. CASE ci.type # "NONE"
    BY <1>1, <2>2, CurrentAlive DEF Crawling
  <2> QED
    BY <2>1, <2>2
<1>5. Restored' /\ Fresh'
  BY <1>1, NothingChanged DEF Crawling
<1> QED
  BY <1>1, <1>2, <1>3, <1>4, <1>5, InstructionType DEF Alive, Crawling, IInv

\* Reaching a value leads to one of the labels.
LEMMA ReachType ==
  ASSUME NEW v \in ValueSet, Reach(v), seen \subseteq Nodes
  PROVE  pc' \in Walking /\ seen' \subseteq Nodes
<1>1. pc' \in Walking
  BY DEF Reach, Walking
<1>2. seen' \subseteq Nodes
  BY DEF Reach, ValueSet
<1> QED
  BY <1>1, <1>2

--------------------------------------------------------------------------------
(***************************************************************************)
(* The steps that move along the paths.                                    *)
(***************************************************************************)
LEMMA GetObjStep ==
  ASSUME IInv, GetObj
  PROVE  IInv'
<1> DEFINE key == CellAt(Prog, walker).key
<1>1. Crawling({"GET_OBJ"}) /\ ci' = KeyInfo(key) /\ Reach(Get(heap, parent', key))
      /\ UNCHANGED <<camp, heap, path, action, frames, owned, told, snapshot, done>>
  BY DEF GetObj, Crawling
<1>2. /\ snapshot = NULL /\ path <= Len(camp.progs)
      /\ heap \in Heap /\ key \in Text
      /\ parent' \in Nodes /\ Alive(camp.doc, parent') /\ walker' \in Nat
      /\ camp' \in Campaigns /\ Restored' /\ Fresh'
  BY <1>1, CrawlFacts
<1>3. Get(heap, parent', key) \in ValueSet
  BY <1>2, GetType
<1>4. seen \subseteq Nodes
  BY DEF IInv, TypeOK
<1>5. pc' \in Walking /\ seen' \subseteq Nodes
  BY <1>1, <1>3, <1>4, ReachType
<1>6. ci' \in ChildInfo
  BY <1>1, <1>2, InfoType
<1>7. TypeOK'
  BY <1>1, <1>2, <1>5, <1>6 DEF IInv, TypeOK, Walking, Labels, ValueSet
<1>8. Quiet'
  BY <1>1, <1>2 DEF Quiet
<1>9. OnDocument'
  BY <1>1, <1>2 DEF IInv, OnDocument, Alive
<1> QED
  BY <1>2, <1>7, <1>8, <1>9 DEF IInv

LEMMA GetArrayStep ==
  ASSUME IInv, GetArray
  PROVE  IInv'
<1> DEFINE idx == CellAt(Prog, walker).num
           op  == {"GET_ARRAY_SMALL", "GET_ARRAY_BIG"}
<1>1. Crawling(op) /\ ci' = IdxInfo(idx) /\ Reach(At(heap, parent', idx))
      /\ UNCHANGED <<camp, heap, path, action, frames, owned, told, snapshot, done>>
  BY DEF GetArray, Crawling
<1>2. /\ snapshot = NULL /\ path <= Len(camp.progs)
      /\ heap \in Heap /\ idx \in Int
      /\ parent' \in Nodes /\ Alive(camp.doc, parent') /\ walker' \in Nat
      /\ camp' \in Campaigns /\ Restored' /\ Fresh'
  BY <1>1, CrawlFacts
<1>3. At(heap, parent', idx) \in ValueSet
  BY <1>2, AtType
<1>4. seen \subseteq Nodes
  BY DEF IInv, TypeOK
<1>5. pc' \in Walking /\ seen' \subseteq Nodes
  BY <1>1, <1>3, <1>4, ReachType
<1>6. ci' \in ChildInfo
  BY <1>1, <1>2, InfoType
<1>7. TypeOK'
  BY <1>1, <1>2, <1>5, <1>6 DEF IInv, TypeOK, Walking, Labels, ValueSet
<1>8. Quiet'
  BY <1>1, <1>2 DEF Quiet
<1>9. OnDocument'
  BY <1>1, <1>2 DEF IInv, OnDocument, Alive
<1> QED
  BY <1>2, <1>7, <1>8, <1>9 DEF IInv

\* The stack of the loops, with the one that goes on advanced.
LEMMA LoopsType ==
  ASSUME IInv, NEW n \in Nodes, Alive(camp.doc, n), Looping \/ Len(frames) < MaxFrames
  PROVE  LET fs == Advanced(Entered(n)) IN
         /\ fs \in Seq(Frame) /\ Len(fs) \in 1..MaxFrames
         /\ \A i \in DOMAIN fs : Alive(camp.doc, fs[i].container)
<1> DEFINE es == Entered(n)
           fs == Advanced(es)
<1>1. frames \in Seq(Frame) /\ Len(frames) <= MaxFrames /\ walker \in Nat
      /\ MaxFrames \in Nat
  BY FuzzAssumption DEF IInv, TypeOK
<1>2. es \in Seq(Frame) /\ Len(es) \in 1..MaxFrames
      /\ \A i \in 1..Len(es) : Alive(camp.doc, es[i].container)
  <2>1. CASE Looping
    <3>1. es = frames /\ frames # <<>>
      BY <2>1 DEF Entered, Looping
    <3> QED
      BY <1>1, <3>1 DEF IInv, OnDocument
  <2>2. CASE ~Looping
    <3> DEFINE new == [container |-> n, idx |-> -1, inst |-> walker]
    <3>1. es = Append(frames, new) /\ Len(frames) < MaxFrames
      BY <2>2 DEF Entered
    <3>2. new \in Frame
      BY <1>1 DEF Frame, ValueSet
    <3>3. \A i \in 1..Len(frames) : Alive(camp.doc, frames[i].container)
      BY <1>1 DEF IInv, OnDocument
    <3>4. es \in Seq(Frame) /\ Len(es) = Len(frames) + 1
      BY <1>1, <3>1, <3>2
    <3>5. \A i \in 1..Len(es) : Alive(camp.doc, es[i].container)
      <4>1. \A i \in 1..Len(es) : es[i] = IF i <= Len(frames) THEN frames[i] ELSE new
        BY <1>1, <3>1, <3>2
      <4> HIDE DEF es, new
      <4>2. new.container = n
        BY DEF new
      <4> QED
        BY <1>1, <3>3, <3>4, <4>1, <4>2
    <3> QED
      BY <1>1, <3>1, <3>4, <3>5
  <2> QED
    BY <2>1, <2>2
<1>3. fs = [es EXCEPT ![Len(es)].idx = @ + 1]
  BY DEF Advanced
<1> HIDE DEF es, fs
<1>4. es[Len(es)] \in Frame
  BY <1>2
<1>5. [es[Len(es)] EXCEPT !.idx = @ + 1] \in Frame
  BY <1>4 DEF Frame
<1>6. fs \in Seq(Frame) /\ Len(fs) = Len(es) /\ DOMAIN fs = 1..Len(es)
  BY <1>2, <1>3, <1>5
<1>7. \A i \in 1..Len(es) : fs[i].container = es[i].container
  BY <1>2, <1>3, <1>4 DEF Frame
<1> QED
  BY <1>2, <1>6, <1>7 DEF fs, es

One(b) == IF b THEN 1 ELSE 0

\* Taking and dropping a reference to a value.
LEMMA OwnedType ==
  ASSUME NEW o \in [ValueSet -> Int], NEW v \in ValueSet
  PROVE  /\ Taken(o, v) \in [ValueSet -> Int]
         /\ Dropped(o, v) \in [ValueSet -> Int]
         /\ \A n \in Nodes : o[n] \in Int
         /\ \A n \in Nodes : Taken(o, v)[n] = o[n] + One(n = v)
         /\ \A n \in Nodes : Dropped(o, v)[n] = o[n] - One(n = v)
  BY DEF Taken, Dropped, One, ValueSet

LEMMA GetAllStep ==
  ASSUME IInv, GetAll
  PROVE  IInv'
<1> DEFINE fs   == Advanced(Entered(parent'))
           top  == fs[Len(fs)]
           refs == IF Looping THEN owned ELSE Taken(owned, parent')
           kids == IF IsContainer(heap, top.container)
                   THEN heap[top.container].kids ELSE <<>>
           i    == top.idx + 1
           more == i \in DOMAIN kids /\ kids[i].at # NULL
<1>1. /\ Crawling({"GET_ALL"})
      /\ Looping \/ Len(frames) < MaxFrames
      /\ IF i \in DOMAIN kids
         THEN /\ ci' = InfoSet(heap, top.container, kids[i].key, i - 1)
              /\ Reach(kids[i].at)
         ELSE pc' = "next_path" /\ UNCHANGED <<ci, seen>>
      /\ frames' = IF more THEN fs ELSE SubSeq(fs, 1, Len(fs) - 1)
      /\ owned' = IF more THEN refs ELSE Dropped(refs, top.container)
      /\ UNCHANGED told
  BY DEF GetAll
<1>2. UNCHANGED <<camp, heap, path, action, snapshot, done>>
  BY <1>1 DEF Crawling
<1>3. /\ snapshot = NULL /\ path <= Len(camp.progs)
      /\ heap \in Heap
      /\ parent' \in Nodes /\ Alive(camp.doc, parent') /\ walker' \in Nat
      /\ camp' \in Campaigns /\ Restored' /\ Fresh'
  BY <1>1, CrawlFacts
<1>4. /\ fs \in Seq(Frame) /\ Len(fs) \in 1..MaxFrames
      /\ \A k \in DOMAIN fs : Alive(camp.doc, fs[k].container)
  <2> HIDE DEF fs
  <2> SUFFICES LET gs == Advanced(Entered(parent')) IN
               /\ gs \in Seq(Frame) /\ Len(gs) \in 1..MaxFrames
               /\ \A k \in DOMAIN gs : Alive(camp.doc, gs[k].container)
    BY DEF fs
  <2> DEFINE n == parent'
  <2>1. n \in Nodes /\ Alive(camp.doc, n)
    BY <1>3
  <2>2. Looping \/ Len(frames) < MaxFrames
    BY <1>1
  <2> QED
    BY <2>1, <2>2, LoopsType
<1> HIDE DEF fs
<1>5. MaxFrames \in Nat /\ Len(fs) \in DOMAIN fs
  BY <1>4, FuzzAssumption
<1>6. top \in Frame /\ top.container \in Nodes /\ top.idx \in Int
  <2>1. top \in Frame
    BY <1>4, <1>5
  <2>2. Alive(camp.doc, top.container)
    BY <1>4, <1>5
  <2> HIDE DEF top
  <2> QED
    BY <2>1, <2>2 DEF Frame, Alive
<1>7. kids \in Seq(Entry)
  BY <1>3, <1>6, KidsType
<1>8. i \in DOMAIN kids => kids[i].key \in Text /\ kids[i].at \in ValueSet
  <2> HIDE DEF kids, i
  <2>1. i \in DOMAIN kids => kids[i] \in Entry
    BY <1>7
  <2> QED
    BY <2>1 DEF Entry
<1>9. seen \subseteq Nodes /\ ci \in ChildInfo
  BY DEF IInv, TypeOK
<1>10. pc' \in Walking /\ seen' \subseteq Nodes /\ ci' \in ChildInfo
  <2>1. CASE i \in DOMAIN kids
    <3>1. ci' = InfoSet(heap, top.container, kids[i].key, i - 1) /\ Reach(kids[i].at)
      BY <1>1, <2>1
    <3>2. kids[i].key \in Text /\ kids[i].at \in ValueSet /\ i - 1 \in Int
      BY <1>6, <1>8, <2>1
    <3> HIDE DEF kids, i, top
    <3>3. pc' \in Walking /\ seen' \subseteq Nodes
      BY <1>9, <3>1, <3>2, ReachType
    <3>4. ci' \in ChildInfo
      BY <3>1, <3>2, InfoType
    <3> QED
      BY <3>3, <3>4
  <2>2. CASE i \notin DOMAIN kids
    <3>1. pc' = "next_path" /\ UNCHANGED <<ci, seen>>
      BY <1>1, <2>2
    <3> QED
      BY <1>9, <3>1 DEF Walking
  <2> QED
    BY <2>1, <2>2
<1>11. /\ frames' \in Seq(Frame) /\ Len(frames') <= MaxFrames
       /\ \A k \in DOMAIN frames' : Alive(camp.doc, frames'[k].container)
  <2> DEFINE gs == SubSeq(fs, 1, Len(fs) - 1)
  <2>1. gs \in Seq(Frame) /\ Len(gs) = Len(fs) - 1
        /\ \A k \in 1..(Len(fs) - 1) : gs[k] = fs[k]
    <3>1. Len(fs) \in Nat /\ Len(fs) - 1 \in Nat /\ Len(fs) - 1 <= Len(fs)
          /\ DOMAIN fs = 1..Len(fs)
      BY <1>4, <1>5
    <3>2. \A k \in 1..(Len(fs) - 1) : k \in 1..Len(fs) /\ k + 1 - 1 = k
      BY <3>1
    <3>3. \A k \in 1..Len(fs) : fs[k] \in Frame
      BY <1>4
    <3>4. gs = [k \in 1..(Len(fs) - 1) |-> fs[k]]
      BY <3>1, <3>2
    <3> HIDE DEF gs
    <3> QED
      BY <3>1, <3>2, <3>3, <3>4
  <2>2. frames' = fs \/ frames' = gs
    BY <1>1
  <2>3. \A k \in DOMAIN gs : Alive(camp.doc, gs[k].container)
    <3>1. DOMAIN gs = 1..(Len(fs) - 1) /\ \A k \in 1..(Len(fs) - 1) : k \in DOMAIN fs
      BY <1>4, <2>1
    <3> HIDE DEF gs
    <3> QED
      BY <1>4, <2>1, <3>1
  <2> HIDE DEF gs
  <2> QED
    BY <1>4, <1>5, <2>1, <2>2, <2>3
<1>12. owned' \in [ValueSet -> Int]
  <2>1. owned \in [ValueSet -> Int]
    BY DEF IInv, TypeOK
  <2>2. refs \in [ValueSet -> Int]
    BY <1>3, <2>1, OwnedType DEF ValueSet
  <2>3. Dropped(refs, top.container) \in [ValueSet -> Int]
    <3>1. top.container \in ValueSet
      BY <1>6 DEF ValueSet
    <3> HIDE DEF refs, top
    <3> QED
      BY <2>2, <3>1, OwnedType
  <2> QED
    BY <1>1, <2>2, <2>3
<1>13. TypeOK'
  BY <1>1, <1>2, <1>3, <1>10, <1>11, <1>12 DEF IInv, TypeOK, Walking, Labels, ValueSet
<1>14. Quiet'
  BY <1>2, <1>3 DEF Quiet
<1>15. OnDocument'
  BY <1>2, <1>3, <1>11 DEF OnDocument, Alive
<1> QED
  BY <1>3, <1>13, <1>14, <1>15 DEF IInv

\* Where it leads.
LEMMA GetAllLabel == GetAll => pc' \in Walking
  BY DEF GetAll, Reach, Walking

LEMMA TooDeepStep ==
  ASSUME IInv, TooDeep
  PROVE  IInv'
<1>1. Crawling({"GET_ALL"}) /\ pc' = "idle" /\ told' = NoActionLeft
      /\ UNCHANGED <<camp, heap, path, action, snapshot, done, ci, frames, seen, owned>>
  BY DEF TooDeep, Crawling
<1>2. /\ snapshot = NULL /\ path <= Len(camp.progs)
      /\ parent' \in Nodes /\ Alive(camp.doc, parent') /\ walker' \in Nat
      /\ camp' \in Campaigns /\ Restored' /\ Fresh'
  BY <1>1, CrawlFacts
<1>3. TypeOK'
  BY <1>1, <1>2 DEF IInv, TypeOK, Labels, ValueSet
<1>4. Quiet' /\ OnDocument'
  BY <1>1, <1>2 DEF Quiet, Walking, IInv, OnDocument, Alive
<1> QED
  BY <1>2, <1>3, <1>4 DEF IInv

LEMMA OtherInstStep ==
  ASSUME IInv, OtherInst
  PROVE  IInv'
<1> DEFINE op == Opcodes \ (Getters \cup {"GET_ALL"})
<1>1. Crawling(op) /\ pc' = "next_path"
      /\ UNCHANGED <<camp, heap, path, action, snapshot, done, ci, frames, seen, owned, told>>
  BY DEF OtherInst, Crawling
<1> HIDE DEF op
<1>2. /\ snapshot = NULL /\ path <= Len(camp.progs)
      /\ parent' \in Nodes /\ Alive(camp.doc, parent') /\ walker' \in Nat
      /\ camp' \in Campaigns /\ Restored' /\ Fresh'
  BY <1>1, CrawlFacts
<1>3. TypeOK'
  BY <1>1, <1>2 DEF IInv, TypeOK, Labels, ValueSet
<1>4. Quiet' /\ OnDocument'
  BY <1>1, <1>2 DEF Quiet, IInv, OnDocument, Alive
<1> QED
  BY <1>2, <1>3, <1>4 DEF IInv

LEMMA GoneStep ==
  ASSUME IInv, Gone
  PROVE  IInv'
<1>1. pc = "next_inst" /\ pc' = "next_path" /\ walker' = NextInst(Prog, walker)
      /\ UNCHANGED <<camp, heap, path, action, ci, parent, frames, seen, snapshot,
                     owned, told, done>>
  BY DEF Gone
<1>2. snapshot = NULL /\ path <= Len(camp.progs)
  BY <1>1 DEF IInv, Quiet, Walking
<1>3. walker' \in Nat
  <2>1. walker \in Nat
    BY DEF IInv, TypeOK
  <2> QED
    BY <1>1, <2>1 DEF NextInst
<1>4. Restored' /\ Fresh'
  BY <1>1, <1>2, NothingChanged
<1>5. TypeOK'
  BY <1>1, <1>3 DEF IInv, TypeOK, Labels
<1>6. Quiet' /\ OnDocument'
  BY <1>1, <1>2 DEF Quiet, IInv, OnDocument, Alive
<1> QED
  BY <1>1, <1>4, <1>5, <1>6 DEF IInv

LEMMA NextChildStep ==
  ASSUME IInv, NextChild
  PROVE  IInv'
<1> DEFINE top == frames[Len(frames)]
<1>1. pc = "next_path" /\ frames # <<>> /\ parent' = top.container /\ walker' = top.inst
      /\ ci' = NoInfo /\ action' = 0 /\ pc' = "next_inst"
      /\ UNCHANGED <<camp, heap, path, frames, seen, snapshot, owned, told, done>>
  BY DEF NextChild
<1>2. snapshot = NULL /\ path <= Len(camp.progs)
  BY <1>1 DEF IInv, Quiet, Walking
<1>3. frames \in Seq(Frame)
  BY DEF IInv, TypeOK
<1>4. Len(frames) \in DOMAIN frames /\ top \in Frame
  BY <1>1, <1>3
<1>5. Alive(camp.doc, top.container)
  BY <1>4 DEF IInv, OnDocument
<1>6. Restored' /\ Fresh'
  BY <1>1, <1>2, NothingChanged
<1> HIDE DEF top
<1>7. parent' \in ValueSet /\ walker' \in Nat /\ ci' \in ChildInfo
  BY <1>1, <1>4, InfoType DEF Frame
<1>8. 0 \in 0..3 /\ "next_inst" \in Labels
  BY DEF Labels
<1>9. UNCHANGED <<camp, heap, path, frames, seen, snapshot, owned, told, done>>
  BY <1>1
<1>10. TypeOK'
  <2>1. pc' \in Labels /\ action' \in 0..3
    BY <1>1, <1>8
  <2> QED
    BY <1>7, <1>9, <2>1 DEF IInv, TypeOK
<1>11. Quiet' /\ OnDocument'
  BY <1>1, <1>2, <1>5 DEF Quiet, IInv, OnDocument, Alive
<1> QED
  BY <1>1, <1>6, <1>10, <1>11 DEF IInv

LEMMA NextPathStep ==
  ASSUME IInv, NextPath
  PROVE  IInv'
<1>1. pc = "next_path" /\ path' = path + 1
      /\ UNCHANGED <<camp, heap, action, frames, seen, snapshot, owned, done>>
  BY DEF NextPath
<1>2. snapshot = NULL /\ path <= Len(camp.progs) /\ path \in 1..(Len(camp.progs) + 1)
  BY <1>1 DEF IInv, Quiet, Walking, TypeOK
<1>3. Restored' /\ Fresh'
  BY <1>1, <1>2, NothingChanged
<1>4. Len(camp.progs) \in Nat /\ camp.root \in Nodes /\ Alive(camp.doc, camp.root)
  BY CampaignType DEF IInv
<1>5. path' \in 1..(Len(camp.progs) + 1)
  BY <1>1, <1>2, <1>4
<1>6. CASE path' > Len(camp.progs)
  <2>1. pc' = "idle" /\ told' = NoActionLeft /\ UNCHANGED <<parent, ci, walker>>
    BY <1>6 DEF NextPath
  <2>2. TypeOK'
    BY <1>1, <1>5, <2>1 DEF IInv, TypeOK, Labels
  <2>3. Quiet' /\ OnDocument'
    BY <1>1, <1>2, <2>1 DEF Quiet, Walking, IInv, OnDocument, Alive
  <2> QED
    BY <1>1, <1>3, <2>2, <2>3 DEF IInv
<1>7. CASE ~(path' > Len(camp.progs))
  <2>1. parent' = camp.root /\ ci' = NoInfo /\ walker' = NextInst(camp.progs[path'], 1)
        /\ pc' = "next_inst" /\ UNCHANGED told
    BY <1>7 DEF NextPath
  <2>2. walker' \in Nat
    BY <2>1 DEF NextInst
  <2>3. TypeOK'
    BY <1>1, <1>4, <1>5, <2>1, <2>2, InfoType DEF IInv, TypeOK, Labels, ValueSet
  <2>4. path' <= Len(camp.progs)
    BY <1>4, <1>5, <1>7
  <2>5. Quiet' /\ OnDocument'
    BY <1>1, <1>2, <1>4, <2>1, <2>4 DEF Quiet, IInv, OnDocument, Alive
  <2> QED
    BY <1>1, <1>3, <2>3, <2>5 DEF IInv
<1> QED
  BY <1>6, <1>7

LEMMA NothingAppliesStep ==
  ASSUME IInv, NothingApplies
  PROVE  IInv'
<1>1. pc = "do_action" /\ action' = 0 /\ pc' = "next_inst"
      /\ UNCHANGED <<camp, heap, path, walker, ci, parent, frames, seen, snapshot,
                     owned, told, done>>
  BY DEF NothingApplies, cursor
<1>2. snapshot = NULL /\ path <= Len(camp.progs)
  BY <1>1 DEF IInv, Quiet, Walking
<1>3. Restored' /\ Fresh'
  BY <1>1, <1>2, NothingChanged
<1>4. TypeOK'
  <2>1. pc' \in Labels /\ action' \in 0..3
    BY <1>1 DEF Labels
  <2> QED
    BY <1>1, <2>1 DEF IInv, TypeOK
<1>5. Quiet' /\ OnDocument'
  BY <1>1, <1>2 DEF Quiet, IInv, OnDocument, Alive
<1> QED
  BY <1>1, <1>3, <1>4, <1>5 DEF IInv

--------------------------------------------------------------------------------
(***************************************************************************)
(* The steps that change the document.                                     *)
(***************************************************************************)

\* A mutation: v takes the place of the current value in h.
Exchange(h, v) ==
  /\ heap' = Put(h, v, Pinned \cup {Current})
  /\ snapshot' = Current
  /\ UNCHANGED <<camp, parent, ci>>

\* v is no part of the document, and h has it besides the document.
LEMMA Exchanged ==
  ASSUME IInv, snapshot = NULL, Current # NULL,
         NEW h \in Heap, NEW v \in ValueSet, ~Alive(camp.doc, v), Shares(h, v, Current),
         \A m \in Nodes : Alive(camp.doc, m) => h[m] = heap[m],
         Exchange(h, v)
  PROVE  heap' \in Heap /\ Restored' /\ Fresh'
<1> DEFINE p   == Position(heap, parent, ci)
           pin == Pinned \cup {Current}
<1>1. Slot(heap, parent, ci) /\ Current = InSlot(heap, parent, ci)
      /\ Alive(camp.doc, parent) /\ parent \in Nodes /\ ci \in ChildInfo
      /\ Alive(camp.doc, Current)
  BY CurrentAlive DEF IInv, OnDocument, Alive, TypeOK
<1>2. h[parent] = heap[parent]
  BY <1>1
<1>3. Position(h, parent, ci) = p /\ (Slot(h, parent, ci) <=> Slot(heap, parent, ci))
  BY <1>2, SameSlot
<1>4. Slot(h, parent, ci) /\ InSlot(h, parent, ci) = Current
  BY <1>1, <1>2, <1>3 DEF InSlot
<1>5. heap' = AppendAt(h, parent, ci, v, pin)
  BY DEF Exchange, Put
<1>6. heap' \in Heap
  BY <1>1, <1>5, AppendAtType
\* the value that is replaced is kept: nothing is released
<1>7. \A m \in Nodes :
        /\ heap'[m].kind = h[m].kind
        /\ DOMAIN heap'[m].kids = DOMAIN h[m].kids
        /\ \A i \in DOMAIN h[m].kids :
             /\ heap'[m].kids[i].key = h[m].kids[i].key
             /\ heap'[m].kids[i].at = IF m = parent /\ i = p THEN v ELSE h[m].kids[i].at
  <2> TAKE m \in Nodes
  <2>1. /\ InSlot(h, parent, ci) \in pin
        /\ Alone(Exchanging(h, parent, ci, v), InSlot(h, parent, ci), pin)
    BY <1>4 DEF Alone
  <2> DEFINE h2 == AppendAt(h, parent, ci, v, pin)
  <2>3. /\ h2[m].kind = h[m].kind
        /\ DOMAIN h2[m].kids = DOMAIN h[m].kids
        /\ \A i \in DOMAIN h[m].kids :
             /\ h2[m].kids[i].key = h[m].kids[i].key
             /\ h2[m].kids[i].at = IF m = parent /\ i = Position(h, parent, ci)
                                   THEN v ELSE h[m].kids[i].at
    <3> HIDE DEF pin
    <3> QED
      BY <1>1, <1>4, <2>1, PutKeeps
  <2> HIDE DEF h2, p
  <2>4. heap' = h2
    BY <1>5 DEF h2
  <2> QED
    BY <1>3, <2>3, <2>4
<1>8. \A m \in Nodes : Alive(camp.doc, m) =>
        /\ heap'[m].kind = heap[m].kind
        /\ DOMAIN heap'[m].kids = DOMAIN heap[m].kids
        /\ \A i \in DOMAIN heap[m].kids :
             /\ heap'[m].kids[i].key = heap[m].kids[i].key
             /\ heap'[m].kids[i].at = IF m = parent /\ i = p THEN v ELSE heap[m].kids[i].at
  <2> HIDE DEF p
  <2> QED
    BY <1>7
<1>9. Position(heap', parent, ci) = p /\ (Slot(heap', parent, ci) <=> Slot(heap, parent, ci))
  <2>1. /\ DOMAIN heap'[parent].kids = DOMAIN heap[parent].kids
        /\ \A i \in DOMAIN heap[parent].kids :
             heap'[parent].kids[i].key = heap[parent].kids[i].key
    BY <1>1, <1>8
  <2>2. KeyIndex(heap', parent, ci.key) = KeyIndex(heap, parent, ci.key)
    BY <2>1 DEF KeyIndex
  <2>3. Position(heap', parent, ci) = Position(heap, parent, ci)
    BY <2>2 DEF Position
  <2>4. Slot(heap', parent, ci) <=> Slot(heap, parent, ci)
    BY <2>1, <2>2, <2>3 DEF Slot
  <2> QED
    BY <2>3, <2>4
<1>10. Restored'
  <2>1. \A m \in Nodes : Alive(camp.doc, m) =>
          /\ heap[m].kind = camp.doc[m].kind
          /\ DOMAIN heap[m].kids = DOMAIN camp.doc[m].kids
          /\ \A i \in DOMAIN heap[m].kids :
               /\ heap[m].kids[i].key = camp.doc[m].kids[i].key
               /\ camp.doc[m].kids[i].at = heap[m].kids[i].at
    BY DEF IInv, Restored
  <2>2. heap[parent].kids[p].at = Current
    BY <1>1 DEF InSlot
  <2>3. camp' = camp /\ parent' = parent /\ ci' = ci /\ snapshot' = Current
    BY DEF Exchange
  <2>4. \A m \in Nodes : Alive(camp.doc, m) =>
          \A i \in DOMAIN heap[m].kids :
            camp.doc[m].kids[i].at =
              IF m = parent /\ i = Position(heap', m, ci)
              THEN Current ELSE heap'[m].kids[i].at
    <3> TAKE m \in Nodes
    <3> HAVE Alive(camp.doc, m)
    <3> TAKE i \in DOMAIN heap[m].kids
    <3> HIDE DEF p
    <3>1. CASE m = parent
      <4>1. heap'[m].kids[i].at = IF i = p THEN v ELSE heap[m].kids[i].at
        BY <1>8, <3>1
      <4>2. Position(heap', m, ci) = p
        BY <1>9, <3>1
      <4>3. camp.doc[m].kids[i].at = heap[m].kids[i].at
        BY <2>1
      <4> QED
        BY <2>2, <3>1, <4>1, <4>2, <4>3
    <3>2. CASE m # parent
      BY <1>8, <2>1, <3>2
    <3> QED
      BY <3>1, <3>2
  <2>5. \A m \in Nodes : Alive(camp.doc, m) =>
          /\ heap'[m].kind = camp.doc[m].kind
          /\ DOMAIN heap'[m].kids = DOMAIN camp.doc[m].kids
          /\ \A i \in DOMAIN heap'[m].kids :
               /\ heap'[m].kids[i].key = camp.doc[m].kids[i].key
               /\ camp.doc[m].kids[i].at =
                    IF m = parent /\ i = Position(heap', m, ci)
                    THEN Current ELSE heap'[m].kids[i].at
    <3> TAKE m \in Nodes
    <3> HAVE Alive(camp.doc, m)
    <3> HIDE DEF p
    <3>1. /\ heap'[m].kind = camp.doc[m].kind
          /\ DOMAIN heap'[m].kids = DOMAIN heap[m].kids
          /\ DOMAIN heap[m].kids = DOMAIN camp.doc[m].kids
      BY <1>8, <2>1
    <3>2. \A i \in DOMAIN heap[m].kids : heap'[m].kids[i].key = camp.doc[m].kids[i].key
      BY <1>8, <2>1
    <3> QED
      BY <2>4, <3>1, <3>2
  <2> QED
    BY <2>3, <2>5 DEF Restored, Alive
<1>11. Fresh'
  <2>1. InSlot(heap', parent, ci) = v
    BY <1>1, <1>8, <1>9 DEF InSlot, Slot
  <2>2. Shares(heap', v, Current)
    <3> SUFFICES ASSUME v \in Nodes, NEW i \in DOMAIN heap'[v].kids
                 PROVE  /\ IsContainer(camp.doc, Current)
                        /\ \E j \in DOMAIN camp.doc[Current].kids :
                             camp.doc[Current].kids[j].at = heap'[v].kids[i].at
      BY DEF Shares
    <3> HIDE DEF p
    <3>1. i \in DOMAIN h[v].kids /\ heap'[v].kids[i].at = h[v].kids[i].at
      BY <1>1, <1>7
    <3> QED
      BY <3>1 DEF Shares
  <2>3. /\ camp' = camp /\ parent' = parent /\ ci' = ci /\ snapshot' = Current
        /\ Slot(heap', parent, ci)
    BY <1>1, <1>9 DEF Exchange
  <2> HIDE DEF p
  <2>4. Shares(heap, v, snapshot)'
    BY <2>2, <2>3 DEF Shares
  <2> QED
    BY <1>1, <2>1, <2>3, <2>4 DEF Fresh, Slot, InSlot, Alive, Position, KeyIndex
<1> QED
  BY <1>6, <1>10, <1>11

\* The restoration.
LEMMA PutBack ==
  ASSUME IInv, snapshot # NULL, heap' = Put(heap, snapshot, Pinned), snapshot' = NULL,
         UNCHANGED camp
  PROVE  heap' \in Heap /\ Restored' /\ Fresh'
<1> DEFINE p == Position(heap, parent, ci)
<1>1. Slot(heap, parent, ci) /\ ~Alive(camp.doc, InSlot(heap, parent, ci))
      /\ parent \in Nodes /\ ci \in ChildInfo /\ heap \in Heap /\ snapshot \in ValueSet
  BY DEF IInv, OnDocument, Fresh, Alive, TypeOK
<1>2. heap' = AppendAt(heap, parent, ci, snapshot, Pinned)
  BY DEF Put
<1>3. heap' \in Heap
  BY <1>1, <1>2, AppendAtType
<1>4. \A m \in Nodes : Alive(camp.doc, m) =>
        /\ heap[m].kind = camp.doc[m].kind
        /\ DOMAIN heap[m].kids = DOMAIN camp.doc[m].kids
        /\ \A i \in DOMAIN heap[m].kids :
             /\ heap[m].kids[i].key = camp.doc[m].kids[i].key
             /\ camp.doc[m].kids[i].at = IF m = parent /\ i = p
                                         THEN snapshot ELSE heap[m].kids[i].at
  BY DEF IInv, Restored
\* what replaced it is no part of the document, and has no child of its own
<1>5. Alone(Exchanging(heap, parent, ci, snapshot), InSlot(heap, parent, ci), Pinned)
  <2> DEFINE h1 == Exchanging(heap, parent, ci, snapshot)
             w  == InSlot(heap, parent, ci)
  <2>1. \A m \in Nodes :
          /\ h1[m].kind = heap[m].kind
          /\ DOMAIN h1[m].kids = DOMAIN heap[m].kids
          /\ \A i \in DOMAIN heap[m].kids :
               h1[m].kids[i].at = IF m = parent /\ i = p THEN snapshot ELSE heap[m].kids[i].at
    BY <1>1, SlotChanges
  <2>2. Alive(camp.doc, snapshot) /\ Shares(heap, w, snapshot) /\ ~Alive(camp.doc, w)
        /\ snapshot \in Nodes
    BY DEF IInv, Fresh, Alive
  <2>3. w \in ValueSet
    <3>1. p \in DOMAIN heap[parent].kids
      BY <1>1 DEF Slot
    <3>2. heap[parent].kids[p] \in Entry
      BY <1>1, <3>1, KidsType
    <3> HIDE DEF p
    <3> QED
      BY <3>2 DEF Entry, InSlot, p
  <2> HIDE DEF h1, w, p
  <2>4. ASSUME NEW c \in Nodes, w \in Nodes, NEW i \in DOMAIN h1[w].kids, c = h1[w].kids[i].at
        PROVE  /\ snapshot \in Parents(h1) \ {w}
               /\ \E j \in DOMAIN h1[snapshot].kids : h1[snapshot].kids[j].at = c
    <3>1. w # parent
      BY <2>2 DEF IInv, OnDocument
    <3>2. i \in DOMAIN heap[w].kids /\ c = heap[w].kids[i].at
      BY <2>1, <2>4, <3>1
    <3>3. /\ IsContainer(camp.doc, snapshot)
          /\ \E j \in DOMAIN camp.doc[snapshot].kids : camp.doc[snapshot].kids[j].at = c
      BY <2>2, <2>4, <3>2 DEF Shares
    <3>4. /\ h1[snapshot].kind = camp.doc[snapshot].kind
          /\ DOMAIN h1[snapshot].kids = DOMAIN camp.doc[snapshot].kids
          /\ \A j \in DOMAIN h1[snapshot].kids :
               h1[snapshot].kids[j].at = camp.doc[snapshot].kids[j].at
      BY <1>4, <2>1, <2>2
    <3>5. IsContainer(h1, snapshot) /\ snapshot # w
      BY <2>2, <3>3, <3>4 DEF IsContainer, IsObj, IsArray, IsKind
    <3>6. \E j \in DOMAIN h1[snapshot].kids : h1[snapshot].kids[j].at = c
      BY <3>3, <3>4
    <3>7. h1[snapshot].kids # <<>>
      BY <3>6
    <3> QED
      BY <2>2, <3>5, <3>6, <3>7 DEF Parents
  <2>5. ASSUME w \in Nodes, NEW c \in Contents(h1, {w})
        PROVE  c \in Contents(h1, Parents(h1) \ {w})
    <3>1. PICK i \in DOMAIN h1[w].kids : c = h1[w].kids[i].at
      BY <2>5 DEF Contents
    <3>2. c \in Nodes
      BY DEF Contents
    <3> QED
      BY <2>4, <2>5, <3>1, <3>2 DEF Contents
  <2>6. CASE w \in Nodes
    BY <2>5, <2>6 DEF Alone, h1, w
  <2>7. CASE w \notin Nodes
    BY <2>7 DEF Alone, h1, w
  <2> QED
    BY <2>6, <2>7 DEF h1, w
<1>6. \A m \in Nodes : Alive(camp.doc, m) =>
        /\ heap'[m].kind = heap[m].kind
        /\ DOMAIN heap'[m].kids = DOMAIN heap[m].kids
        /\ \A i \in DOMAIN heap[m].kids :
             /\ heap'[m].kids[i].key = heap[m].kids[i].key
             /\ heap'[m].kids[i].at = IF m = parent /\ i = p
                                      THEN snapshot ELSE heap[m].kids[i].at
  <2> TAKE m \in Nodes
  <2> HAVE Alive(camp.doc, m)
  <2>1. m # InSlot(heap, parent, ci)
    BY <1>1
  <2> HIDE DEF p
  <2> QED
    BY <1>1, <1>2, <1>5, <2>1, PutKeeps DEF p
<1>7. Restored'
  <2> HIDE DEF p
  <2> QED
    BY <1>4, <1>6 DEF Restored, Alive
<1> QED
  BY <1>3, <1>7 DEF Fresh

\* What a value is replaced with is a node of a document.
LEMMA ReplacementType ==
  ASSUME NEW h \in Heap, NEW v \in Nodes, NEW a, NEW new \in Replacements(a, h, v),
         a \in 1..3
  PROVE  new \in Node
<1>1. \A kind \in Kinds : Blank(kind) \in Node
  BY DEF Blank, Node, NoKey, Text
<1>2. Converted(h[v]) \in Node
  <2> DEFINE node  == h[v]
             kind  == IF node.kind = "arr" THEN "obj" ELSE "arr"
             child(i) == [key |-> IF node.kind = "arr" THEN Numeral(i) ELSE NoKey,
                          at |-> node.kids[i].at]
             kids  == [i \in DOMAIN node.kids |-> child(i)]
  <2>1. node.kids \in Seq(Entry) /\ DOMAIN node.kids = 1..Len(node.kids)
        /\ Len(node.kids) \in Nat
    BY KidsType
  <2>2. \A i \in 1..Len(node.kids) : node.kids[i].at \in ValueSet
    <3>1. \A i \in 1..Len(node.kids) : node.kids[i] \in Entry
      BY <2>1
    <3> QED
      BY <3>1 DEF Entry
  <2>3. \A i \in 1..Len(node.kids) : Numeral(i) \in STRING
    <3>1. \A i : Numeral(i) \in {Digits[j] : j \in DOMAIN Digits} \cup {"more"}
      BY DEF Numeral
    <3> QED
      BY <3>1, NumeralAssumption
  <2>4. \A i \in 1..Len(node.kids) : child(i) \in Entry
    <3> HIDE DEF node
    <3> QED
      BY <2>2, <2>3 DEF Entry, Text
  <2>5. kids \in Seq(Entry)
    <3> HIDE DEF child, node
    <3> QED
      BY <2>1, <2>4
  <2>6. Blank(kind) \in Node
    BY <1>1 DEF Kinds
  <2>7. Converted(node) = [Blank(kind) EXCEPT !.kids = kids]
    BY DEF Converted
  <2> HIDE DEF node, kind, kids
  <2>8. Converted(node) \in Node
    BY <2>5, <2>6, <2>7 DEF Node
  <2> QED
    BY <2>8 DEF node
<1> QED
  BY <1>1, <1>2 DEF Replacements, Kinds

\* It has no child but those of the value.
LEMMA ReplacementChildren ==
  ASSUME NEW a, NEW h, NEW v, NEW new \in Replacements(a, h, v), a \in 1..3,
         NEW i \in DOMAIN new.kids
  PROVE  a = 2 /\ i \in DOMAIN h[v].kids /\ new.kids[i].at = h[v].kids[i].at
<1>1. \A kind : Blank(kind).kids = <<>>
  BY DEF Blank
<1>2. a = 2
  BY <1>1 DEF Replacements
<1>3. new = Converted(h[v])
  BY <1>2 DEF Replacements
<1> DEFINE node == h[v]
           kind == IF node.kind = "arr" THEN "obj" ELSE "arr"
           kids == [j \in DOMAIN node.kids |->
                      [key |-> IF node.kind = "arr" THEN Numeral(j) ELSE NoKey,
                       at |-> node.kids[j].at]]
<1>4. Converted(node) = [Blank(kind) EXCEPT !.kids = kids]
  BY DEF Converted
<1>5. "kids" \in DOMAIN Blank(kind)
  BY DEF Blank
<1>6. new.kids = kids
  <2> HIDE DEF kids, node, kind
  <2> QED
    BY <1>3, <1>4, <1>5 DEF node
<1>7. DOMAIN kids = DOMAIN node.kids /\ \A j \in DOMAIN node.kids : kids[j].at = node.kids[j].at
  OBVIOUS
<1> HIDE DEF kids
<1>8. i \in DOMAIN node.kids /\ new.kids[i].at = node.kids[i].at
  BY <1>6, <1>7
<1> QED
  BY <1>2, <1>8

\* Of some actions one comes first.
LEMMA FirstAction ==
  ASSUME NEW S, S \subseteq 1..3, S # {}
  PROVE  \E b \in S : \A c \in S : b <= c
<1>1. \A c \in S : c = 1 \/ c = 2 \/ c = 3
  OBVIOUS
<1>2. CASE 1 \in S
  BY <1>1, <1>2
<1>3. CASE 1 \notin S /\ 2 \in S
  <2>1. \A c \in S : 2 <= c
    BY <1>1, <1>3
  <2> QED
    BY <1>3, <2>1
<1>4. CASE 1 \notin S /\ 2 \notin S
  <2>1. \A c \in S : c = 3
    BY <1>1, <1>4
  <2>2. PICK b \in S : b = 3
    BY <2>1
  <2> QED
    BY <2>1, <2>2
<1> QED
  BY <1>2, <1>3, <1>4

LEMMA MutateStep ==
  ASSUME IInv, Mutate
  PROVE  IInv'
<1> DEFINE a == CHOOSE b \in Untried : \A c \in Untried : b <= c
<1>1. /\ pc = "do_action" /\ Untried # {}
      /\ action' = a /\ told' = ActionNames[a]
      /\ done' = done + 1 /\ pc' = "idle"
      /\ UNCHANGED <<camp, path, walker, ci, parent, frames, seen>>
  BY DEF Mutate, cursor
<1>2. IF camp.dry THEN UNCHANGED <<heap, snapshot, owned>>
      ELSE /\ snapshot' = Current
           /\ owned' = Taken(owned, Current)
           /\ \/ \E new \in Replacements(a, heap, Current), n \in Unused(heap) :
                   heap' = Put([heap EXCEPT ![n] = new], n, Pinned \cup {Current})
              \/ a = 3 /\ heap' = Put(heap, NULL, Pinned \cup {Current})
  BY DEF Mutate
<1>3. snapshot = NULL /\ path <= Len(camp.progs) /\ heap \in Heap
      /\ owned \in [ValueSet -> Int]
  BY <1>1 DEF IInv, Quiet, Walking, TypeOK
<1>4. Untried \subseteq 1..3
  BY DEF Untried, ActionNames
<1>5. a \in 1..3
  <2>1. \E b \in Untried : \A c \in Untried : b <= c
    BY <1>1, <1>4, FirstAction
  <2> QED
    BY <1>4, <2>1
<1> HIDE DEF a
<1>6. Current \in Nodes /\ Current # NULL
  <2>1. \E b \in Untried : Applies(b, heap, Current)
    BY <1>1 DEF Untried
  <2>2. Current \in Nodes
    BY <2>1 DEF Applies, IsContainer, IsObj, IsArray, IsStr, IsKind
  <2> QED
    BY <2>2, DocAssumption
<1>7. /\ heap' \in Heap /\ Restored' /\ Fresh'
      /\ owned' \in [ValueSet -> Int] /\ snapshot' \in ValueSet
  <2>1. CASE camp.dry
    <3>1. UNCHANGED <<heap, snapshot, owned>>
      BY <1>2, <2>1
    <3>2. Restored' /\ Fresh'
      BY <1>1, <1>3, <3>1, NothingChanged
    <3> QED
      BY <1>3, <3>1, <3>2 DEF ValueSet
  <2>2. CASE ~camp.dry
    <3>1. snapshot' = Current /\ owned' = Taken(owned, Current)
      BY <1>2, <2>2
    <3>2. owned' \in [ValueSet -> Int] /\ snapshot' \in ValueSet
      BY <1>3, <1>6, <3>1, OwnedType DEF ValueSet
    <3>3. ASSUME NEW new \in Replacements(a, heap, Current), NEW n \in Unused(heap),
                 heap' = Put([heap EXCEPT ![n] = new], n, Pinned \cup {Current})
          PROVE  heap' \in Heap /\ Restored' /\ Fresh'
      <4> DEFINE h == [heap EXCEPT ![n] = new]
      <4>1. n \in Nodes /\ n \in ValueSet /\ ~Alive(heap, n)
        BY DEF Unused, ValueSet
      <4>2. ~Alive(camp.doc, n)
        BY <4>1, StillThere DEF IInv
      <4>3. new \in Node
        BY <1>3, <1>5, <1>6, ReplacementType
      <4>4. h \in Heap
        BY <1>3, <4>1, <4>3 DEF Heap
      <4>5. \A m \in Nodes : Alive(camp.doc, m) => h[m] = heap[m]
        BY <1>3, <4>2 DEF Heap
      <4>6. Exchange(h, n)
        BY <1>1, <3>1, <3>3 DEF Exchange
      <4>7. h[n] = new
        BY <1>3, <4>1 DEF Heap
      <4>8. ASSUME NEW i \in DOMAIN new.kids
            PROVE  /\ IsContainer(camp.doc, Current)
                   /\ \E j \in DOMAIN camp.doc[Current].kids :
                        camp.doc[Current].kids[j].at = new.kids[i].at
        <5>1. /\ a = 2 /\ i \in DOMAIN heap[Current].kids
              /\ new.kids[i].at = heap[Current].kids[i].at
          BY <1>5, ReplacementChildren
        <5>2. IsContainer(heap, Current)
          <6>1. a \in Untried
            BY <1>1, <1>4, FirstAction DEF a
          <6> QED
            BY <5>1, <6>1 DEF Untried, Applies
        <5>3. Alive(camp.doc, Current)
          BY <1>3, <1>6, CurrentAlive
        <5>4. /\ heap[Current].kind = camp.doc[Current].kind
              /\ DOMAIN heap[Current].kids = DOMAIN camp.doc[Current].kids
              /\ camp.doc[Current].kids[i].at = heap[Current].kids[i].at
          BY <1>3, <1>6, <5>1, <5>3 DEF IInv, Restored
        <5>5. IsContainer(camp.doc, Current)
          BY <1>6, <5>2, <5>4 DEF IsContainer, IsObj, IsArray, IsKind
        <5> QED
          BY <5>1, <5>4, <5>5
      <4> HIDE DEF h
      <4>9. Shares(h, n, Current)
        BY <4>7, <4>8 DEF Shares
      <4> QED
        BY <1>3, <1>6, <4>1, <4>2, <4>4, <4>5, <4>6, <4>9, Exchanged
    <3>4. ASSUME heap' = Put(heap, NULL, Pinned \cup {Current})
          PROVE  heap' \in Heap /\ Restored' /\ Fresh'
      <4>1. NULL \in ValueSet /\ ~Alive(camp.doc, NULL)
        BY DocAssumption DEF ValueSet, Alive
      <4>2. Exchange(heap, NULL)
        BY <1>1, <3>1, <3>4 DEF Exchange
      <4>3. Shares(heap, NULL, Current)
        BY DocAssumption DEF Shares
      <4> QED
        BY <1>3, <1>6, <4>1, <4>2, <4>3, Exchanged
    <3> QED
      BY <1>2, <2>2, <3>2, <3>3, <3>4
  <2> QED
    BY <2>1, <2>2
<1>8. TypeOK'
  <2>1. pc' \in Labels /\ action' \in 0..3
    BY <1>1, <1>5 DEF Labels
  <2>2. done' \in Nat
    <3>1. done \in Nat
      BY DEF IInv, TypeOK
    <3> QED
      BY <1>1, <3>1
  <2>3. told' \in {ActionNames[b] : b \in 1..3}
    BY <1>1, <1>5
  <2> QED
    BY <1>1, <1>7, <2>1, <2>2, <2>3 DEF IInv, TypeOK
<1>9. Quiet' /\ OnDocument'
  BY <1>1 DEF Quiet, Walking, IInv, OnDocument, Alive
<1> QED
  BY <1>1, <1>7, <1>8, <1>9 DEF IInv

LEMMA StepStep ==
  ASSUME IInv, Step
  PROVE  IInv'
<1>1. pc = "idle" /\ UNCHANGED <<camp, path, walker, ci, parent, frames, seen, action, done>>
  BY DEF Step, cursor
<1>2. /\ IF snapshot = NULL THEN UNCHANGED <<heap, snapshot, owned>>
         ELSE /\ heap' = Put(heap, snapshot, Pinned)
              /\ owned' = Dropped(owned, snapshot)
              /\ snapshot' = NULL
      /\ IF path > Len(camp.progs)
         THEN told' = NoActionLeft /\ UNCHANGED pc
         ELSE pc' = "do_action" /\ UNCHANGED told
  BY DEF Step
<1>3. heap \in Heap /\ owned \in [ValueSet -> Int] /\ snapshot \in ValueSet
  BY DEF IInv, TypeOK
<1>4. /\ heap' \in Heap /\ Restored' /\ Fresh'
      /\ owned' \in [ValueSet -> Int] /\ snapshot' = NULL
  <2>1. CASE snapshot = NULL
    <3>1. UNCHANGED <<heap, snapshot, owned>>
      BY <1>2, <2>1
    <3>2. Restored' /\ Fresh'
      BY <1>1, <2>1, <3>1, NothingChanged
    <3> QED
      BY <1>3, <2>1, <3>1, <3>2
  <2>2. CASE snapshot # NULL
    <3>1. heap' = Put(heap, snapshot, Pinned) /\ owned' = Dropped(owned, snapshot)
          /\ snapshot' = NULL
      BY <1>2, <2>2
    <3>2. owned' \in [ValueSet -> Int]
      BY <1>3, <3>1, OwnedType
    <3> QED
      BY <1>1, <2>2, <3>1, <3>2, PutBack
  <2> QED
    BY <2>1, <2>2
<1>5. Len(camp.progs) \in Nat /\ path \in 1..(Len(camp.progs) + 1)
  BY CampaignType DEF IInv, TypeOK
<1>6. TypeOK'
  <2>1. pc' \in Labels /\ snapshot' \in ValueSet
        /\ told' \in {ActionNames[b] : b \in 1..3} \cup {NoActionLeft, ""}
    BY <1>1, <1>2, <1>4 DEF Labels, IInv, TypeOK, ValueSet
  <2> QED
    BY <1>1, <1>4, <2>1 DEF IInv, TypeOK
<1>7. Quiet'
  BY <1>1, <1>2, <1>4, <1>5 DEF Quiet, Walking
<1>8. OnDocument'
  BY <1>1 DEF IInv, OnDocument, Alive
<1> QED
  BY <1>1, <1>4, <1>6, <1>7, <1>8 DEF IInv

LEMMA DestroyStep ==
  ASSUME IInv, Destroy
  PROVE  IInv'
<1>1. pc = "idle" /\ pc' = "destroyed"
      /\ owned' = [v \in ValueSet |->
                     owned[v] - InFrames(v) - (IF v = snapshot THEN 1 ELSE 0)
                                            - (IF v = camp.root THEN 1 ELSE 0)]
      /\ UNCHANGED <<camp, heap, path, walker, ci, parent, frames, seen, action, snapshot,
                     told, done>>
  BY DEF Destroy, cursor
<1>2. owned' \in [ValueSet -> Int]
  <2>1. owned \in [ValueSet -> Int] /\ frames \in Seq(Frame)
    BY DEF IInv, TypeOK
  <2>2. \A v : InFrames(v) \in Nat
    <3> TAKE v
    <3>1. DOMAIN frames = 1..Len(frames) /\ Len(frames) \in Nat
      BY <2>1
    <3>2. IsFiniteSet(1..Len(frames))
      BY <3>1, FS_Interval
    <3>3. IsFiniteSet({i \in DOMAIN frames : frames[i].container = v})
      BY <3>1, <3>2, FS_Subset
    <3> QED
      BY <3>3, FS_CardinalityType DEF InFrames
  <2> QED
    BY <1>1, <2>1, <2>2
<1>3. TypeOK'
  <2>1. pc' \in Labels
    BY <1>1 DEF Labels
  <2> QED
    BY <1>1, <1>2, <2>1 DEF IInv, TypeOK
<1>4. Quiet' /\ OnDocument'
  BY <1>1 DEF Quiet, Walking, IInv, OnDocument, Alive
<1>5. Restored' /\ Fresh'
  BY <1>1, SameDocument DEF IInv
<1> QED
  BY <1>1, <1>3, <1>4, <1>5 DEF IInv

--------------------------------------------------------------------------------
(***************************************************************************)
(* The invariant.                                                          *)
(***************************************************************************)
LEMMA InitIInv == Init => IInv
<1> SUFFICES ASSUME Init PROVE IInv
  OBVIOUS
<1>1. camp \in Campaigns /\ heap = camp.doc /\ parent = camp.root /\ seen = camp.skip
  BY DEF Init
<1>2. pc = "idle" /\ path = 1 /\ action = 0 /\ told = "" /\ done = 0
  BY DEF Init
<1>3. ci = NoInfo /\ snapshot = NULL /\ frames = <<>>
  BY DEF Init
<1>4. /\ camp.doc \in Heap /\ Alive(camp.doc, camp.root) /\ camp.root \in Nodes
      /\ Len(camp.progs) \in Nat /\ 1 \in DOMAIN camp.progs /\ camp.skip \subseteq Nodes
  BY <1>1, CampaignType
<1>5. walker \in Nat
  <2>1. NextInst(camp.progs[1], 1) \in Nat
    BY DEF NextInst
  <2> QED
    BY <2>1 DEF Init
<1>6. frames \in Seq(Frame) /\ Len(frames) <= MaxFrames
  BY <1>3, FuzzAssumption
<1>7. owned \in [ValueSet -> Int]
  <2>1. owned = [v \in ValueSet |-> (IF v = camp.root THEN 1 ELSE 0)
                                  + (IF v \in camp.skip THEN 1 ELSE 0)]
    BY DEF Init
  <2> QED
    BY <2>1
<1>8. path \in 1..(Len(camp.progs) + 1) /\ action \in 0..3 /\ done \in Nat
  <2>1. Len(camp.progs) \in Nat
    BY <1>4
  <2>2. path = 1 /\ action = 0 /\ done = 0
    BY <1>2
  <2> QED
    BY <2>1, <2>2
<1>9. TypeOK
  <2>1. pc \in Labels /\ told \in {ActionNames[a] : a \in 1..3} \cup {NoActionLeft, ""}
    BY <1>2 DEF Labels
  <2>2. heap \in Heap /\ parent \in ValueSet /\ seen \subseteq Nodes
    BY <1>1, <1>4 DEF ValueSet
  <2>3. ci \in ChildInfo /\ snapshot \in ValueSet
    BY <1>3, InfoType DEF ValueSet
  <2> QED
    BY <1>5, <1>6, <1>7, <1>8, <2>1, <2>2, <2>3 DEF TypeOK
<1>10. Quiet
  BY <1>2 DEF Quiet, Walking
<1>11. OnDocument
  BY <1>1, <1>3, <1>4 DEF OnDocument
<1>12. Restored /\ Fresh
  BY <1>1, <1>3 DEF Restored, Fresh
<1> QED
  BY <1>1, <1>9, <1>10, <1>11, <1>12 DEF IInv

LEMMA NextIInv == IInv /\ [Next]_vars => IInv'
<1> SUFFICES ASSUME IInv, [Next]_vars PROVE IInv'
  OBVIOUS
<1>1. CASE Step           BY <1>1, StepStep
<1>2. CASE Mutate         BY <1>2, MutateStep
<1>3. CASE NothingApplies BY <1>3, NothingAppliesStep
<1>4. CASE GetObj         BY <1>4, GetObjStep
<1>5. CASE GetArray       BY <1>5, GetArrayStep
<1>6. CASE GetAll         BY <1>6, GetAllStep
<1>7. CASE TooDeep        BY <1>7, TooDeepStep
<1>8. CASE OtherInst      BY <1>8, OtherInstStep
<1>9. CASE Gone           BY <1>9, GoneStep
<1>10. CASE NextChild     BY <1>10, NextChildStep
<1>11. CASE NextPath      BY <1>11, NextPathStep
<1>12. CASE Destroy       BY <1>12, DestroyStep
<1>13. CASE UNCHANGED vars
  <2>1. UNCHANGED <<camp, heap, pc, path, walker, action, ci, parent, frames, seen,
                    snapshot, owned, told, done>>
    BY <1>13 DEF vars
  <2>2. TypeOK' /\ Quiet' /\ OnDocument'
    BY <2>1 DEF IInv, TypeOK, Quiet, OnDocument, Alive
  <2>3. Restored' /\ Fresh'
    BY <2>1, SameDocument DEF IInv
  <2> QED
    BY <2>1, <2>2, <2>3 DEF IInv
<1> QED
  BY <1>1, <1>2, <1>3, <1>4, <1>5, <1>6, <1>7, <1>8, <1>9, <1>10, <1>11, <1>12, <1>13
     DEF Next, Fuzz

LEMMA Invariance == Spec => []IInv
<1>1. Init => IInv
  BY InitIInv
<1>2. IInv /\ [Next]_vars => IInv'
  BY NextIInv
<1> QED
  BY <1>1, <1>2, PTL DEF Spec

(***************************************************************************)
(* However a campaign goes, every variable keeps its type: the current     *)
(* value is a value of the heap or null, and the stack of the loops stays  *)
(* within its limit (csonpath_my_fuzzing.h 54-59).                         *)
(***************************************************************************)
THEOREM TypeCorrect == Spec => []TypeOK
<1>1. IInv => TypeOK
  BY DEF IInv
<1> QED
  BY <1>1, Invariance, PTL

(***************************************************************************)
(* Whatever the document, the paths and the values to leave alone, at      *)
(* most one slot of the document differs from the original, the value that *)
(* belongs there is held in the snapshot, and no part of the document has  *)
(* been released (csonpath_my_fuzzing.h 237-323).                          *)
(***************************************************************************)
THEOREM DocumentIsRestorable == Spec => []Restorable
<1>1. IInv => Restorable
  <2> SUFFICES ASSUME IInv PROVE Restorable
    OBVIOUS
  <2>1. Restored /\ heap \in Heap
    BY DEF IInv, TypeOK
  <2> QED
    BY <2>1 DEF Restored, Restorable
<1> QED
  BY <1>1, Invariance, PTL

--------------------------------------------------------------------------------
(***************************************************************************)
(* The references to the values of the document: those of the loops that   *)
(* are under way, of the snapshot, to the root, and, for ever, to the      *)
(* values to be left alone.                                                *)
(***************************************************************************)
Loops(fs, v) == {i \in DOMAIN fs : fs[i].container = v}

Counted ==
  pc # "destroyed" =>
    \A n \in Nodes : owned[n] = Cardinality(Loops(frames, n)) + One(n = snapshot)
                                + One(n = camp.root) + One(n \in camp.skip)

RInv == Counted /\ ValuesReleased

\* How many loops a value has.
LEMMA LoopsFinite ==
  ASSUME NEW fs \in Seq(Frame), NEW v
  PROVE  IsFiniteSet(Loops(fs, v)) /\ Cardinality(Loops(fs, v)) \in Nat
<1>1. DOMAIN fs = 1..Len(fs) /\ Len(fs) \in Nat
  OBVIOUS
<1>2. IsFiniteSet(1..Len(fs))
  BY <1>1, FS_Interval
<1>3. IsFiniteSet(Loops(fs, v))
  BY <1>1, <1>2, FS_Subset DEF Loops
<1> QED
  BY <1>3, FS_CardinalityType

\* A loop is entered.
LEMMA LoopsAppend ==
  ASSUME NEW fs \in Seq(Frame), NEW e \in Frame, NEW v
  PROVE  Cardinality(Loops(Append(fs, e), v)) =
           Cardinality(Loops(fs, v)) + One(v = e.container)
<1> DEFINE gs == Append(fs, e)
           n  == Len(fs) + 1
<1>1. /\ Len(fs) \in Nat /\ DOMAIN fs = 1..Len(fs) /\ DOMAIN gs = 1..n
      /\ gs[n] = e /\ \A i \in 1..Len(fs) : gs[i] = fs[i]
  OBVIOUS
<1> HIDE DEF gs
<1>2. n \notin Loops(fs, v)
  BY <1>1 DEF Loops
<1>3. CASE v = e.container
  <2>1. Loops(gs, v) = Loops(fs, v) \cup {n}
    BY <1>1, <1>3 DEF Loops
  <2> HIDE DEF n
  <2> QED
    BY <1>2, <1>3, <2>1, LoopsFinite, FS_AddElement DEF One, gs
<1>4. CASE v # e.container
  <2>1. Loops(gs, v) = Loops(fs, v)
    BY <1>1, <1>4 DEF Loops
  <2> QED
    BY <1>4, <2>1, LoopsFinite DEF One, gs
<1> QED
  BY <1>3, <1>4

\* A loop is left.
LEMMA LoopsPop ==
  ASSUME NEW fs \in Seq(Frame), fs # <<>>, NEW v
  PROVE  Cardinality(Loops(SubSeq(fs, 1, Len(fs) - 1), v)) =
           Cardinality(Loops(fs, v)) - One(v = fs[Len(fs)].container)
<1> DEFINE gs == SubSeq(fs, 1, Len(fs) - 1)
           n  == Len(fs)
<1>1. n \in Nat \ {0} /\ DOMAIN fs = 1..n /\ n - 1 \in Nat
  OBVIOUS
<1>2. DOMAIN gs = 1..(n - 1) /\ \A i \in 1..(n - 1) : gs[i] = fs[i]
  BY <1>1
<1> HIDE DEF gs, n
<1>3. \A i \in 1..n : i \in 1..(n - 1) \/ i = n
  BY <1>1
<1>4. \A i \in 1..(n - 1) : i \in 1..n /\ i # n
  BY <1>1
<1>5. Loops(gs, v) = Loops(fs, v) \ {n}
  BY <1>1, <1>2, <1>3, <1>4 DEF Loops
<1>6. n \in Loops(fs, v) <=> v = fs[n].container
  BY <1>1 DEF Loops
<1>7. Cardinality(Loops(gs, v)) = Cardinality(Loops(fs, v)) - One(v = fs[n].container)
  <2>1. IsFiniteSet(Loops(fs, v)) /\ Cardinality(Loops(fs, v)) \in Nat
    BY LoopsFinite
  <2>2. Cardinality(Loops(fs, v) \ {n}) =
          IF n \in Loops(fs, v) THEN Cardinality(Loops(fs, v)) - 1
          ELSE Cardinality(Loops(fs, v))
    BY <2>1, FS_RemoveElement
  <2> QED
    BY <1>5, <1>6, <2>1, <2>2 DEF One
<1> QED
  BY <1>7 DEF gs, n

\* The loops with the innermost one advanced.
LEMMA LoopsOn ==
  ASSUME IInv, NEW n \in Nodes, Looping \/ Len(frames) < MaxFrames, NEW v
  PROVE  Cardinality(Loops(Advanced(Entered(n)), v)) =
           Cardinality(Loops(frames, v)) + (IF Looping THEN 0 ELSE One(v = n))
<1> DEFINE es == Entered(n)
           fs == Advanced(es)
<1>1. frames \in Seq(Frame) /\ walker \in Nat
  BY DEF IInv, TypeOK
<1>2. /\ es \in Seq(Frame) /\ es # <<>>
      /\ Cardinality(Loops(es, v)) =
           Cardinality(Loops(frames, v)) + (IF Looping THEN 0 ELSE One(v = n))
  <2>1. CASE Looping
    <3>1. es = frames /\ frames # <<>>
      BY <2>1 DEF Entered, Looping
    <3> QED
      BY <1>1, <2>1, <3>1, LoopsFinite
  <2>2. CASE ~Looping
    <3> DEFINE new == [container |-> n, idx |-> -1, inst |-> walker]
    <3>1. es = Append(frames, new)
      BY <2>2 DEF Entered
    <3>2. new \in Frame /\ new.container = n
      BY <1>1 DEF Frame, ValueSet
    <3> HIDE DEF new, es
    <3>3. es \in Seq(Frame) /\ es # <<>>
      BY <1>1, <3>1, <3>2
    <3> QED
      BY <1>1, <2>2, <3>1, <3>2, <3>3, LoopsAppend
  <2> QED
    BY <2>1, <2>2
<1>3. fs = [es EXCEPT ![Len(es)].idx = @ + 1]
  BY DEF Advanced
<1> HIDE DEF es, fs
<1>4. es[Len(es)] \in Frame /\ Len(es) \in DOMAIN es
  BY <1>2
<1>5. DOMAIN fs = DOMAIN es /\ \A i \in DOMAIN es : fs[i].container = es[i].container
  BY <1>2, <1>3, <1>4 DEF Frame
<1>6. Loops(fs, v) = Loops(es, v)
  BY <1>5 DEF Loops
<1> QED
  BY <1>2, <1>6 DEF fs, es

LEMMA InitRInv == Init => RInv
<1> SUFFICES ASSUME Init PROVE RInv
  OBVIOUS
<1>1. camp \in Campaigns /\ pc = "idle" /\ frames = <<>> /\ snapshot = NULL
  BY DEF Init
<1>2. owned = [v \in ValueSet |-> (IF v = camp.root THEN 1 ELSE 0)
                                + (IF v \in camp.skip THEN 1 ELSE 0)]
  BY DEF Init
<1>3. \A n \in Nodes : n \in ValueSet /\ n # snapshot
  BY <1>1, DocAssumption DEF ValueSet
<1>4. \A n : Cardinality(Loops(frames, n)) = 0
  BY <1>1, FS_EmptySet DEF Loops
<1>5. Counted
  BY <1>2, <1>3, <1>4 DEF Counted, One
<1> QED
  BY <1>1, <1>5 DEF RInv, ValuesReleased

\* The steps that neither take nor release.
LEMMA NothingTaken ==
  ASSUME Counted, pc # "destroyed", pc' # "destroyed",
         UNCHANGED <<camp, frames, snapshot, owned>>
  PROVE  RInv'
<1>1. Counted'
  BY DEF Counted
<1> QED
  BY <1>1 DEF RInv, ValuesReleased

LEMMA StepCounts ==
  ASSUME IInv, RInv, Step
  PROVE  RInv'
<1>1. pc = "idle" /\ pc' # "destroyed" /\ UNCHANGED <<camp, frames>>
  BY DEF Step, cursor
<1>2. IF snapshot = NULL THEN UNCHANGED <<snapshot, owned>>
      ELSE owned' = Dropped(owned, snapshot) /\ snapshot' = NULL
  BY DEF Step
<1>3. CASE snapshot = NULL
  BY <1>1, <1>2, <1>3, NothingTaken DEF RInv
<1>4. CASE snapshot # NULL
  <2>1. owned' = Dropped(owned, snapshot) /\ snapshot' = NULL
    BY <1>2, <1>4
  <2>2. owned \in [ValueSet -> Int] /\ snapshot \in ValueSet /\ frames \in Seq(Frame)
    BY DEF IInv, TypeOK
  <2>3. \A n \in Nodes : owned'[n] = owned[n] - One(n = snapshot) /\ owned[n] \in Int
    BY <2>1, <2>2, OwnedType
  <2>4. \A n \in Nodes : One(n = snapshot') = 0
    BY <2>1, DocAssumption DEF One
  <2>5. \A n : Cardinality(Loops(frames, n)) \in Nat
    BY <2>2, LoopsFinite
  <2>6. \A n \in Nodes : owned[n] = Cardinality(Loops(frames, n)) + One(n = snapshot)
                                    + One(n = camp.root) + One(n \in camp.skip)
    BY <1>1 DEF RInv, Counted
  <2>7. \A n \in Nodes : owned'[n] = Cardinality(Loops(frames, n)) + One(n = snapshot')
                                     + One(n = camp.root) + One(n \in camp.skip)
    <3> TAKE n \in Nodes
    <3>1. One(n = snapshot) \in Int /\ One(n = camp.root) \in Int /\ One(n \in camp.skip) \in Int
      BY DEF One
    <3> QED
      BY <2>3, <2>4, <2>5, <2>6, <3>1
  <2>8. Counted'
    BY <1>1, <2>7 DEF Counted
  <2> QED
    BY <1>1, <2>8 DEF RInv, ValuesReleased
<1> QED
  BY <1>3, <1>4

LEMMA MutateCounts ==
  ASSUME IInv, RInv, Mutate
  PROVE  RInv'
<1>1. pc = "do_action" /\ pc' = "idle" /\ UNCHANGED <<camp, frames>>
  BY DEF Mutate, cursor
<1>2. IF camp.dry THEN UNCHANGED <<snapshot, owned>>
      ELSE snapshot' = Current /\ owned' = Taken(owned, Current)
  BY DEF Mutate
<1>3. snapshot = NULL
  BY <1>1 DEF IInv, Quiet, Walking
<1>4. CASE camp.dry
  BY <1>1, <1>2, <1>4, NothingTaken DEF RInv
<1>5. CASE ~camp.dry
  <2>1. owned' = Taken(owned, Current) /\ snapshot' = Current
    BY <1>2, <1>5
  <2>2. owned \in [ValueSet -> Int] /\ frames \in Seq(Frame)
    BY DEF IInv, TypeOK
  <2>3. Current \in ValueSet
    BY <1>3, CurrentAlive
  <2>4. \A n \in Nodes : owned'[n] = owned[n] + One(n = snapshot') /\ owned[n] \in Int
    BY <2>1, <2>2, <2>3, OwnedType
  <2>5. \A n \in Nodes : One(n = snapshot) = 0
    BY <1>3, DocAssumption DEF One
  <2>6. \A n : Cardinality(Loops(frames, n)) \in Nat
    BY <2>2, LoopsFinite
  <2>7. \A n \in Nodes : owned[n] = Cardinality(Loops(frames, n)) + One(n = snapshot)
                                    + One(n = camp.root) + One(n \in camp.skip)
    BY <1>1 DEF RInv, Counted
  <2>8. \A n \in Nodes : owned'[n] = Cardinality(Loops(frames, n)) + One(n = snapshot')
                                     + One(n = camp.root) + One(n \in camp.skip)
    <3> TAKE n \in Nodes
    <3>1. One(n = snapshot') \in Int /\ One(n = camp.root) \in Int /\ One(n \in camp.skip) \in Int
      BY DEF One
    <3> QED
      BY <2>4, <2>5, <2>6, <2>7, <3>1
  <2>9. Counted'
    BY <1>1, <2>8 DEF Counted
  <2> QED
    BY <1>1, <2>9 DEF RInv, ValuesReleased
<1> QED
  BY <1>4, <1>5

LEMMA GetAllCounts ==
  ASSUME IInv, RInv, GetAll
  PROVE  RInv'
<1> DEFINE fs   == Advanced(Entered(parent'))
           top  == fs[Len(fs)]
           refs == IF Looping THEN owned ELSE Taken(owned, parent')
           kids == IF IsContainer(heap, top.container)
                   THEN heap[top.container].kids ELSE <<>>
           i    == top.idx + 1
           more == i \in DOMAIN kids /\ kids[i].at # NULL
<1>1. /\ Crawling({"GET_ALL"})
      /\ Looping \/ Len(frames) < MaxFrames
      /\ frames' = IF more THEN fs ELSE SubSeq(fs, 1, Len(fs) - 1)
      /\ owned' = IF more THEN refs ELSE Dropped(refs, top.container)
  BY DEF GetAll
<1>2. pc' \in Walking
  BY GetAllLabel
<1>3. pc = "next_inst" /\ UNCHANGED <<camp, snapshot>>
  BY <1>1 DEF Crawling
<1>4. parent' \in Nodes /\ Alive(camp.doc, parent')
  BY <1>1, CrawlFacts
<1>5. fs \in Seq(Frame) /\ Len(fs) \in 1..MaxFrames
      /\ \A k \in DOMAIN fs : Alive(camp.doc, fs[k].container)
  <2> HIDE DEF fs
  <2> SUFFICES LET gs == Advanced(Entered(parent')) IN
               /\ gs \in Seq(Frame) /\ Len(gs) \in 1..MaxFrames
               /\ \A k \in DOMAIN gs : Alive(camp.doc, gs[k].container)
    BY DEF fs
  <2> QED
    BY <1>1, <1>4, LoopsType
<1>6. \A v : Cardinality(Loops(fs, v)) =
               Cardinality(Loops(frames, v)) + (IF Looping THEN 0 ELSE One(v = parent'))
  BY <1>1, <1>4, LoopsOn
<1> HIDE DEF fs, more
<1>7. fs # <<>> /\ Len(fs) \in DOMAIN fs
  BY <1>5, FuzzAssumption
<1>8. top.container \in Nodes
  BY <1>5, <1>7 DEF Alive
<1>9. owned \in [ValueSet -> Int] /\ frames \in Seq(Frame)
  BY DEF IInv, TypeOK
<1>10. refs \in [ValueSet -> Int]
       /\ \A n \in Nodes : refs[n] = owned[n] + (IF Looping THEN 0 ELSE One(n = parent'))
  <2>1. CASE Looping
    <3>1. refs = owned
      BY <2>1
    <3>2. \A n \in Nodes : owned[n] \in Int
      BY <1>9 DEF ValueSet
    <3> QED
      BY <1>9, <2>1, <3>1, <3>2
  <2>2. CASE ~Looping
    <3>1. refs = Taken(owned, parent')
      BY <2>2
    <3>2. parent' \in ValueSet
      BY <1>4 DEF ValueSet
    <3> HIDE DEF refs
    <3> QED
      BY <1>9, <2>2, <3>1, <3>2, OwnedType
  <2> QED
    BY <2>1, <2>2
<1>11. \A n \in Nodes : refs[n] = Cardinality(Loops(fs, n)) + One(n = snapshot)
                                  + One(n = camp.root) + One(n \in camp.skip)
  <2> TAKE n \in Nodes
  <2>1. owned[n] = Cardinality(Loops(frames, n)) + One(n = snapshot)
                   + One(n = camp.root) + One(n \in camp.skip)
    BY <1>3 DEF RInv, Counted
  <2>2. /\ One(n = snapshot) \in Int /\ One(n = camp.root) \in Int
        /\ One(n \in camp.skip) \in Int /\ One(n = parent') \in Int
    BY DEF One
  <2>3. Cardinality(Loops(frames, n)) \in Nat
    BY <1>9, LoopsFinite
  <2> HIDE DEF refs
  <2> QED
    BY <1>6, <1>10, <2>1, <2>2, <2>3
<1>12. \A n \in Nodes : owned'[n] = Cardinality(Loops(frames', n)) + One(n = snapshot)
                                    + One(n = camp.root) + One(n \in camp.skip)
  <2>1. CASE more
    <3>1. frames' = fs /\ owned' = refs
      BY <1>1, <2>1
    <3> QED
      BY <1>11, <3>1
  <2>2. CASE ~more
    <3>1. frames' = SubSeq(fs, 1, Len(fs) - 1) /\ owned' = Dropped(refs, top.container)
      BY <1>1, <2>2
    <3> TAKE n \in Nodes
    <3>2. owned'[n] = refs[n] - One(n = top.container)
      <4>1. top.container \in ValueSet /\ refs \in [ValueSet -> Int]
        BY <1>8, <1>10 DEF ValueSet
      <4> HIDE DEF refs, top
      <4> QED
        BY <3>1, <4>1, OwnedType
    <3>3. Cardinality(Loops(frames', n)) = Cardinality(Loops(fs, n)) - One(n = top.container)
      BY <1>5, <1>7, <3>1, LoopsPop
    <3>4. /\ One(n = snapshot) \in Int /\ One(n = camp.root) \in Int
          /\ One(n \in camp.skip) \in Int /\ One(n = top.container) \in Int
      BY DEF One
    <3>5. Cardinality(Loops(fs, n)) \in Nat
      BY <1>5, LoopsFinite
    <3>6. refs[n] = Cardinality(Loops(fs, n)) + One(n = snapshot)
                    + One(n = camp.root) + One(n \in camp.skip)
      BY <1>11
    <3> HIDE DEF refs, top
    <3> QED
      BY <3>2, <3>3, <3>4, <3>5, <3>6
  <2> QED
    BY <2>1, <2>2
<1>13. Counted'
  BY <1>3, <1>12 DEF Counted
<1> QED
  BY <1>2, <1>13 DEF RInv, ValuesReleased, Walking

LEMMA DestroyCounts ==
  ASSUME IInv, RInv, Destroy
  PROVE  RInv'
<1>1. pc = "idle" /\ pc' = "destroyed" /\ UNCHANGED camp
      /\ owned' = [v \in ValueSet |->
                     owned[v] - InFrames(v) - (IF v = snapshot THEN 1 ELSE 0)
                                            - (IF v = camp.root THEN 1 ELSE 0)]
  BY DEF Destroy, cursor
<1>2. frames \in Seq(Frame)
  BY DEF IInv, TypeOK
<1>3. \A n \in Nodes \ camp.skip : owned'[n] = 0
  <2> TAKE n \in Nodes \ camp.skip
  <2>1. owned'[n] = owned[n] - Cardinality(Loops(frames, n)) - One(n = snapshot)
                    - One(n = camp.root)
    BY <1>1 DEF InFrames, Loops, One, ValueSet
  <2>2. owned[n] = Cardinality(Loops(frames, n)) + One(n = snapshot)
                   + One(n = camp.root) + One(n \in camp.skip)
    BY <1>1 DEF RInv, Counted
  <2>3. One(n \in camp.skip) = 0 /\ One(n = snapshot) \in Int /\ One(n = camp.root) \in Int
    BY DEF One
  <2>4. Cardinality(Loops(frames, n)) \in Nat
    BY <1>2, LoopsFinite
  <2> QED
    BY <2>1, <2>2, <2>3, <2>4
<1>4. ValuesReleased'
  BY <1>1, <1>3 DEF ValuesReleased
<1>5. Counted'
  BY <1>1 DEF Counted
<1> QED
  BY <1>4, <1>5 DEF RInv

LEMMA NextRInv == IInv /\ RInv /\ [Next]_vars => RInv'
<1> SUFFICES ASSUME IInv, RInv, [Next]_vars PROVE RInv'
  OBVIOUS
<1>1. CASE Step    BY <1>1, StepCounts
<1>2. CASE Mutate  BY <1>2, MutateCounts
<1>3. CASE GetAll  BY <1>3, GetAllCounts
<1>4. CASE Destroy BY <1>4, DestroyCounts
<1>5. CASE NothingApplies \/ Gone \/ NextChild \/ NextPath
  <2>1. pc # "destroyed" /\ pc' # "destroyed" /\ UNCHANGED <<camp, frames, snapshot, owned>>
    BY <1>5 DEF NothingApplies, Gone, NextChild, NextPath, cursor
  <2> QED
    BY <2>1, NothingTaken DEF RInv
<1>6. CASE GetObj \/ GetArray \/ TooDeep \/ OtherInst
  <2>1. pc # "destroyed" /\ pc' # "destroyed" /\ UNCHANGED <<camp, frames, snapshot, owned>>
    BY <1>6 DEF GetObj, GetArray, TooDeep, OtherInst, Crawling, Reach
  <2> QED
    BY <2>1, NothingTaken DEF RInv
<1>7. CASE UNCHANGED vars
  <2>1. UNCHANGED <<camp, frames, snapshot, owned, pc>>
    BY <1>7 DEF vars
  <2> QED
    BY <2>1 DEF RInv, Counted, ValuesReleased
<1> QED
  BY <1>1, <1>2, <1>3, <1>4, <1>5, <1>6, <1>7 DEF Next, Fuzz

(***************************************************************************)
(* Wherever the walk is when the fuzzer is destroyed, in however many      *)
(* loops, with a mutation in place or not, every reference it took to a    *)
(* value of the document is given back, but for the one that mark_seen     *)
(* takes to each value to be left alone (csonpath_my_fuzzing.h 186-204).   *)
(***************************************************************************)
THEOREM ReferencesReturned == Spec => []ValuesReleased
<1>1. Init => RInv
  BY InitRInv
<1>2. IInv /\ RInv /\ [Next]_vars => RInv'
  BY NextRInv
<1>3. RInv => ValuesReleased
  BY DEF RInv
<1> QED
  BY <1>1, <1>2, <1>3, Invariance, PTL DEF Spec
================================================================================
