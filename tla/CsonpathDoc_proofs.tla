-------------------------- MODULE CsonpathDoc_proofs ---------------------------
(***************************************************************************)
(* What the accessors and the mutators of a backend return, for every      *)
(* document: a value or NULL, and a document; and what is released with a  *)
(* value.                                                                  *)
(***************************************************************************)
EXTENDS CsonpathDoc, TLAPS

\* The entries of a container are a sequence of entries.
LEMMA KidsType ==
  ASSUME NEW h \in Heap, NEW n \in Nodes
  PROVE  /\ h[n] \in Node
         /\ h[n].kids \in Seq(Entry)
         /\ Size(h, n) \in Nat
         /\ DOMAIN h[n].kids = 1..Size(h, n)
         /\ \A i \in 1..Size(h, n) : h[n].kids[i] \in Entry
  BY DEF Heap, Node, Size

\* CSONPATH_GET gives a value or CSONPATH_NULL.
LEMMA GetType ==
  ASSUME NEW h \in Heap, NEW n, NEW key
  PROVE  Get(h, n, key) \in ValueSet
<1>1. CASE IsObj(h, n) /\ KeyIndex(h, n, key) # {}
  <2>1. n \in Nodes
    BY <1>1 DEF IsObj, IsKind
  <2> DEFINE i == CHOOSE i \in KeyIndex(h, n, key) : TRUE
  <2>2. i \in DOMAIN h[n].kids
    BY <1>1 DEF KeyIndex
  <2>3. h[n].kids[i] \in Entry
    BY <2>1, <2>2, KidsType
  <2> QED
    BY <1>1, <2>3 DEF Get, Entry
<1>2. CASE ~(IsObj(h, n) /\ KeyIndex(h, n, key) # {})
  BY <1>2 DEF Get, ValueSet
<1> QED
  BY <1>1, <1>2

\* CSONPATH_AT gives a value or CSONPATH_NULL.
LEMMA AtType ==
  ASSUME NEW h \in Heap, NEW n, NEW idx \in Int
  PROVE  At(h, n, idx) \in ValueSet
<1>1. CASE IsArray(h, n) /\ 0 <= idx /\ idx < Size(h, n)
  <2>1. n \in Nodes
    BY <1>1 DEF IsArray, IsKind
  <2>2. h[n].kids[idx + 1] \in Entry
    BY <1>1, <2>1, KidsType
  <2> QED
    BY <1>1, <2>2 DEF At, Entry
<1>2. CASE ~(IsArray(h, n) /\ 0 <= idx /\ idx < Size(h, n))
  BY <1>2 DEF At, ValueSet
<1> QED
  BY <1>1, <1>2

\* csonpath_child_info_refetch gives a value or CSONPATH_NULL.
LEMMA RefetchType ==
  ASSUME NEW h \in Heap, NEW n, NEW ci \in ChildInfo
  PROVE  Refetch(h, n, ci) \in ValueSet
<1>1. ci.idx \in Int
  BY DEF ChildInfo
<1> QED
  BY <1>1, GetType, AtType DEF Refetch, ValueSet

\* A foreach fetches a value, CSONPATH_NULL or, past the end, BAD.
LEMMA FetchType ==
  ASSUME NEW be, NEW h \in Heap, NEW n \in Nodes, NEW i \in Nat
  PROVE  Fetch(be, h, n, i) \in ValueSet \cup {BAD}
<1>1. CASE i < Size(h, n)
  <2>1. h[n].kids[i + 1] \in Entry
    BY <1>1, KidsType
  <2> QED
    BY <1>1, <2>1 DEF Fetch, Entry
<1>2. CASE ~(i < Size(h, n))
  BY <1>2 DEF Fetch, ValueSet
<1> QED
  BY <1>1, <1>2

\* Child infos are child infos.
LEMMA InfoType ==
  /\ NoInfo \in ChildInfo
  /\ \A key \in Text : KeyInfo(key) \in ChildInfo
  /\ \A idx \in Int : IdxInfo(idx) \in ChildInfo
  /\ \A h, n : \A key \in Text, idx \in Int : InfoSet(h, n, key, idx) \in ChildInfo
<1>1. NoInfo \in ChildInfo
  BY DEF ChildInfo, NoInfo, NoKey, Text
<1>2. \A key \in Text : KeyInfo(key) \in ChildInfo
  BY DEF ChildInfo, KeyInfo
<1>3. \A idx \in Int : IdxInfo(idx) \in ChildInfo
  BY DEF ChildInfo, IdxInfo, NoKey, Text
<1>4. \A h, n : \A key \in Text, idx \in Int : InfoSet(h, n, key, idx) \in ChildInfo
  BY <1>2, <1>3 DEF InfoSet
<1> QED
  BY <1>1, <1>2, <1>3, <1>4

--------------------------------------------------------------------------------
\* Giving a container other entries leaves a document.
LEMMA KidsUpdate ==
  ASSUME NEW h \in Heap, NEW n, NEW kids \in Seq(Entry)
  PROVE  [h EXCEPT ![n].kids = kids] \in Heap
  BY DEF Heap, Node

\* So does dropping a reference: what changes is that some nodes, of which
\* none is held elsewhere, are no more.
LEMMA ReleaseNodes ==
  ASSUME NEW h \in Heap, NEW n, NEW pinned
  PROVE  LET g    == Release(h, n, pinned)
             last == n \in Nodes /\ n \notin pinned /\ n \notin Contents(h, Parents(h))
             gone == IF last THEN Released(h, n, pinned)[Parents(h)] ELSE {}
         IN  /\ gone \subseteq Nodes /\ gone \cap pinned = {}
             /\ g = [m \in Nodes |-> IF m \in gone THEN [h[m] EXCEPT !.kind = "freed"] ELSE h[m]]
<1> DEFINE g    == Release(h, n, pinned)
           last == n \in Nodes /\ n \notin pinned /\ n \notin Contents(h, Parents(h))
           gone == IF last THEN Released(h, n, pinned)[Parents(h)] ELSE {}
<1>1. CASE last
  <2>1. Parents(h) \in SUBSET Nodes
    BY DEF Parents
  <2>2. gone \subseteq Nodes /\ gone \cap pinned = {}
    <3>1. \A S : HeldBy(h, Parents(h), S, pinned) \subseteq Nodes \ pinned
      BY DEF HeldBy, Contents
    <3> QED
      BY <1>1, <2>1, <3>1 DEF Released
  <2>3. g = Freed(h)[gone]
    BY <1>1 DEF Release
  <2> HIDE DEF gone, g
  <2> QED
    BY <2>2, <2>3 DEF Freed, g, gone
<1>2. CASE ~last
  <2>1. g = h /\ gone = {}
    BY <1>2 DEF Release
  <2>2. h = [m \in Nodes |-> h[m]]
    BY DEF Heap
  <2> QED
    BY <2>1, <2>2
<1> QED
  BY <1>1, <1>2

\* The children stay, and so does what is pinned.
LEMMA ReleaseEffect ==
  ASSUME NEW h \in Heap, NEW n, NEW pinned
  PROVE  LET g == Release(h, n, pinned) IN
         /\ g \in Heap
         /\ \A m \in Nodes : /\ g[m].kids = h[m].kids
                             /\ g[m].kind = h[m].kind \/ g[m].kind = "freed"
                             /\ m \in pinned => g[m] = h[m]
         /\ n \notin Nodes \/ n \in pinned => g = h
<1> DEFINE g    == Release(h, n, pinned)
           last == n \in Nodes /\ n \notin pinned /\ n \notin Contents(h, Parents(h))
           gone == IF last THEN Released(h, n, pinned)[Parents(h)] ELSE {}
<1>1. /\ gone \subseteq Nodes /\ gone \cap pinned = {}
      /\ g = [m \in Nodes |-> IF m \in gone THEN [h[m] EXCEPT !.kind = "freed"] ELSE h[m]]
  BY ReleaseNodes
<1>2. n \notin Nodes \/ n \in pinned => g = h
  BY DEF Release
<1> HIDE DEF g, gone
<1>3. \A m \in Nodes : /\ g[m] \in Node /\ g[m].kids = h[m].kids
                       /\ g[m].kind = h[m].kind \/ g[m].kind = "freed"
                       /\ m \in pinned => g[m] = h[m]
  BY <1>1 DEF Heap, Node, Kinds
<1> QED
  BY <1>1, <1>2, <1>3 DEF Heap, g

\* What is left is a document.
LEMMA ReleaseType ==
  ASSUME NEW h \in Heap, NEW n, NEW pinned
  PROVE  Release(h, n, pinned) \in Heap
  BY ReleaseEffect

--------------------------------------------------------------------------------
(***************************************************************************)
(* What goes with n.  S is closed if n is in it, and of the containers     *)
(* each that those of S alone refer to.                                    *)
(***************************************************************************)
Closed(h, n, pinned, S) ==
  /\ S \subseteq Parents(h) \ pinned /\ n \in S
  /\ HeldBy(h, Parents(h), S, pinned) \cap Parents(h) \subseteq S

\* More containers hold more.
LEMMA HeldByGrows ==
  ASSUME NEW h, NEW all, NEW S, NEW T, S \subseteq T, NEW pinned
  PROVE  HeldBy(h, all, S, pinned) \subseteq HeldBy(h, all, T, pinned)
  BY DEF HeldBy, Contents

\* What goes with n is what the least closed set holds.
LEMMA ReleasedIsLeast ==
  ASSUME NEW h \in Heap, NEW n \in Parents(h), NEW pinned, n \notin pinned
  PROVE  \E least : /\ Closed(h, n, pinned, least)
                    /\ \A S : Closed(h, n, pinned, S) => least \subseteq S
                    /\ Released(h, n, pinned)[Parents(h)]
                         = {n} \cup HeldBy(h, Parents(h), least, pinned)
<1> DEFINE all    == Parents(h)
           closed == {S \in SUBSET (all \ pinned) :
                        n \in S /\ HeldBy(h, all, S, pinned) \cap all \subseteq S}
           least  == {m \in all : \A S \in closed : m \in S}
<1>1. all \in SUBSET Nodes
  BY DEF Parents
<1>2. Released(h, n, pinned)[all] = {n} \cup HeldBy(h, all, least, pinned)
  BY <1>1 DEF Released
<1>3. \A S : S \in closed <=> Closed(h, n, pinned, S)
  BY DEF Closed
<1>4. (all \ pinned) \in closed
  BY DEF HeldBy
<1> HIDE DEF closed
<1>5. \A S \in closed : least \subseteq S
  OBVIOUS
<1>6. least \subseteq all \ pinned
  BY <1>4
<1>7. n \in least
  BY <1>3 DEF Closed
<1>8. HeldBy(h, all, least, pinned) \cap all \subseteq least
  <2>1. SUFFICES ASSUME NEW m \in all, m \in HeldBy(h, all, least, pinned), NEW S \in closed
                 PROVE  m \in S
    OBVIOUS
  <2>2. m \in HeldBy(h, all, S, pinned)
    BY <1>5, <2>1, HeldByGrows
  <2> QED
    BY <1>3, <2>2 DEF Closed
<1> HIDE DEF least
<1> QED
  BY <1>2, <1>3, <1>5, <1>6, <1>7, <1>8 DEF Closed

\* A container that refers to it goes too: what remains has nothing that goes.
LEMMA ReleasedWith ==
  ASSUME NEW h \in Heap, NEW n \in Nodes, NEW pinned, n \notin pinned,
         NEW m \in Released(h, n, pinned)[Parents(h)], m # n,
         NEW p \in Parents(h), m \in Contents(h, {p})
  PROVE  p \in Released(h, n, pinned)[Parents(h)]
<1> DEFINE gone == Released(h, n, pinned)[Parents(h)]
<1>1. n \in Parents(h)
  BY DEF Released, Parents
<1>2. PICK least : /\ Closed(h, n, pinned, least)
                   /\ \A S : Closed(h, n, pinned, S) => least \subseteq S
                   /\ gone = {n} \cup HeldBy(h, Parents(h), least, pinned)
  BY <1>1, ReleasedIsLeast
<1> HIDE DEF gone
<1>3. p \in least
  <2>1. m \notin Contents(h, Parents(h) \ least)
    BY <1>2 DEF HeldBy, gone
  <2> QED
    BY <2>1 DEF Contents
<1>4. CASE p = n
  BY <1>2, <1>4 DEF gone
<1>5. CASE p # n /\ p \notin HeldBy(h, Parents(h), least, pinned)
  <2>1. HeldBy(h, Parents(h), least \ {p}, pinned) \subseteq HeldBy(h, Parents(h), least, pinned)
    BY HeldByGrows
  <2>2. Closed(h, n, pinned, least \ {p})
    BY <1>2, <1>5, <2>1 DEF Closed
  <2> QED
    BY <1>2, <1>3, <2>2
<1>6. CASE p \in HeldBy(h, Parents(h), least, pinned)
  BY <1>2, <1>6 DEF gone
<1> QED
  BY <1>4, <1>5, <1>6

\* It is held by every closed set.
LEMMA ReleasedInside ==
  ASSUME NEW h \in Heap, NEW n \in Nodes, NEW pinned, n \notin pinned,
         NEW S, Closed(h, n, pinned, S),
         NEW m \in Released(h, n, pinned)[Parents(h)], m # n
  PROVE  m \in HeldBy(h, Parents(h), S, pinned)
<1>1. n \in Parents(h)
  BY DEF Closed
<1>2. PICK least : /\ \A T : Closed(h, n, pinned, T) => least \subseteq T
                   /\ Released(h, n, pinned)[Parents(h)]
                        = {n} \cup HeldBy(h, Parents(h), least, pinned)
  BY <1>1, ReleasedIsLeast
<1>3. m \in HeldBy(h, Parents(h), least, pinned) /\ least \subseteq S
  BY <1>2
<1> QED
  BY <1>3, HeldByGrows

--------------------------------------------------------------------------------
\* A sequence in which one entry has another value.
LEMMA SetAtType ==
  ASSUME NEW s \in Seq(Entry), NEW i, NEW v \in ValueSet
  PROVE  [s EXCEPT ![i].at = v] \in Seq(Entry)
<1>1. CASE i \in DOMAIN s
  <2>1. s[i] \in Entry
    BY <1>1
  <2>2. [s[i] EXCEPT !.at = v] \in Entry
    BY <2>1 DEF Entry
  <2> QED
    BY <1>1, <2>2
<1>2. CASE i \notin DOMAIN s
  <2>1. [s EXCEPT ![i].at = v] = [j \in DOMAIN s |-> s[j]]
    BY <1>2
  <2>2. s = [j \in DOMAIN s |-> s[j]]
    OBVIOUS
  <2> QED
    BY <2>1, <2>2
<1> QED
  BY <1>1, <1>2

\* A sequence without one of its elements.
LEMMA RemoveKidType ==
  ASSUME NEW s \in Seq(Entry), NEW i \in DOMAIN s
  PROVE  RemoveKid(s, i) \in Seq(Entry)
<1>1. Len(s) - 1 \in Nat /\ i \in 1..Len(s)
  OBVIOUS
<1>2. \A j \in 1..(Len(s) - 1) : (IF j < i THEN s[j] ELSE s[j + 1]) \in Entry
  BY <1>1
<1> QED
  BY <1>1, <1>2 DEF RemoveKid

\* CSONPATH_REMOVE_CHILD leaves a document.
LEMMA RemoveChildType ==
  ASSUME NEW be, NEW h \in Heap, NEW n, NEW ci \in ChildInfo, NEW pinned
  PROVE  RemoveChild(be, h, n, ci, pinned) \in Heap
<1> DEFINE kids == h[n].kids
           hit  == CASE ci.type = "STR"     -> IF IsObj(h, n) THEN KeyIndex(h, n, ci.key)
                                                              ELSE {}
                     [] ci.type = "INTEGER" -> IF IsArray(h, n)
                                               THEN {ci.idx + 1} \cap DOMAIN kids ELSE {}
                     [] OTHER               -> {}
           i    == CHOOSE j \in hit : TRUE
           left == IF ci.type = "INTEGER" /\ be = "json_c"
                   THEN [kids EXCEPT ![i].at = NULL]
                   ELSE RemoveKid(kids, i)
<1>1. CASE n \notin Nodes \/ hit = {}
  BY <1>1 DEF RemoveChild
<1>2. CASE n \in Nodes /\ hit # {}
  <2>1. kids \in Seq(Entry)
    BY <1>2, KidsType
  <2>2. hit \subseteq DOMAIN kids
    BY DEF KeyIndex
  <2>3. i \in DOMAIN kids
    BY <1>2, <2>2
  <2>4. [kids EXCEPT ![i].at = NULL] \in Seq(Entry)
    <3> HIDE DEF i, kids
    <3> QED
      BY <2>1, SetAtType DEF ValueSet
  <2>5. left \in Seq(Entry)
    <3> HIDE DEF i, kids
    <3> QED
      BY <2>1, <2>3, <2>4, RemoveKidType
  <2>6. [h EXCEPT ![n].kids = left] \in Heap
    <3> HIDE DEF left
    <3> QED
      BY <2>5, KidsUpdate
  <2>7. Release([h EXCEPT ![n].kids = left], kids[i].at, pinned) \in Heap
    <3> HIDE DEF left, i, kids
    <3> QED
      BY <2>6, ReleaseType
  <2> QED
    BY <1>2, <2>7 DEF RemoveChild
<1> QED
  BY <1>1, <1>2

\* CSONPATH_APPEND_AT leaves a document.
LEMMA AppendAtType ==
  ASSUME NEW h \in Heap, NEW n \in Nodes, NEW ci \in ChildInfo, NEW v \in ValueSet,
         NEW pinned
  PROVE  AppendAt(h, n, ci, v, pinned) \in Heap
<1> DEFINE kids == h[n].kids
           hit  == KeyIndex(h, n, ci.key)
           i    == IF ci.type = "STR"
                   THEN IF hit # {} THEN CHOOSE j \in hit : TRUE ELSE Len(kids) + 1
                   ELSE ci.idx + 1
           new  == IF i \in DOMAIN kids THEN [kids EXCEPT ![i].at = v]
                   ELSE IF ci.type = "STR" THEN Append(kids, [key |-> ci.key, at |-> v])
                   ELSE [Padded(kids, ci.idx) EXCEPT ![i].at = v]
           old  == IF i \in DOMAIN kids THEN kids[i].at ELSE NULL
<1>1. kids \in Seq(Entry)
  BY KidsType
<1>2. ci.idx \in Int /\ ci.key \in Text
  BY DEF ChildInfo
<1>3. CASE i > 0
  <2>1. [kids EXCEPT ![i].at = v] \in Seq(Entry)
    <3> HIDE DEF i, kids
    <3> QED
      BY <1>1, SetAtType
  <2>2. Append(kids, [key |-> ci.key, at |-> v]) \in Seq(Entry)
    BY <1>1, <1>2 DEF Entry
  <2>3. ci.type # "STR" => [Padded(kids, ci.idx) EXCEPT ![i].at = v] \in Seq(Entry)
    <3> SUFFICES ASSUME ci.type # "STR"
                 PROVE  [Padded(kids, ci.idx) EXCEPT ![i].at = v] \in Seq(Entry)
      OBVIOUS
    <3>1. ci.idx + 1 \in Nat
      BY <1>2, <1>3
    <3>2. \A j \in 1..(ci.idx + 1) :
            (IF j <= Len(kids) THEN kids[j] ELSE [key |-> NoKey, at |-> NULL]) \in Entry
      <4>1. [key |-> NoKey, at |-> NULL] \in Entry
        BY DEF Entry, ValueSet, Text
      <4>2. \A j \in 1..(ci.idx + 1) : j <= Len(kids) => kids[j] \in Entry
        <5> HIDE DEF kids
        <5> QED
          BY <1>1, <1>2
      <4> QED
        BY <4>1, <4>2
    <3>3. Padded(kids, ci.idx) \in Seq(Entry)
      BY <3>1, <3>2 DEF Padded
    <3> HIDE DEF i, kids
    <3> QED
      BY <3>3, SetAtType
  <2>4. new \in Seq(Entry)
    <3> HIDE DEF i, kids
    <3> QED
      BY <2>1, <2>2, <2>3
  <2>5. [h EXCEPT ![n].kids = new] \in Heap
    <3> HIDE DEF new
    <3> QED
      BY <2>4, KidsUpdate
  <2>6. Release([h EXCEPT ![n].kids = new], old, pinned) \in Heap
    <3> HIDE DEF new, old
    <3> QED
      BY <2>5, ReleaseType
  <2> QED
    BY <1>3, <2>6 DEF AppendAt
<1>4. CASE ~(i > 0)
  BY <1>4 DEF AppendAt
<1> QED
  BY <1>3, <1>4

\* CSONPATH_NEW_OBJECT and CSONPATH_NEW_ARRAY give a node of the document.
LEMMA AllocateType ==
  ASSUME NEW h \in Heap, NEW kind \in Kinds, FreeNodes(h) # {}
  PROVE  NewNode(h) \in Nodes /\ Allocate(h, kind) \in Heap
<1>1. NewNode(h) \in Nodes
  BY DEF NewNode, FreeNodes
<1>2. Blank(kind) \in Node
  BY DEF Blank, Node, NoKey, Text
<1> QED
  BY <1>1, <1>2 DEF Allocate, Heap

================================================================================
