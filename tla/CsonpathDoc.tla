------------------------------ MODULE CsonpathDoc ------------------------------
(***************************************************************************)
(* JSON values as the engine sees them through a backend: a heap of nodes, *)
(* each an object, an array or a scalar, and the accessors and mutators of *)
(* the backend headers.  NULL is CSONPATH_NULL, which the Python and the   *)
(* json-c backends also use for a JSON null; in yyjson a JSON null is a    *)
(* value like another, of kind "null".  BAD is the C null pointer that     *)
(* PyList_GetItem returns past the end of a list, which is not             *)
(* CSONPATH_NULL in Python and cannot be passed to a type test.            *)
(*                                                                         *)
(* The entries of a container are a sequence of [key, at] records in       *)
(* iteration order; the key of an array entry is NoKey.                    *)
(***************************************************************************)
EXTENDS CsonpathInst

CONSTANTS
  Nodes,    \* node identities
  Names,    \* the strings that are compared
  NULL,     \* CSONPATH_NULL
  BAD,      \* a C null pointer where CSONPATH_NULL is something else
  Rank,     \* the strcmp order of the names
  MaxArrayPad   \* CSONPATH_MAX_ARRAY_PAD

ASSUME DocAssumption ==
  /\ NULL \notin Nodes /\ BAD \notin Nodes /\ NULL # BAD
  /\ Rank \in [Names -> Int]
  /\ \A s, t \in Names : Rank[s] = Rank[t] => s = t
  /\ MaxArrayPad \in Nat

\* "free" has not been allocated yet, "freed" was released by its last owner.
Kinds == {"free", "freed", "obj", "arr", "num", "str", "bool", "null"}

ValueSet == Nodes \cup {NULL}

Entry == [key : Text, at : ValueSet]
Node  == [kind : Kinds, kids : Seq(Entry), num : Int, str : Text]
Heap  == [Nodes -> Node]

Blank(kind) == [kind |-> kind, kids |-> <<>>, num |-> 0, str |-> NoKey]

IsKind(h, n, kind) == n \in Nodes /\ h[n].kind = kind
IsObj(h, n)   == IsKind(h, n, "obj")
IsArray(h, n) == IsKind(h, n, "arr")
IsStr(h, n)   == IsKind(h, n, "str")
IsBool(h, n)  == IsKind(h, n, "bool")
IsNull(h, n)  == n = NULL \/ IsKind(h, n, "null")
IsContainer(h, n) == IsObj(h, n) \/ IsArray(h, n)

Size(h, n) == Len(h[n].kids)

(***************************************************************************)
(* Backends.  Python: PyDict, PyList; json-c: json_object; yyjson, of      *)
(* which only what reads is here: yyjson_val, yyjson_mut_val.              *)
(***************************************************************************)
Backends == {"python", "json_c", "yyjson"}
Writable == {"python", "json_c"}

\* how the backend's parser gives a document its nulls
NullsOf(be, h) ==
  IF be = "yyjson"
  THEN \A n \in Nodes : \A i \in DOMAIN h[n].kids : h[n].kids[i].at # NULL
  ELSE \A n \in Nodes : h[n].kind # "null"

\* PyLong_Check holds of True and False; json_type_int does not.
IsNum(be, h, n) == IsKind(h, n, "num") \/ (be = "python" /\ IsBool(h, n))

\* "if (tret)" in find_first and find_all: Py_None is a non-null pointer.
NullIsTrue(be) == be = "python"

\* CSONPATH_NEED_FOREACH_REDO
NeedForeachRedo(be, h, n) == be = "python" \/ IsObj(h, n)

(***************************************************************************)
(* Accessors: CSONPATH_GET, CSONPATH_AT and the child a foreach fetches at *)
(* a (zero-based) position that the container may have lost meanwhile.     *)
(***************************************************************************)
KeyIndex(h, n, key) == {i \in DOMAIN h[n].kids : h[n].kids[i].key = key}

\* The accessor with a mistake (see CsonpathDo): a C null pointer for a miss.
BugGet(h, n, key) ==
  IF IsObj(h, n) /\ KeyIndex(h, n, key) # {}
  THEN h[n].kids[CHOOSE i \in KeyIndex(h, n, key) : TRUE].at
  ELSE BAD

Get(h, n, key) ==
  IF IsObj(h, n) /\ KeyIndex(h, n, key) # {}
  THEN h[n].kids[CHOOSE i \in KeyIndex(h, n, key) : TRUE].at
  ELSE NULL

At(h, n, idx) ==
  IF IsArray(h, n) /\ 0 <= idx /\ idx < Size(h, n)
  THEN h[n].kids[idx + 1].at
  ELSE NULL

Fetch(be, h, n, i) ==
  IF i < Size(h, n) THEN h[n].kids[i + 1].at
  ELSE IF be = "python" THEN BAD ELSE NULL

(***************************************************************************)
(* struct csonpath_child_info: which child of a container a value is.      *)
(***************************************************************************)
ChildInfo == [type : {"NONE", "INTEGER", "STR"}, idx : Int,
              key : Text]
NoInfo    == [type |-> "NONE", idx |-> 0, key |-> NoKey]
KeyInfo(key) == [type |-> "STR", idx |-> 0, key |-> key]
IdxInfo(idx) == [type |-> "INTEGER", idx |-> idx, key |-> NoKey]

\* csonpath_child_info_set: a key for an object, an index for anything else
InfoSet(h, n, key, idx) == IF IsObj(h, n) THEN KeyInfo(key) ELSE IdxInfo(idx)

\* csonpath_child_info_refetch
Refetch(h, n, ci) ==
  CASE ci.type = "STR"     -> Get(h, n, ci.key)
    [] ci.type = "INTEGER" -> At(h, n, ci.idx)
    [] OTHER               -> NULL

(***************************************************************************)
(* Mutators.  A node nothing refers to any more is released, and with it   *)
(* what only it refers to.                                                 *)
(***************************************************************************)
Parents(h)     == {n \in Nodes : IsContainer(h, n) /\ h[n].kids # <<>>}
Contents(h, S) == Nodes \cap UNION {{h[m].kids[i].at : i \in DOMAIN h[m].kids} : m \in S}

\* What those of all that are in S refer to, and no others.
HeldBy(h, all, S, pinned) == Contents(h, S) \ (Contents(h, all \ S) \cup pinned)

\* What is released when n is, all being the parents: n, and what is held by the
\* least set that has n and, of all, each that the set holds.
Released(h, n, pinned) ==
  [all \in SUBSET Nodes |->
     LET closed == {S \in SUBSET (all \ pinned) :
                      n \in S /\ HeldBy(h, all, S, pinned) \cap all \subseteq S}
         least  == {m \in all : \A S \in closed : m \in S}
     IN  {n} \cup (IF n \in all THEN HeldBy(h, all, least, pinned) ELSE {})]
Freed(h) ==
  [S \in SUBSET Nodes |->
     [m \in Nodes |-> IF m \in S THEN [h[m] EXCEPT !.kind = "freed"] ELSE h[m]]]

Release(h, n, pinned) ==
  IF n \in Nodes /\ n \notin pinned /\ n \notin Contents(h, Parents(h))
  THEN Freed(h)[Released(h, n, pinned)[Parents(h)]]
  ELSE h

RemoveKid(s, i) == [j \in 1..(Len(s) - 1) |-> IF j < i THEN s[j] ELSE s[j + 1]]

(***************************************************************************)
(* CSONPATH_REMOVE_CHILD.  An object loses the key.  A Python list loses   *)
(* the slot and shifts; a json-c array keeps the slot, set to null.        *)
(* A child that is not there is left alone.                                *)
(***************************************************************************)
RemoveChild(be, h, n, ci, pinned) ==
  LET kids == h[n].kids
      hit  == CASE ci.type = "STR"     -> IF IsObj(h, n) THEN KeyIndex(h, n, ci.key)
                                                         ELSE {}
                [] ci.type = "INTEGER" -> IF IsArray(h, n) THEN {ci.idx + 1} \cap DOMAIN kids
                                                           ELSE {}
                [] OTHER               -> {}
      i    == CHOOSE j \in hit : TRUE
      left == IF ci.type = "INTEGER" /\ be = "json_c"
              THEN [kids EXCEPT ![i].at = NULL]
              ELSE RemoveKid(kids, i)
  IN  IF n \notin Nodes \/ hit = {} THEN h
      ELSE Release([h EXCEPT ![n].kids = left], kids[i].at, pinned)

(***************************************************************************)
(* CSONPATH_APPEND_AT: replaces the child, or adds it, padding an array    *)
(* with nulls; fails on a container of the wrong type and, in Python, on a *)
(* negative index and when the padding exceeds CSONPATH_MAX_ARRAY_PAD.     *)
(* json_array_try_put does not look at what json_object_array_put_idx      *)
(* returns: a negative index is a success that writes nothing.             *)
(***************************************************************************)
CanAppend(be, h, n, ci) ==
  \/ ci.type = "STR" /\ IsObj(h, n)
  \/ /\ ci.type = "INTEGER"
     /\ IsArray(h, n)
     /\ be = "python" => 0 <= ci.idx /\ ci.idx - Size(h, n) <= MaxArrayPad

Padded(kids, idx) ==
  [j \in 1..(idx + 1) |-> IF j <= Len(kids) THEN kids[j]
                                            ELSE [key |-> NoKey, at |-> NULL]]

AppendAt(h, n, ci, v, pinned) ==
  LET kids == h[n].kids
      hit  == KeyIndex(h, n, ci.key)
      i    == IF ci.type = "STR"
              THEN IF hit # {} THEN CHOOSE j \in hit : TRUE ELSE Len(kids) + 1
              ELSE ci.idx + 1
      new  == IF i \in DOMAIN kids THEN [kids EXCEPT ![i].at = v]
              ELSE IF ci.type = "STR" THEN Append(kids, [key |-> ci.key, at |-> v])
              ELSE [Padded(kids, ci.idx) EXCEPT ![i].at = v]
      old  == IF i \in DOMAIN kids THEN kids[i].at ELSE NULL
  IN  IF i > 0 THEN Release([h EXCEPT ![n].kids = new], old, pinned) ELSE h

\* CSONPATH_NEW_OBJECT, CSONPATH_NEW_ARRAY: the next unused node.
FreeNodes(h)       == {n \in Nodes : h[n].kind = "free"}
NewNode(h)         == CHOOSE n \in FreeNodes(h) : TRUE
Allocate(h, kind)  == [h EXCEPT ![NewNode(h)] = Blank(kind)]
================================================================================
