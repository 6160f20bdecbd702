----------------------------- MODULE CsonpathPython -----------------------------
(***************************************************************************)
(* The CsonPath objects of the Python binding (csonpath_python.c).  An     *)
(* object owns a compiled path; a call of one of its methods lends the     *)
(* extra roots to that compiled path, walks, and takes them back.  A walk  *)
(* is C code that holds the GIL, except while it calls the user's          *)
(* callback: there anything may happen, on this object too, and other      *)
(* threads run.                                                            *)
(*                                                                         *)
(* What a walk finds is CsonpathDo's business; here it is the sequence of  *)
(* its steps that touch what calls share: the compiled path, its           *)
(* extra_roots, the error indicator, and the callback.                     *)
(***************************************************************************)
EXTENDS Sequences, Naturals, FiniteSets

CONSTANTS
  Threads,    \* Python threads
  Objects,    \* CsonPath objects
  Progs,      \* struct csonpath allocations
  Lists,      \* the lists PySequence_List makes of extra_objs
  None,       \* Py_None, and a null self->cp
  Unread,     \* a call that has not looked at its roots
  MaxCalls    \* how many calls may be open, of all threads

ASSUME PythonAssumption ==
  /\ None \notin Threads \cup Objects \cup Progs \cup Lists \cup {Unread}
  /\ Unread \notin Lists
  /\ MaxCalls \in Nat

Roots    == Lists \cup {None}

VARIABLES
  gil,      \* the thread that runs
  stack,    \* the calls each thread is in
  cp,       \* self->cp of each object
  prog,     \* the compiled paths
  held,     \* the lists with a reference from a compiled path, or leaked
  err,      \* PyErr_Occurred, per thread
  fault,    \* the objects of which a call used a path after csonpath_destroy
  \* history, which no step of the code depends on:
  replaced, \* the objects that were given a new path under an open call
  crossed   \* the objects whose open calls got into each other's way

vars == <<gil, stack, cp, prog, held, err, fault, replaced, crossed>>

(***************************************************************************)
(* A call: the object, the compiled path it walks (an argument of          *)
(* csonpath_<op>, read once), where it stands ("walk", "user": in the      *)
(* callback, "end": back in the method), and whether csonpath_<op>         *)
(* returned -1.  A method that takes no callback is one that calls nobody. *)
(* For the properties: the list it lent, the one it read last (since the   *)
(* last callback), and the last error reported in it: one that ends the call ("error"), or one of  *)
(* the operand of a filter, which ends a comparison ("operand") and which  *)
(* user code may have handled since ("handled").                           *)
(***************************************************************************)
Frame == [obj : Objects, cp : Progs, pc : {"walk", "user", "end"},
          failed : BOOLEAN, own : Roots, got : Roots \cup {Unread},
          bad : {"none", "operand", "handled", "error"}]
Prog == [live : BOOLEAN, roots : Roots]

Compiled  == [live |-> TRUE, roots |-> None]
Destroyed == [live |-> FALSE, roots |-> None]  \* the roots it had are leaked

Depth(t) == Len(stack[t])
Top(t)   == stack[t][Depth(t)]
InUser(t)    == gil = t /\ (stack[t] # <<>> => Top(t).pc = "user")
At(t, pc)    == gil = t /\ stack[t] # <<>> /\ Top(t).pc = pc
SetTop(t, f)  == stack' = [stack EXCEPT ![t][Depth(t)] = f]

OpenCalls     == {c \in Threads \X (1..MaxCalls) : c[2] <= Depth(c[1])}
Open(o)       == \E t \in Threads : \E i \in 1..Depth(t) : stack[t][i].obj = o
Lending(o)    == \E t \in Threads : \E i \in 1..Depth(t) :
                   stack[t][i].obj = o /\ stack[t][i].own # None
IsPointedAt(p) == \/ \E o \in Objects : cp[o] = p
                  \/ \E t \in Threads : \E i \in 1..Depth(t) : stack[t][i].cp = p

Touch(f) == fault' = IF prog[f.cp].live THEN fault ELSE fault \cup {f.obj}

(***************************************************************************)
(* Nothing in the binding keeps a call off an object that has another one  *)
(* open.  Two calls of an object are in each other's way if one begins     *)
(* while another has lent roots, or lends roots while another thread is in *)
(* one: extra_roots is one field.                                          *)
(***************************************************************************)
Crosses(t, o, l) ==
  \E u \in Threads : \E i \in 1..Depth(u) :
    stack[u][i].obj = o /\ (stack[u][i].own # None \/ (l # None /\ u # t))

\* History ends with the last open call of the object.
OpenElsewhere(t) ==
  \E u \in Threads : \E i \in 1..Depth(u) :
    (u # t \/ i # Depth(t)) /\ stack[u][i].obj = Top(t).obj
After(t, S) == IF OpenElsewhere(t) THEN S ELSE S \ {Top(t).obj}

Sound(o) == o \notin replaced \cup crossed

--------------------------------------------------------------------------------
(***************************************************************************)
(* User code: a callback, or what a thread does outside any call.          *)
(***************************************************************************)

\* PyCsonPath_new; a path that does not compile leaves no object
New(t, o, p) ==
  /\ InUser(t) /\ ~err[t]
  /\ cp[o] = None /\ ~IsPointedAt(p)
  /\ \/ /\ prog' = [prog EXCEPT ![p] = Compiled]
        /\ cp' = [cp EXCEPT ![o] = p]
        /\ UNCHANGED err
     \/ err' = [err EXCEPT ![t] = TRUE] /\ UNCHANGED <<cp, prog>>
  /\ UNCHANGED <<gil, stack, held, fault, replaced, crossed>>

\* PyCsonPath_dealloc: no method runs on an object that nothing refers to
Dealloc(t, o) ==
  /\ InUser(t)
  /\ cp[o] # None /\ ~Open(o)
  /\ prog' = [prog EXCEPT ![cp[o]] = Destroyed]
  /\ cp' = [cp EXCEPT ![o] = None]
  /\ UNCHANGED <<gil, stack, held, err, fault, replaced, crossed>>

BugSetPath(t, o, p) ==                    \* csonpath_set_path: destroy, then compile
  /\ InUser(t) /\ ~err[t]
  /\ cp[o] # None /\ ~IsPointedAt(p)
  /\ \/ /\ prog' = [prog EXCEPT ![p] = Compiled, ![cp[o]] = Destroyed]
        /\ cp' = [cp EXCEPT ![o] = p]
        /\ replaced' = IF Open(o) THEN replaced \cup {o} ELSE replaced
        /\ UNCHANGED err
     \/ /\ prog' = [prog EXCEPT ![cp[o]] = Destroyed]
        /\ err' = [err EXCEPT ![t] = TRUE]
        /\ UNCHANGED <<cp, replaced>>
  /\ UNCHANGED <<gil, stack, held, fault, crossed>>

\* set_path: the new path is compiled first, so that a bad one changes nothing.
\* The old one is destroyed whatever calls are walking it.
SetPath(t, o, p) ==
  /\ InUser(t) /\ ~err[t]
  /\ cp[o] # None /\ ~IsPointedAt(p)
  /\ \/ /\ prog' = [prog EXCEPT ![p] = Compiled,
                                ![cp[o]] = Destroyed]
        /\ cp' = [cp EXCEPT ![o] = p]
        /\ replaced' = IF Open(o) THEN replaced \cup {o} ELSE replaced
        /\ UNCHANGED err
     \/ err' = [err EXCEPT ![t] = TRUE] /\ UNCHANGED <<cp, prog, replaced>>
  /\ UNCHANGED <<gil, stack, held, fault, crossed>>

BugCall(t, o, l) ==                   \* extra_objs=None is lent like a list
  /\ InUser(t) /\ ~err[t]
  /\ cp[o] # None
  /\ Cardinality(OpenCalls) < MaxCalls
  /\ l \notin held
  /\ prog' = [prog EXCEPT ![cp[o]].roots = l]
  /\ held' = held \cup {l}
  /\ stack' = [stack EXCEPT ![t] = Append(@,
       [obj |-> o, cp |-> cp[o], pc |-> "walk", failed |-> FALSE,
        own |-> l, got |-> Unread, bad |-> "none"])]
  /\ crossed' = IF Crosses(t, o, l) THEN crossed \cup {o} ELSE crossed
  /\ UNCHANGED <<gil, cp, err, fault, replaced>>

\* A method is called: csonpath_python_set_extra_roots, and the walk begins.
\* Arguments of the wrong type are refused before anything changes.
Call(t, o, l) ==
  /\ InUser(t) /\ ~err[t]
  /\ cp[o] # None
  /\ Cardinality(OpenCalls) < MaxCalls
  /\ l \notin held
  /\ prog' = [prog EXCEPT ![cp[o]].roots = IF l = None THEN @ ELSE l]
  /\ held' = held \cup ({l} \ {None})
  /\ stack' = [stack EXCEPT ![t] = Append(@,
       [obj |-> o, cp |-> cp[o], pc |-> "walk", failed |-> FALSE,
        own |-> l, got |-> Unread, bad |-> "none"])]
  /\ crossed' = IF Crosses(t, o, l) THEN crossed \cup {o} ELSE crossed
  /\ UNCHANGED <<gil, cp, err, fault, replaced>>

Handled(f) == [f EXCEPT !.bad = IF @ = "operand" THEN "handled" ELSE @]

\* An exception is handled by user code: one of its own, or one that it was
\* called with ...
Catch(t) ==
  /\ InUser(t) /\ err[t]
  /\ err' = [err EXCEPT ![t] = FALSE]
  /\ stack' = [stack EXCEPT ![t] = [i \in 1..Depth(t) |-> Handled(@[i])]]
  /\ UNCHANGED <<gil, cp, prog, held, fault, replaced, crossed>>

BugCallbackRaises(t) ==                   \* the result of the callback is not looked at
  /\ At(t, "user")
  /\ SetTop(t, [Top(t) EXCEPT !.pc = "walk", !.bad = "error"])
  /\ err' = [err EXCEPT ![t] = TRUE]
  /\ UNCHANGED <<gil, cp, prog, held, fault, replaced, crossed>>

\* ... or the callback raises (or lets one through): CSONPATH_CALL_CALLBACK is -1.
CallbackRaises(t) ==
  /\ At(t, "user")
  /\ SetTop(t, [Top(t) EXCEPT !.pc = "end", !.failed = TRUE, !.bad = "error"])
  /\ err' = [err EXCEPT ![t] = TRUE]
  /\ UNCHANGED <<gil, cp, prog, held, fault, replaced, crossed>>

CallbackReturns(t) ==
  /\ At(t, "user") /\ ~err[t]
  /\ SetTop(t, [Top(t) EXCEPT !.pc = "walk"])
  /\ UNCHANGED <<gil, cp, prog, held, err, fault, replaced, crossed>>

\* The interpreter lets another thread run; C code does not.
Switch(t, u) ==
  /\ InUser(t) /\ t # u
  /\ gil' = u
  /\ UNCHANGED <<stack, cp, prog, held, err, fault, replaced, crossed>>

--------------------------------------------------------------------------------
(***************************************************************************)
(* The walk.                                                               *)
(***************************************************************************)

\* SWITCH_ROOT.  Without roots, or with too few, it is an error, which ends the
\* walk unless a filter is evaluating its operand: there it is a comparison that
\* fails.
ReadRoots(t) ==
  LET f == [Top(t) EXCEPT !.got = prog[Top(t).cp].roots] IN
  /\ At(t, "walk")
  /\ Touch(f)
  /\ \/ f.got # None /\ SetTop(t, f) /\ UNCHANGED err
     \/ /\ \/ SetTop(t, [f EXCEPT !.pc = "end", !.failed = TRUE, !.bad = "error"])
           \/ SetTop(t, [f EXCEPT !.bad = "operand"])
        /\ err' = [err EXCEPT ![t] = TRUE]
  /\ UNCHANGED <<gil, cp, prog, held, replaced, crossed>>

\* CSONPATH_CALL_CALLBACK; nothing looks at the error indicator here
CallUser(t) ==
  /\ At(t, "walk")
  /\ Touch(Top(t))
  /\ SetTop(t, [Top(t) EXCEPT !.pc = "user", !.got = Unread])
  /\ UNCHANGED <<gil, cp, prog, held, err, replaced, crossed>>

\* A walk whose last match was handed over may end without another look at its
\* path.
WalkEnds(t) ==
  /\ At(t, "walk")
  /\ Touch(Top(t)) \/ UNCHANGED fault
  /\ SetTop(t, [Top(t) EXCEPT !.pc = "end"])
  /\ UNCHANGED <<gil, cp, prog, held, err, replaced, crossed>>

BugReturn(t) ==                           \* an error leaves the roots where they are
  LET p == cp[Top(t).obj] IN
  /\ At(t, "end")
  /\ IF err[t] THEN UNCHANGED <<held, prog>>
     ELSE /\ held' = held \ {prog[p].roots}
          /\ prog' = [prog EXCEPT ![p].roots = None]
  /\ err' = [err EXCEPT ![t] = @ \/ Top(t).failed]
  /\ stack' = [stack EXCEPT ![t] = SubSeq(@, 1, Len(@) - 1)]
  /\ replaced' = After(t, replaced) /\ crossed' = After(t, crossed)
  /\ UNCHANGED <<gil, cp, fault>>

\* Back in the method: csonpath_python_clear_extra_roots on what self->cp is
\* now, and NULL if an error was reported.
Return(t) ==
  LET p == cp[Top(t).obj] IN
  /\ At(t, "end")
  /\ held' = held \ {prog[p].roots}
  /\ prog' = [prog EXCEPT ![p].roots = None]
  /\ err' = [err EXCEPT ![t] = @ \/ Top(t).failed]
  /\ stack' = [stack EXCEPT ![t] = SubSeq(@, 1, Len(@) - 1)]
  /\ replaced' = After(t, replaced) /\ crossed' = After(t, crossed)
  /\ UNCHANGED <<gil, cp, fault>>

--------------------------------------------------------------------------------
Init ==
  /\ gil \in Threads
  /\ stack = [t \in Threads |-> <<>>]
  /\ cp = [o \in Objects |-> None]
  /\ prog = [p \in Progs |-> Destroyed]
  /\ held = {}
  /\ err = [t \in Threads |-> FALSE]
  /\ fault = {} /\ replaced = {} /\ crossed = {}

UserStep(t) ==
  \/ \E o \in Objects :
       \/ Dealloc(t, o)
       \/ \E p \in Progs : SetPath(t, o, p) \/ New(t, o, p)
       \/ \E l \in Roots : Call(t, o, l)
  \/ Catch(t) \/ CallbackRaises(t) \/ CallbackReturns(t)
  \/ \E u \in Threads : Switch(t, u)

WalkStep(t) == ReadRoots(t) \/ CallUser(t) \/ WalkEnds(t) \/ Return(t)

\* After a use of freed memory anything may happen, and nothing more is said.
Next == fault = {} /\ \E t \in Threads : UserStep(t) \/ WalkStep(t)

Spec == Init /\ [][Next]_vars

--------------------------------------------------------------------------------
TypeOK ==
  /\ gil \in Threads
  /\ stack \in [Threads -> Seq(Frame)]
  /\ cp \in [Objects -> Progs \cup {None}]
  /\ prog \in [Progs -> Prog]
  /\ held \subseteq Lists
  /\ err \in [Threads -> BOOLEAN]
  /\ fault \subseteq Objects /\ replaced \subseteq Objects /\ crossed \subseteq Objects

(***************************************************************************)
(* A walk finds its compiled path destroyed only if a set_path of that     *)
(* very object succeeded under it: no other interleaving of threads,       *)
(* callbacks, deallocations and set_path (of other objects, or that fails) *)
(* frees what a walk reads (csonpath_python.c 472-478, 548-568).  And no   *)
(* object is left with a destroyed path, nor one with an open call without *)
(* any: what Return clears is always there.                                *)
(***************************************************************************)
NoUseAfterDestroy ==
  /\ fault \subseteq replaced
  /\ \A o \in Objects : cp[o] # None => prog[cp[o]].live
  /\ \A t \in Threads : \A i \in 1..Depth(t) :
       LET f == stack[t][i] IN
       cp[f.obj] # None /\ (f.obj \notin replaced => cp[f.obj] = f.cp)

(***************************************************************************)
(* The extra_roots of a compiled path are those of exactly one open call,  *)
(* the last of the calls of that object to have begun, of any thread: this *)
(* is what lets Return give back whatever it finds there (csonpath_python.c*)
(* 285, 291-293).  An object is an exception while calls of it are open    *)
(* that got into each other's way, but even then a list is in one path     *)
(* only, and is not given back twice; and roots never outlast the last of  *)
(* the calls.                                                              *)
(***************************************************************************)
LendsAlone ==
  /\ \A t \in Threads : \A i \in 1..Depth(t) :
       Sound(stack[t][i].obj) /\ stack[t][i].own # None =>
         /\ prog[stack[t][i].cp].roots = stack[t][i].own
         /\ \A u \in Threads : \A j \in 1..Depth(u) :
              stack[u][j].obj = stack[t][i].obj => u = t /\ j <= i
  /\ \A o \in Objects :
       cp[o] # None /\ prog[cp[o]].roots # None => Open(o) /\ (Sound(o) => Lending(o))
  /\ \A p \in Progs : prog[p].roots # None =>
       prog[p].roots \in held /\ \A q \in Progs : prog[q].roots = prog[p].roots => q = p

(***************************************************************************)
(* The extra_roots field, shared by all the calls of an object, behaves as *)
(* though each call had its own (CsonpathLend): a call reads the list it   *)
(* lent, and gives back that list and no other, errors included            *)
(* (csonpath_python.c 274-295 and the methods 343-470).  Calls that get    *)
(* into each other's way spoil that for their own object and until they    *)
(* have ended, and for no other.                                           *)
(***************************************************************************)
Lend == INSTANCE CsonpathLend WITH
          NoRoots <- None,
          spoilt <- replaced \cup crossed,
          open <- [t \in Threads |-> [i \in 1..Depth(t) |->
                     [obj |-> stack[t][i].obj, own |-> stack[t][i].own,
                      got |-> stack[t][i].got]]]
RootsAreLent == Lend!Spec

(***************************************************************************)
(* A call in which an error was reported raises (the PyErr_Occurred tests  *)
(* of csonpath_python.c 343-470): whatever the walk went on to do, and     *)
(* whatever ran in its callbacks, unless the error was that of a filter's  *)
(* operand and user code handled it.                                       *)
(***************************************************************************)
UnhandledErrorIsRaised ==
  [][\A t \in Threads :
       Len(stack'[t]) < Depth(t) /\ Top(t).bad \in {"operand", "error"} => err'[t]]_vars

(***************************************************************************)
(* tests/python/test_subpath.py:69: "$N without extra_objs must raise      *)
(* instead of hanging."  Without the exception: every call in which an     *)
(* error was reported raises.                                              *)
(***************************************************************************)
ErrorIsRaised ==
  [][\A t \in Threads :
       Len(stack'[t]) < Depth(t) /\ Top(t).bad # "none" => err'[t]]_vars
================================================================================
