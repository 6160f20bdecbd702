------------------------------ MODULE CsonpathLend ------------------------------
(***************************************************************************)
(* What the extra_objs argument promises: a list of extra roots belongs to *)
(* one call, from its first step to its last.  A "$N" met by a call is     *)
(* looked up in the list of that call, and when the call returns the list  *)
(* it lent is given back, and nothing else is.                             *)
(*                                                                         *)
(* Every thread has a stack of open calls: a callback may make calls.  The *)
(* promise to an object is off when a call of it begins while another has  *)
(* lent roots, or lends roots while another thread is in one, or when the  *)
(* object gets a new path under a call (Spoil).  It is on again once these *)
(* calls have ended, and meanwhile they read and give back no list of      *)
(* another object.                                                         *)
(***************************************************************************)
EXTENDS Sequences, Naturals

CONSTANTS
  Threads,  \* the threads of the interpreter
  Objects,  \* what is called
  Lists,    \* the lists of extra roots
  NoRoots,  \* a call without extra_objs
  Unread    \* a call that has not looked at its roots

VARIABLES
  open,     \* the open calls of each thread: what each lent, and what it has read
  held,     \* the lists that are lent
  spoilt    \* the objects to which the promise is off

vars == <<open, held, spoilt>>

Call == [obj : Objects, own : Lists \cup {NoRoots}, got : Lists \cup {NoRoots, Unread}]

TypeOK == open \in [Threads -> Seq(Call)] /\ held \subseteq Lists /\ spoilt \subseteq Objects

Last(t) == open[t][Len(open[t])]

\* The lists of the calls to which the promise is on.
Promised ==
  {l \in Lists : \E t \in Threads : \E i \in 1..Len(open[t]) :
                  open[t][i].own = l /\ open[t][i].obj \notin spoilt}

Crosses(t, o, l) ==
  \E u \in Threads : \E i \in 1..Len(open[u]) :
    open[u][i].obj = o /\ (open[u][i].own # NoRoots \/ (l # NoRoots /\ u # t))

IsOnlyCall(t) ==
  \A u \in Threads : \A i \in 1..Len(open[u]) :
    open[u][i].obj = Last(t).obj => u = t /\ i = Len(open[t])

Init == open = [t \in Threads |-> <<>>] /\ held = {} /\ spoilt = {}

Begin(t, o, l) ==
  /\ l \notin held
  /\ open' = [open EXCEPT ![t] = Append(@, [obj |-> o, own |-> l, got |-> Unread])]
  /\ held' = held \cup ({l} \ {NoRoots})
  /\ spoilt' = IF Crosses(t, o, l) THEN spoilt \cup {o} ELSE spoilt

Spoil(o) ==
  /\ \E t \in Threads : \E i \in 1..Len(open[t]) : open[t][i].obj = o
  /\ spoilt' = spoilt \cup {o}
  /\ UNCHANGED <<open, held>>

Read(t) ==
  /\ open[t] # <<>>
  /\ \E l \in IF Last(t).obj \in spoilt THEN (Lists \ Promised) \cup {NoRoots}
              ELSE {Last(t).own} :
       open' = [open EXCEPT ![t][Len(open[t])].got = l]
  /\ UNCHANGED <<held, spoilt>>

Forget(t) ==
  /\ open[t] # <<>>
  /\ open' = [open EXCEPT ![t][Len(open[t])].got = Unread]
  /\ UNCHANGED <<held, spoilt>>

End(t) ==
  /\ open[t] # <<>>
  /\ open' = [open EXCEPT ![t] = SubSeq(@, 1, Len(@) - 1)]
  /\ \E l \in IF Last(t).obj \in spoilt THEN (held \ Promised) \cup {NoRoots}
              ELSE {Last(t).own} :
       held' = held \ {l}
  /\ spoilt' = IF IsOnlyCall(t) THEN spoilt \ {Last(t).obj} ELSE spoilt

Next ==
  \/ \E t \in Threads :
       \/ Read(t) \/ Forget(t) \/ End(t)
       \/ \E o \in Objects, l \in Lists \cup {NoRoots} : Begin(t, o, l)
  \/ \E o \in Objects : Spoil(o)

Spec == Init /\ [][Next]_vars
================================================================================
