---------------------------- MODULE ObjectGraph ----------------------------
(***************************************************************************)
(* What the collector promises to the program (gc.h): variables and the    *)
(* fields of objects hold references, allocation, assignment and field     *)
(* stores are all that changes them, and the function that                 *)
(* snow_gc_set_free_func registers is called on objects that nothing can   *)
(* reach.  Collection itself is invisible.  Only the edges between         *)
(* reachable objects are part of the state.                                *)
(***************************************************************************)
EXTENDS Naturals

CONSTANTS Obj, Field, Name, None

VARIABLES
  made,       \* the objects allocated so far
  binding,    \* the object each variable refers to
  edges,      \* <<o, f, p>>: field f of the reachable object o refers to p
  finalized,  \* the objects whose free function was called
  collecting  \* whether the program is stopped for a collection

graphVars == <<made, binding, edges, finalized, collecting>>

\* What can be reached from the variables b along the edges E.
ReachableIn(b, E) ==
  {o \in Obj : \A S \in SUBSET Obj :
     /\ \A v \in Name : b[v] # None => b[v] \in S
     /\ \A e \in E : e[1] \in S => e[3] \in S
     => o \in S}

Reachable == ReachableIn(binding, edges)

Init == /\ made = {}
        /\ binding = [v \in Name |-> None]
        /\ edges = {}
        /\ finalized = {}
        /\ collecting = FALSE

\* The program makes the variables b, and drops the edges that are garbage.
Change(b, E) == /\ ~ collecting
                /\ binding' = b
                /\ edges' = {e \in E : e[1] \in ReachableIn(b, E)}
                /\ UNCHANGED <<finalized, collecting>>

New(v, o) == /\ o \notin made
             /\ made' = made \cup {o}
             /\ Change([binding EXCEPT ![v] = o], edges)

Assign(v, o) == /\ Change([binding EXCEPT ![v] = o], edges)
                /\ UNCHANGED made

Store(o, f, p) == /\ Change(binding, {e \in edges : e[1] # o \/ e[2] # f}
                                     \cup {<<o, f, q>> : q \in {p} \ {None}})
                  /\ UNCHANGED made

Collect == /\ collecting' = ~ collecting
           /\ UNCHANGED <<made, binding, edges, finalized>>

Finalize(o) == /\ collecting
               /\ o \in made \ (Reachable \cup finalized)
               /\ finalized' = finalized \cup {o}
               /\ UNCHANGED <<made, binding, edges, collecting>>

Next ==
  \/ \E v \in Name, o \in Obj : New(v, o)
  \/ \E v \in Name, o \in Reachable \cup {None} : Assign(v, o)
  \/ \E o \in Reachable, f \in Field, p \in Reachable \cup {None} : Store(o, f, p)
  \/ Collect
  \/ \E o \in Obj : Finalize(o)

Spec == Init /\ [][Next]_graphVars
=============================================================================
