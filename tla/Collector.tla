----------------------------- MODULE Collector -----------------------------
(***************************************************************************)
(* The garbage collector (gc.c, gcheap.h).  Threads allocate in nurseries; *)
(* a minor collection marks everything, moves the objects of the nurseries *)
(* that only definite roots refer to into the adult heaps, and keeps a     *)
(* nursery whole, as an "unkillable" heap, when a word of some stack seems *)
(* to point into it.  A major collection is a minor one followed by the    *)
(* same treatment of the adult and the unkillable heaps.                   *)
(*                                                                         *)
(* snow_gc runs while every task is hibernated (module TaskDispatch), so   *)
(* its phases interleave with nothing; each is an action, and each object  *)
(* of a sweep is one.  Addresses are <<heap, object index>>.  A heap given *)
(* back to malloc is not handed out again.                                 *)
(***************************************************************************)
EXTENDS Naturals, FiniteSets

CONSTANTS
  Thread,     \* the threads that allocate
  MaxChunks,  \* bound: the chunks gc_alloc_chunk ever returns
  Size,       \* bound: objects in one chunk
  MaxObjects, \* bound: the objects the program ever allocates
  Field,      \* the references in an object
  MaxSlots,   \* bound: words of stack
  MajorAfter, \* minor collections between major ones; 10 in gc.c
  Wrap,       \* num_indefinite is an unsigned integer modulo Wrap
  Garbage,    \* what malloc may leave in num_indefinite
  Regimes,    \* what programs do: subsets of Features
  None

(***************************************************************************)
(* "fields"    objects have references (else they are all GC_ATOMIC)       *)
(* "free"      snow_gc_set_free_func is used                               *)
(* "major"     the program lives long enough for major collections: if     *)
(*             not, its minor collections are not counted                  *)
(* "threads"   more than one thread allocates                              *)
(* "stale"     stack frames cover words that earlier frames left behind    *)
(* "big"       allocations above GC_BIG_ALLOCATION_SIZE_LIMIT              *)
(* "exit"      threads exit                                                *)
(***************************************************************************)
Features == {"fields", "free", "major", "stale", "big", "exit",
             "threads"}

Chunk == 1..MaxChunks   \* in the order in which malloc returns them
Obj == 1..MaxObjects    \* in the order in which they are allocated
Addr == Chunk \X (1..Size)
Pointer == Addr \cup {None}
Slot == 1..MaxSlots

ASSUME CollectorAssumption ==
  /\ MaxChunks \in Nat /\ MaxObjects \in Nat /\ Size \in Nat \ {0}
  /\ MaxSlots \in Nat
  /\ MajorAfter \in Nat
  /\ Wrap \in Nat \ {0}
  /\ Garbage \subseteq 0..(Wrap - 1) /\ Garbage # {}
  /\ Regimes \subseteq SUBSET Features
  /\ None \notin Addr /\ None \notin Chunk /\ None \notin Obj

VARIABLES
  regime,      \* what this program does
  phase,       \* where snow_gc is; "mutator": no collection
  collection,  \* "minor", or the "first" or "second" half of gc_major
  minors,      \* num_minor_collections_since_last_major_collection
  nursery,     \* the chunk of each thread's nursery
  nodes,       \* the threads that have a SnGCNursery
  space,       \* the list each chunk is on
  count,       \* objects allocated in each chunk
  num_indefinite, \* the counter of each heap
  kind,        \* the alloc_type of each object
  who,         \* ghost: the allocation that an object is (a copy of)
  field,       \* the references in each object
  forward,     \* the new address left in a transplanted object
  free_func,   \* the objects that have a free function
  marked, indefinite, transplanted, \* the objects that have each flag
  sweep,       \* objects the current sweep has yet to visit
  stack,       \* the words of the stacks
  sp,          \* the words above sp are not scanned
  written,     \* ghost: the words that hold a variable of the program
  store,       \* the definite root, *_snow_store_ptr()
  made,        \* ghost: the allocations so far
  registered,  \* ghost: those that got a free function
  calls        \* ghost: how often each one's free function was called

gcVars    == <<phase, collection, minors, sweep>>
chunkVars == <<nursery, nodes, space, count, num_indefinite>>
objVars   == <<kind, who, field, forward, free_func>>
ghostVars == <<made, registered, calls>>
flagVars  == <<marked, indefinite, transplanted>>
rootVars  == <<stack, sp, written, store>>
vars == <<regime, gcVars, chunkVars, objVars, flagVars, rootVars, ghostVars>>

NoFields == [f \in Field |-> None]
Phases == {"mutator", "mark", "sweep_nurseries", "sweep_adults",
           "sweep_unkillables", "update", "reset", "scrap", "invalidate",
           "clear", "trapped"}
Lists == {"unused", "nursery", "adult", "new_adult", "unkillable",
          "new_unkillable", "big", "graveyard", "released"}

Init ==
  /\ regime \in Regimes
  /\ phase = "mutator" /\ collection = "minor" /\ minors = 0 /\ sweep = {}
  /\ nursery = [t \in Thread |-> None] /\ nodes = {}
  /\ space = [c \in Chunk |-> "unused"]
  /\ count = [c \in Chunk |-> 0] /\ num_indefinite = [c \in Chunk |-> 0]
  /\ kind = [a \in Addr |-> "none"] /\ who = [a \in Addr |-> None]
  /\ field = [a \in Addr |-> NoFields]
  /\ forward = [a \in Addr |-> None] /\ free_func = {}
  /\ marked = {} /\ indefinite = {} /\ transplanted = {}
  /\ stack = [i \in Slot |-> None] /\ sp = 0 /\ written = {} /\ store = None
  /\ made = {} /\ registered = {} /\ calls = [o \in Obj |-> 0]

In(list) == {c \in Chunk : space[c] = list}
ObjectsIn(C) == {a \in Addr : a[1] \in C /\ a[2] <= count[a[1]]}

\* gc_find_heap finds the heap of p, and p is an object there.
Found(p) == p # None /\ space[p[1]] \notin {"unused", "released"}
Valid(p) == Found(p) /\ kind[p] # "invalid"

\* The least set of objects that holds the start and what edges lead to.
Closure(start, edges) ==
  LET U == ObjectsIn(Chunk)
      closed == {S \in {start \cup T : T \in SUBSET (U \ start)} :
                   \A b \in S : edges[b] \subseteq S}
  IN {a \in U : \A S \in closed : a \in S}

\* The address of an object, through the old one if it was transplanted.
Moved(p) == IF p \in transplanted THEN forward[p] ELSE p
Refers(a) == IF kind[a] = "object" THEN {field[a][f] : f \in Field} ELSE {}
ValidEdges == [a \in Addr |-> {p \in Refers(a) : Valid(p)}]

StackRoots == {stack[i] : i \in 1..sp} \ {None}
-----------------------------------------------------------------------------
(***************************************************************************)
(* The program.                                                            *)
(***************************************************************************)
\* gc_alloc_chunk returns the chunk c.
Fresh(c) == space[c] = "unused" /\ \A d \in Chunk : space[d] = "unused" => c <= d

\* gc_heap_init leaves num_indefinite as malloc returned it.
PlaceIn(a, c, list, indefinites) ==
  /\ space' = [space EXCEPT ![c] = list]
  /\ count' = [count EXCEPT ![c] = @ + 1]
  /\ num_indefinite' = [num_indefinite EXCEPT ![c] = indefinites]
  /\ a = <<c, count[c] + 1>>

\* Among objects, a GC_ATOMIC one is one whose fields remain NULL.
Kind == IF "fields" \in regime THEN "object" ELSE "atomic"

InitAllocation(a, o) ==
  /\ kind' = [kind EXCEPT ![a] = Kind]
  /\ who' = [who EXCEPT ![a] = o]
  /\ made' = made \cup {o}
  /\ UNCHANGED <<field, forward, free_func, registered, calls>>

NextObj == {o \in Obj \ made : \A p \in Obj \ made : o <= p}

\* The program keeps the new object in a word of its stack.
Keep(i, p) == /\ stack' = [stack EXCEPT ![i] = p]
              /\ written' = written \cup {i}
              /\ UNCHANGED <<sp, store>>

\* gc_alloc in the thread's nursery; a full one needs snow_gc first.
Alloc(t, c, i) ==
  /\ phase = "mutator"
  /\ "threads" \in regime \/ nodes \subseteq {t}
  /\ IF nursery[t] = None THEN Fresh(c) ELSE c = nursery[t]
  /\ count[c] < Size
  /\ nodes' = nodes \cup {t}
  /\ nursery' = [nursery EXCEPT ![t] = c]
  /\ \E a \in Addr, o \in NextObj, g \in Garbage :
       /\ PlaceIn(a, c, "nursery",
                  IF t \in nodes THEN num_indefinite[c] ELSE g)
       /\ InitAllocation(a, o)
       /\ Keep(i, a)
  /\ UNCHANGED <<regime, gcVars, flagVars>>

\* gc_alloc of a large object, in a chunk of its own.
AllocBig(c, i) ==
  /\ phase = "mutator"
  /\ "big" \in regime
  /\ Fresh(c)
  /\ \E a \in Addr, o \in NextObj :
       /\ PlaceIn(a, c, "big", 0)
       /\ InitAllocation(a, o)
       /\ Keep(i, a)
  /\ UNCHANGED <<regime, gcVars, nodes, nursery, flagVars>>

SetFreeFunc(i) ==
  /\ phase = "mutator"
  /\ "free" \in regime
  /\ i \in written /\ stack[i] # None
  /\ free_func' = free_func \cup {stack[i]}
  /\ registered' = registered \cup {who[stack[i]]}
  /\ UNCHANGED <<regime, gcVars, chunkVars, kind, who, field, forward, made,
                 calls, flagVars, rootVars>>

\* What the program can name: its variables and the fields of their objects.
Values == LET own == {stack[i] : i \in written} \cup {store, None}
          IN own \cup UNION {Refers(p) : p \in own \ {None}}

Load(i, p) ==
  /\ phase = "mutator"
  /\ p \in Values
  /\ Keep(i, p)
  /\ UNCHANGED <<regime, gcVars, chunkVars, objVars, flagVars, ghostVars>>

StoreField(i, f, p) ==
  /\ phase = "mutator"
  /\ i \in written /\ stack[i] # None /\ kind[stack[i]] = "object"
  /\ p \in Values
  /\ field' = [field EXCEPT ![stack[i]][f] = p]
  /\ UNCHANGED <<regime, gcVars, chunkVars, kind, who, forward, free_func,
                 flagVars, rootVars, ghostVars>>

SetStore(p) ==
  /\ phase = "mutator"
  /\ p \in Values
  /\ store' = p
  /\ UNCHANGED <<regime, gcVars, chunkVars, objVars, flagVars, stack, sp,
                 written, ghostVars>>

\* A call; its frame may cover a word it does not initialize.
Push ==
  /\ phase = "mutator"
  /\ sp < MaxSlots
  /\ sp' = sp + 1
  /\ \/ stack' = [stack EXCEPT ![sp + 1] = None] /\ written' = written \cup {sp + 1}
     \/ "stale" \in regime /\ UNCHANGED <<stack, written>>
  /\ UNCHANGED <<regime, gcVars, chunkVars, objVars, flagVars, store,
                 ghostVars>>

Pop ==
  /\ phase = "mutator"
  /\ sp > 0
  /\ sp' = sp - 1
  /\ written' = written \ {sp}
  /\ UNCHANGED <<regime, gcVars, chunkVars, objVars, flagVars, stack, store,
                 ghostVars>>

\* gc_finalize_nursery: the nursery of a thread that exits becomes adult.
Exit(t) ==
  /\ phase = "mutator"
  /\ "exit" \in regime
  /\ t \in nodes
  /\ nodes' = nodes \ {t}
  /\ nursery' = [nursery EXCEPT ![t] = None]
  /\ space' = [c \in Chunk |-> IF c = nursery[t] THEN "adult" ELSE space[c]]
  /\ UNCHANGED <<regime, gcVars, count, num_indefinite, objVars, flagVars,
                 rootVars, ghostVars>>
-----------------------------------------------------------------------------
(***************************************************************************)
(* The collection.                                                         *)
(***************************************************************************)
Collect ==
  /\ phase = "mutator"
  /\ phase' = "mark"
  /\ collection' = IF minors > MajorAfter THEN "first" ELSE "minor"
  /\ UNCHANGED <<regime, minors, sweep, chunkVars, objVars, flagVars, rootVars,
                 ghostVars>>

\* gc_mark_root on every root: what a stack refers to is indefinite too.
\* A stale pointer, to an object that is invalid, marks nothing.
MarkFrom(definite) ==
  /\ phase = "mark"
  /\ LET pinned == {p \in StackRoots : Valid(p)}
         roots  == pinned \cup {p \in definite : Valid(p)}
     IN /\ indefinite' = pinned
        /\ marked' = Closure(roots, ValidEdges)
        /\ num_indefinite' = [c \in Chunk |->
             (num_indefinite[c] + Cardinality({p \in pinned : p[1] = c})) % Wrap]
  /\ IF collection = "second"
     THEN phase' = "sweep_adults" /\ sweep' = ObjectsIn(In("adult"))
     ELSE phase' = "sweep_nurseries" /\ sweep' = ObjectsIn(In("nursery"))
  /\ UNCHANGED <<regime, collection, minors, nursery, nodes, space, count,
                 objVars, transplanted, rootVars, ghostVars>>

\* Mutant: the store is not a root.
MarkForgetsStore == MarkFrom({})
Mark == MarkFrom({store})

Sweeping == {"sweep_nurseries", "sweep_adults", "sweep_unkillables"}

\* A sweep visits the objects of a heap in the order of their addresses.
Visit(a) == /\ phase \in Sweeping
            /\ a \in sweep
            /\ \A b \in sweep : b[1] = a[1] => a[2] <= b[2]
            /\ sweep' = sweep \ {a}
            /\ UNCHANGED <<regime, phase, collection, minors, rootVars>>

\* Marked and referred to by a stack: it cannot move.
Leave(a) ==
  /\ Visit(a)
  /\ a \in marked \cap indefinite
  /\ UNCHANGED <<chunkVars, objVars, flagVars, ghostVars>>

\* The list a sweep moves objects to; its first heap with room takes them.
TransplantTo == IF phase = "sweep_adults" THEN "new_adult" ELSE "adult"
WithRoom == {c \in In(TransplantTo) : count[c] < Size}

\* gc_transplant: the copy b of a gets these fields and free functions.
Copy(a, c, fields, funcs) ==
  /\ Visit(a)
  /\ a \in marked \ indefinite
  /\ IF WithRoom # {} THEN c \in WithRoom ELSE Fresh(c)
  /\ \E b \in Addr :
       /\ PlaceIn(b, c, TransplantTo, num_indefinite[c])
       /\ kind' = [kind EXCEPT ![b] = kind[a]]
       /\ who' = [who EXCEPT ![b] = who[a]]
       /\ field' = [field EXCEPT ![b] = fields, ![a] = NoFields]
       /\ forward' = [forward EXCEPT ![a] = b]
       /\ free_func' = free_func \cup {b : x \in funcs}
  /\ transplanted' = transplanted \cup {a}
  /\ UNCHANGED <<nursery, nodes, marked, indefinite, ghostVars>>

\* Mutant: the copy gets no free function.
TransplantDropsFreeFunc(a, c) == Copy(a, c, field[a], {})
\* Mutant: memset before memcpy.
TransplantErasesFirst(a, c) == Copy(a, c, NoFields, free_func \cap {a})
Transplant(a, c) == Copy(a, c, field[a], free_func \cap {a})

\* gc_finalize_object.
Finalize(a) ==
  /\ Visit(a)
  /\ a \notin marked
  /\ calls' = [o \in Obj |-> IF o = who[a] /\ a \in free_func /\ calls[o] < 2
                             THEN calls[o] + 1 ELSE calls[o]]
  /\ free_func' = free_func \ {a}
  /\ kind' = [kind EXCEPT ![a] = "invalid"]
  /\ field' = [field EXCEPT ![a] = NoFields]
  /\ UNCHANGED <<chunkVars, who, forward, flagVars, made, registered>>

SweptNurseries ==
  /\ phase = "sweep_nurseries" /\ sweep = {}
  /\ phase' = "update"
  /\ UNCHANGED <<regime, collection, minors, sweep, chunkVars, objVars,
                 flagVars, rootVars, ghostVars>>

\* The surviving adults become GC.adults, then the unkillables are swept.
SweptAdults ==
  /\ phase = "sweep_adults" /\ sweep = {}
  /\ phase' = "sweep_unkillables"
  /\ sweep' = ObjectsIn(In("unkillable"))
  /\ space' = [c \in Chunk |->
       CASE space[c] = "new_adult" -> "adult"
         [] space[c] = "adult" /\ num_indefinite[c] > 0 -> "new_unkillable"
         [] space[c] = "adult" /\ num_indefinite[c] = 0 -> "graveyard"
         [] OTHER -> space[c]]
  /\ UNCHANGED <<regime, collection, minors, nursery, nodes, count,
                 num_indefinite, objVars, flagVars, rootVars, ghostVars>>

SweptUnkillables ==
  /\ phase = "sweep_unkillables" /\ sweep = {}
  /\ phase' = "update"
  /\ space' = [c \in Chunk |->
       CASE space[c] = "new_unkillable" -> "unkillable"
         [] space[c] = "unkillable" /\ num_indefinite[c] = 0 -> "graveyard"
         [] OTHER -> space[c]]
  /\ UNCHANGED <<regime, collection, minors, sweep, nursery, nodes, count,
                 num_indefinite, objVars, flagVars, rootVars, ghostVars>>

\* What gc_update_root visits, starting from every root.
Updated == Closure({Moved(p) : p \in {q \in StackRoots \cup {store} : Found(q)}},
                   [a \in Addr |-> {Moved(p) : p \in {q \in Refers(a) : Found(q)}}])

\* The ASSERTs of gc_update_root.
UpdateTraps ==
  \/ \E p \in StackRoots : p \in transplanted
  \/ \E p \in {store} \cup UNION {Refers(a) : a \in Updated} :
       Found(p) /\ kind[p] = "invalid"

UpdateFieldsOf(S) ==
  /\ phase = "update"
  /\ IF UpdateTraps
     THEN phase' = "trapped" /\ UNCHANGED <<store, field>>
     ELSE /\ phase' = IF collection = "second" THEN "scrap" ELSE "reset"
          /\ store' = Moved(store)
          /\ field' = [a \in Addr |-> IF a \in S /\ kind[a] = "object"
                                      THEN [f \in Field |-> Moved(field[a][f])]
                                      ELSE field[a]]
  /\ UNCHANGED <<regime, collection, minors, sweep, chunkVars, kind, who,
                 forward, free_func, flagVars, stack, sp, written, ghostVars>>

\* Mutant: the references inside objects are not updated.
UpdateRootsOnly == UpdateFieldsOf({})
\* Mutant: objects that did not move are skipped.
UpdateSkipsIndefinite == UpdateFieldsOf(Updated \ indefinite)
UpdateRoots == UpdateFieldsOf(Updated)

\* gc_heap_finalize: nothing is left of the objects of the chunks C.
Erase(C) ==
  /\ count' = [c \in Chunk |-> IF c \in C THEN 0 ELSE count[c]]
  /\ kind' = [a \in Addr |-> IF a[1] \in C THEN "none" ELSE kind[a]]
  /\ who' = [a \in Addr |-> IF a[1] \in C THEN None ELSE who[a]]
  /\ field' = [a \in Addr |-> IF a[1] \in C THEN NoFields ELSE field[a]]
  /\ forward' = [a \in Addr |-> IF a[1] \in C THEN None ELSE forward[a]]
  /\ free_func' = {a \in free_func : a[1] \notin C}

\* gc_reset_or_save_nurseries.
Save(C) ==
  /\ phase = "reset"
  /\ phase' = "invalidate"
  /\ space' = [c \in Chunk |-> IF space[c] # "nursery" THEN space[c]
                                ELSE IF c \in C THEN "unkillable" ELSE "released"]
  /\ Erase(In("nursery") \ C)
  /\ nursery' = [t \in Thread |-> None]
  /\ UNCHANGED <<regime, collection, minors, sweep, nodes, num_indefinite,
                 flagVars, rootVars, ghostVars>>

\* Mutant: nurseries are reset whatever refers to them.
ResetEveryNursery == Save({})
ResetOrSave == Save({c \in Chunk : num_indefinite[c] > 0})

ScrapGraveyard ==
  /\ phase = "scrap"
  /\ phase' = "invalidate"
  /\ space' = [c \in Chunk |-> IF space[c] = "graveyard" THEN "released" ELSE space[c]]
  /\ Erase(In("graveyard"))
  /\ UNCHANGED <<regime, collection, minors, sweep, nursery, nodes,
                 num_indefinite, flagVars, rootVars, ghostVars>>

\* gc_invalidate_transplanted, on every unkillable heap.
Invalidate ==
  /\ phase = "invalidate"
  /\ phase' = "clear"
  /\ kind' = [a \in Addr |-> IF a \in transplanted /\ space[a[1]] = "unkillable"
                             THEN "invalid" ELSE kind[a]]
  /\ UNCHANGED <<regime, collection, minors, sweep, chunkVars, who, field,
                 forward, free_func, flagVars, rootVars, ghostVars>>

\* gc_clear_flags, and the end of gc_minor or gc_major.
EndWith(indefinites, restart) ==
  /\ phase = "clear"
  /\ marked' = {} /\ indefinite' = {} /\ transplanted' = {}
  /\ num_indefinite' = indefinites
  /\ phase' = IF collection = "first" THEN "mark" ELSE "mutator"
  /\ collection' = IF collection = "first" THEN "second" ELSE "minor"
  /\ minors' = CASE collection = "minor" /\ "major" \in regime -> minors + 1
                 [] collection = "second" -> restart
                 [] OTHER -> minors
  /\ UNCHANGED <<regime, sweep, nursery, nodes, space, count, objVars, rootVars,
                 ghostVars>>

\* Mutant: the counters of the heaps are not reset.
ClearFlagsOnly == EndWith(num_indefinite, 0)
\* Mutant: the major collection counts as a minor one.
ClearFlagsThenCount == EndWith([c \in Chunk |-> 0], minors + 1)
ClearFlags == EndWith([c \in Chunk |-> 0], 0)
-----------------------------------------------------------------------------
Program ==
  \/ \E t \in Thread, c \in Chunk, i \in 1..sp : Alloc(t, c, i)
  \/ \E c \in Chunk, i \in 1..sp : AllocBig(c, i)
  \/ \E i \in 1..sp : SetFreeFunc(i)
  \/ \E i \in 1..sp, p \in Pointer : Load(i, p)
  \/ \E i \in 1..sp, f \in Field, p \in Pointer : StoreField(i, f, p)
  \/ \E p \in Pointer : SetStore(p)
  \/ Push
  \/ Pop
  \/ \E t \in Thread : Exit(t)

Sweep ==
  \/ \E a \in Addr : Leave(a)
  \/ \E a \in Addr, c \in Chunk : Transplant(a, c)
  \/ \E a \in Addr : Finalize(a)
  \/ SweptNurseries
  \/ SweptAdults
  \/ SweptUnkillables

Collection ==
  \/ Collect
  \/ Mark
  \/ Sweep
  \/ UpdateRoots
  \/ ResetOrSave
  \/ ScrapGraveyard
  \/ Invalidate
  \/ ClearFlags

Next == Program \/ Collection

Spec == Init /\ [][Next]_vars
-----------------------------------------------------------------------------
HeapTypes ==
  /\ regime \in Regimes
  /\ phase \in Phases
  /\ collection \in {"minor", "first", "second"}
  /\ minors \in 0..(MajorAfter + 1)
  /\ nursery \in [Thread -> Chunk \cup {None}]
  /\ nodes \subseteq Thread
  /\ space \in [Chunk -> Lists]
  /\ count \in [Chunk -> 0..Size]
  /\ num_indefinite \in [Chunk -> 0..(Wrap - 1)]
  /\ kind \in [Addr -> {"none", "object", "atomic", "invalid"}]
  /\ who \in [Addr -> Obj \cup {None}]
  /\ field \in [Addr -> [Field -> Pointer]]
  /\ forward \in [Addr -> Pointer]
  /\ free_func \subseteq Addr
  /\ marked \subseteq Addr /\ indefinite \subseteq Addr
  /\ transplanted \subseteq Addr /\ sweep \subseteq Addr
  /\ stack \in [Slot -> Pointer]
  /\ made \subseteq Obj
  /\ sp \in 0..MaxSlots /\ written \subseteq 1..sp
  /\ store \in Pointer
  /\ calls \in [Obj -> 0..2]

\* What gets a free function is an allocation: no variable dangles.
TypeOK == HeapTypes /\ registered \subseteq Obj

\* The objects that the variables of the program reach, wherever they are now.
Variables == ({stack[i] : i \in written} \cup {store}) \ {None}
Live == Closure({Moved(p) : p \in Variables},
                [a \in Addr |-> {Moved(p) : p \in Refers(a) \ {None}}])

(***************************************************************************)
(* At any point of a collection, whatever the program can reach through    *)
(* its variables is an object that was neither finalized nor given back to *)
(* malloc, and there is one copy of it: moving (gc_transplant), updating   *)
(* (gc_update_root), saving (gc_reset_or_save_nurseries) and scrapping     *)
(* heaps agree on what is alive.                                           *)
(***************************************************************************)
ReachableIsIntact ==
  \A a \in Live : /\ Valid(a)
                  /\ \A b \in Live : who[a] = who[b] => a = b

(***************************************************************************)
(* What a word of a stack seems to refer to stays where it is: it is never *)
(* transplanted (the ASSERTs of gc_update_root), and its heap outlives the *)
(* collection, since a stack word cannot be updated.                       *)
(***************************************************************************)
PinnedStaysPut ==
  \A p \in StackRoots : /\ p \notin transplanted
                        /\ p \in indefinite => Valid(p)

(***************************************************************************)
(* A collection never meets a definite reference to an invalid object      *)
(* ("stale pointer in non-stack memory?", gc.c:807).                       *)
(***************************************************************************)
NoStaleRoot == phase # "trapped"

(***************************************************************************)
(* The free function of an allocation is called at most once, and only     *)
(* when the program cannot reach it: "when the memory pointed to by that   *)
(* pointer is garbage collected" (gc.h:54-55).                             *)
(***************************************************************************)
FreeFuncRunsOnce ==
  \A o \in Obj : /\ calls[o] <= 1
                 /\ calls[o] = 1 => \A a \in Live : who[a] # o

(***************************************************************************)
(* It is called at all: an allocation that had a free function and whose   *)
(* memory is gone from every heap was finalized, however often it moved.   *)
(***************************************************************************)
FreeFuncIsNotLost ==
  phase = "mutator" =>
    \A o \in registered : \/ calls[o] > 0
                          \/ \E a \in free_func : who[a] = o /\ Valid(a)

(***************************************************************************)
(* A major collection leaves, outside the big allocations that it does not *)
(* sweep, only what the roots reach, and no unkillable heap without an     *)
(* object that a stack refers to.                                          *)
(***************************************************************************)
MajorReclaims ==
  phase = "clear" /\ collection = "second" =>
    /\ \A a \in ObjectsIn(In("adult") \cup In("unkillable")) :
         kind[a] # "invalid" =>
           a \in Closure({p \in StackRoots \cup {store} : Valid(p)}, ValidEdges)
    /\ \A c \in In("unkillable") : \E p \in StackRoots : p[1] = c /\ Valid(p)

(***************************************************************************)
(* To the program the collector is invisible (ObjectGraph): collections    *)
(* only stutter, or finalize objects that nothing reaches.                 *)
(***************************************************************************)
Who(p) == IF p = None THEN None ELSE who[p]
Binding == [v \in 0..MaxSlots |->
             CASE v = 0 -> Who(store)
               [] v \in written -> Who(stack[v])
               [] OTHER -> None]
Edges == {<<who[e[1]], e[2], who[Moved(field[e[1]][e[2]])]>> :
            e \in {x \in Live \X Field :
                     kind[x[1]] = "object" /\ field[x[1]][x[2]] # None}}
Graph == INSTANCE ObjectGraph WITH
  Name      <- 0..MaxSlots,   \* 0 is the store
  made      <- made,
  binding   <- Binding,
  edges     <- Edges,
  finalized <- {o \in Obj : calls[o] > 0},
  collecting <- phase # "mutator"
ImplementsObjectGraph == Graph!Spec
=============================================================================
