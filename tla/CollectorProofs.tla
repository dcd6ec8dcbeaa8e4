--------------------------- MODULE CollectorProofs ---------------------------
(***************************************************************************)
(* Theorems about Collector, for any number of threads, chunks, objects,   *)
(* references per object and words of stack.                               *)
(*                                                                         *)
(* The inductive invariant has three layers, each relative to those before *)
(* it: HeapInv (types, which lists and flags there are in each phase, and  *)
(* where pointers may point), CollectionInv (what marking and sweeping     *)
(* have achieved so far), and GraphInv (what the program reaches).  On     *)
(* them rest PreciseInv (what marking finds), LostInv and OnceInv (free    *)
(* functions), ReclaimInv (what a major collection leaves), and the proof  *)
(* that the collector implements ObjectGraph.                              *)
(***************************************************************************)
EXTENDS Collector, FiniteSetTheorems, TLAPS

\* The counters of heaps do not wrap around to zero (gcheap.h:22 leaves them
\* as malloc returned them).
CountersFit == \A g \in Garbage \cup {0} : g + MaxSlots < Wrap

\* Words that earlier frames left behind refer to nothing that has references:
\* run heap_stale shows why.
StaleWordsAreAtomic == \A r \in Regimes : ~({"fields", "stale"} \subseteq r)

-----------------------------------------------------------------------------
(***************************************************************************)
(* The heap                                                                *)
(***************************************************************************)
InUse(a) == a \in Addr /\ a[2] <= count[a[1]]
Intact == {a \in Addr : InUse(a) /\ kind[a] \in {"object", "atomic"}}

\* The addresses that were handed out: of objects, or in chunks given back.
Allocated == {None} \cup {p \in Addr : InUse(p) \/ space[p[1]] = "released"}

ChunksInv ==
  /\ \A c \in Chunk : space[c] \in {"unused", "released"} => count[c] = 0
  /\ \A c \in Chunk : space[c] = "unused" => num_indefinite[c] = 0
  /\ \A a \in Addr : InUse(a) => kind[a] # "none" /\ who[a] \in made
  /\ \A a \in Addr : ~InUse(a) => kind[a] = "none" /\ field[a] = NoFields
  /\ \A a \in sweep : InUse(a)

NurseryInv ==
  /\ \A t \in Thread : nursery[t] # None => space[nursery[t]] = "nursery"
  /\ \A t, u \in Thread : nursery[t] # None /\ nursery[t] = nursery[u] => t = u

PointersInv ==
  /\ \A i \in Slot : stack[i] \in Allocated
  /\ store \in Allocated
  /\ \A a \in Addr, f \in Field : field[a][f] \in Allocated
  /\ \A a \in Addr : forward[a] \in Allocated
  /\ transplanted \subseteq Allocated

\* Which collection is in which phase, and which lists have heaps then.
PhaseInv ==
  /\ phase \notin Sweeping => sweep = {}
  /\ phase = "mutator" => collection = "minor"
  /\ phase \in {"sweep_nurseries", "reset"} => collection # "second"
  /\ phase \in {"sweep_adults", "sweep_unkillables", "scrap"} => collection = "second"
  /\ collection = "minor" /\ phase # "mutator" => minors <= MajorAfter
  /\ "major" \notin regime => minors = 0 /\ collection = "minor"
  /\ In("new_adult") # {} => phase = "sweep_adults"
  /\ In("new_unkillable") # {} => phase = "sweep_unkillables"
  /\ In("graveyard") # {} =>
       collection = "second" /\ phase \in {"sweep_unkillables", "update", "scrap", "trapped"}
  /\ In("nursery") # {} => collection # "second" /\ phase \notin {"invalidate", "clear"}

HeapInv == HeapTypes /\ ChunksInv /\ NurseryInv /\ PointersInv /\ PhaseInv

-----------------------------------------------------------------------------
(***************************************************************************)
(* The collection                                                          *)
(***************************************************************************)
BeforeMark == phase \in {"mutator", "mark"}

\* The chunks whose objects have been or are being swept, and the objects there
\* that the sweep has yet to visit.
Swept ==
  {c \in Chunk :
     IF collection = "second"
     THEN \/ space[c] \in {"new_unkillable", "graveyard"}
          \/ phase = "sweep_adults" /\ space[c] = "adult"
          \/ /\ phase \in {"sweep_unkillables", "update", "scrap", "trapped"}
             /\ space[c] = "unkillable"
     ELSE space[c] = "nursery"}

CountersInv ==
  /\ BeforeMark => \A c \in Chunk :
       num_indefinite[c] \in IF collection = "second" THEN {0} ELSE Garbage \cup {0}
  /\ \A a \in indefinite : num_indefinite[a[1]] > 0
  /\ \A c \in Chunk : space[c] = "graveyard" => num_indefinite[c] = 0

FlagsInv ==
  /\ BeforeMark => marked = {} /\ indefinite = {} /\ transplanted = {}
  /\ indefinite \subseteq marked
  /\ transplanted \subseteq marked \ indefinite
  /\ \A p \in StackRoots : p \in marked => p \in indefinite
  /\ marked \ transplanted \subseteq Intact

\* Until heaps are given back, the old copies are where the sweep found them, and
\* lead to the new ones. After that they are no objects.
ForwardInv ==
  /\ phase \in Sweeping \cup {"update", "reset", "scrap", "trapped"} =>
       \A a \in transplanted :
         /\ a \in Intact /\ a[1] \in Swept
         /\ forward[a] \in Intact \ marked
         /\ space[forward[a][1]] = IF phase = "sweep_adults" THEN "new_adult" ELSE "adult"
         /\ who[forward[a]] = who[a]
  /\ phase = "invalidate" =>
       \A a \in transplanted : a \in Intact => space[a[1]] = "unkillable"
  /\ phase = "clear" => \A a \in transplanted : a \notin Intact

SweepInv ==
  /\ \A a \in sweep :
       /\ a \notin transplanted
       /\ phase = "sweep_nurseries" => space[a[1]] = "nursery"
       /\ phase = "sweep_adults" => space[a[1]] = "adult"
       /\ phase = "sweep_unkillables" => space[a[1]] = "unkillable"
  /\ phase \in Sweeping \cup {"update", "reset", "scrap", "trapped"} =>
       \A a \in Intact \ (sweep \cup transplanted) :
         a[1] \in Swept => a \in indefinite

\* But for those left behind, no two objects are the same allocation.
OneCopy ==
  \A a, b \in Intact \ transplanted : who[a] = who[b] => a = b

CollectionInv == CountersInv /\ FlagsInv /\ ForwardInv /\ SweepInv /\ OneCopy

-----------------------------------------------------------------------------
(***************************************************************************)
(* What the program reaches                                                *)
(***************************************************************************)
\* T holds all that the program reaches, and is intact.
Holds(T) ==
  /\ T \subseteq Intact \ transplanted
  /\ Variables \subseteq T
  /\ \A a \in T : Refers(a) \ {None} \subseteq T

\* Between marking and updating, references are to where objects were.
HoldsMarked(T) ==
  /\ Variables \subseteq T
  /\ \A a \in T : Refers(Moved(a)) \ {None} \subseteq T

Marked == phase \in Sweeping \cup {"update", "trapped"}

GraphInv ==
  /\ ~Marked => \E T \in SUBSET Addr : Holds(T)
  /\ Marked => \E T \in SUBSET marked : HoldsMarked(T)

\* Without stale words, marking finds no more than that; where there are stale
\* words, objects have no references.
PreciseInv ==
  /\ "fields" \notin regime => \A a \in Addr : kind[a] # "object"
  /\ "stale" \notin regime => written = 1 .. sp
  /\ phase # "trapped"
  /\ Marked => HoldsMarked(marked)

-----------------------------------------------------------------------------
(***************************************************************************)
(* Free functions                                                          *)
(***************************************************************************)
\* The object that a free function is waiting for has not been left behind.
LostInv ==
  /\ registered \subseteq Obj
  /\ \A o \in registered :
       calls[o] > 0 \/ \E a \in free_func \cap (Intact \ transplanted) : who[a] = o

\* Programs that set free functions end before the first major collection: run
\* heap_finalizer shows why.
FreeFuncsEndEarly == \A r \in Regimes : ~({"free", "major"} \subseteq r)

OnceInv ==
  /\ "free" \notin regime => free_func = {} /\ \A o \in Obj : calls[o] = 0
  /\ \A o \in Obj :
       /\ calls[o] <= 1
       /\ calls[o] = 1 => o \in made /\ \A a \in Intact \ transplanted : who[a] # o
  /\ \A a \in Addr : InUse(a) /\ space[a[1]] = "nursery" =>
       a \in Intact \/ (~BeforeMark /\ a \notin sweep)

-----------------------------------------------------------------------------
(***************************************************************************)
(* What a major collection leaves                                          *)
(***************************************************************************)
InMajor == collection = "second" /\ phase # "mark"

\* Between marking and updating: no smaller set than what was marked holds the
\* roots and what it refers to.
MarkedIsLeast ==
  \A S \in SUBSET marked :
    /\ (StackRoots \cup {store}) \cap marked \subseteq S
    /\ \A a \in S : Refers(Moved(a)) \cap marked \subseteq S
    => marked \subseteq S

\* The same of K, when references are to where objects are now.
IsLeast(K) ==
  \A S \in SUBSET K :
    /\ (StackRoots \cup {store}) \cap K \subseteq S
    /\ \A a \in S : Refers(a) \cap K \subseteq S
    => K \subseteq S

\* After updating, K is what was marked, where it is now.
Kept(K) ==
  /\ K \subseteq Intact \ transplanted
  /\ \A a \in Intact \ transplanted : space[a[1]] \in {"adult", "unkillable"} => a \in K
  /\ IsLeast(K)

KeptInv ==
  collection = "second" /\ phase \in {"scrap", "invalidate", "clear"} =>
    \E K \in SUBSET Addr : Kept(K)

\* The heaps that the adults survive in have nothing but what moved there.
Survivors ==
  InMajor /\ phase \in Sweeping \cup {"update"} =>
    \A a \in Intact :
      space[a[1]] = (IF phase = "sweep_adults" THEN "new_adult" ELSE "adult") =>
        \E m \in transplanted : forward[m] = a

\* Each heap that stays for what stacks refer to has such an object.
PinnedHeaps ==
  InMajor => \A c \in Chunk :
    /\ num_indefinite[c] > 0 => \E p \in StackRoots \cap indefinite : p[1] = c
    /\ space[c] = "new_unkillable" => num_indefinite[c] > 0
    /\ space[c] = "unkillable" /\ phase \notin Sweeping => num_indefinite[c] > 0

ReclaimInv == (Marked => MarkedIsLeast) /\ KeptInv /\ Survivors /\ PinnedHeaps

-----------------------------------------------------------------------------
(***************************************************************************)
(* The graph of the program (ObjectGraph)                                  *)
(***************************************************************************)
\* The objects that the program reaches, where they were when they were marked.
Old == {a \in Addr : \A S \in SUBSET Addr : HoldsMarked(S) => a \in S}

\* The edge of the graph that is the reference f of x.
HasEdge(x, f) == kind[Moved(x)] = "object" /\ field[Moved(x)][f] # None
Edge(x, f) == <<who[x], f, who[field[Moved(x)][f]]>>

-----------------------------------------------------------------------------
(***************************************************************************)
(* Addresses and the least closed set                                      *)
(***************************************************************************)
LEMMA AddrIsPair ==
  /\ \A a \in Addr : a[1] \in Chunk /\ a[2] \in 1 .. Size /\ a = <<a[1], a[2]>>
  /\ \A a, b \in Addr : a[1] = b[1] /\ a[2] = b[2] => a = b
  BY DEF Addr

LEMMA NoneIsNothing == None \notin Addr /\ None \notin Chunk /\ None \notin Obj
  BY CollectorAssumption

\* What Closure holds: it is part of every closed set of objects that has the
\* start, and is itself one.
LEMMA ClosureIsLeast ==
  ASSUME NEW start, NEW edges, NEW S,
         start \subseteq S, S \subseteq ObjectsIn(Chunk),
         \A b \in S : edges[b] \subseteq S
  PROVE  Closure(start, edges) \subseteq S
<1> DEFINE U == ObjectsIn(Chunk)
<1>1. S = start \cup (S \ start) /\ S \ start \in SUBSET (U \ start)
  OBVIOUS
<1>2. S \in {start \cup T : T \in SUBSET (U \ start)}
  BY <1>1
<1> QED
  BY <1>2 DEF Closure

LEMMA ClosureIsClosed ==
  ASSUME NEW start, NEW edges,
         start \subseteq ObjectsIn(Chunk),
         \A b \in ObjectsIn(Chunk) : edges[b] \subseteq ObjectsIn(Chunk)
  PROVE  /\ start \subseteq Closure(start, edges)
         /\ Closure(start, edges) \subseteq ObjectsIn(Chunk)
         /\ \A b \in Closure(start, edges) : edges[b] \subseteq Closure(start, edges)
  BY DEF Closure
\* Stacks have as many roots as words, at most; any number of them in a heap
\* is a number.
LEMMA RootsAreFew ==
  ASSUME HeapTypes, NEW S \in SUBSET StackRoots
  PROVE  /\ IsFiniteSet(S) /\ Cardinality(S) \in 0 .. MaxSlots
         /\ Cardinality(S) = 0 <=> S = {}
<1> DEFINE word == [i \in 1 .. sp |-> stack[i]]
           Words == {stack[i] : i \in 1 .. sp}
<1>1. sp \in Nat /\ sp <= MaxSlots /\ MaxSlots \in Nat
  BY CollectorAssumption DEF HeapTypes
<1>2. word \in Surjection(1 .. sp, Words)
  BY DEF Surjection
<1>3. IsFiniteSet(1 .. sp) /\ Cardinality(1 .. sp) = sp
  BY <1>1, FS_Interval
<1>4. IsFiniteSet(Words) /\ Cardinality(Words) <= sp
  BY <1>2, <1>3, FS_Surjection
<1>5. S \in SUBSET Words
  BY DEF StackRoots
<1>6. IsFiniteSet(S) /\ Cardinality(S) <= Cardinality(Words)
  BY <1>4, <1>5, FS_Subset
<1>7. Cardinality(S) \in Nat /\ Cardinality(Words) \in Nat
  BY <1>4, <1>6, FS_CardinalityType
<1>8. Cardinality(S) = 0 <=> S = {}
  BY <1>6, FS_EmptySet
<1> QED
  BY <1>1, <1>4, <1>6, <1>7, <1>8

LEMMA MovedType == ASSUME HeapTypes, NEW p \in Pointer PROVE Moved(p) \in Pointer
  BY DEF HeapTypes, Moved, Pointer

-----------------------------------------------------------------------------
(***************************************************************************)
(* HeapInv is inductive                                                    *)
(***************************************************************************)
LEMMA HeapTypesNext == HeapInv /\ [Next]_vars => HeapTypes'
<1> SUFFICES ASSUME HeapInv, [Next]_vars PROVE HeapTypes'
  OBVIOUS
<1> USE CollectorAssumption, AddrIsPair, NoneIsNothing
    DEF HeapInv, HeapTypes, Pointer, Lists, Phases, gcVars, chunkVars, objVars, flagVars, rootVars,
        ghostVars
<1>1. ASSUME NEW t \in Thread, NEW c \in Chunk, NEW i \in 1 .. sp, Alloc(t, c, i) PROVE HeapTypes'
  BY <1>1 DEF Alloc, PlaceIn, InitAllocation, Keep, Slot, Kind, NextObj, Fresh, ChunksInv
<1>2. ASSUME NEW c \in Chunk, NEW i \in 1 .. sp, AllocBig(c, i) PROVE HeapTypes'
  BY <1>2 DEF AllocBig, PlaceIn, InitAllocation, Keep, Slot, Kind, NextObj, Fresh, ChunksInv
<1>3. ASSUME NEW i \in 1 .. sp, SetFreeFunc(i) PROVE HeapTypes'
  <2>1. stack[i] \in Addr
    BY <1>3 DEF SetFreeFunc, Slot
  <2> QED
    BY <1>3, <2>1 DEF SetFreeFunc
<1>4. ASSUME NEW i \in 1 .. sp, NEW p \in Pointer, Load(i, p) PROVE HeapTypes'
  BY <1>4 DEF Load, Keep, Slot
<1>5. ASSUME NEW i \in 1 .. sp, NEW f \in Field, NEW p \in Pointer, StoreField(i, f, p)
      PROVE HeapTypes'
  BY <1>5 DEF StoreField, Slot
<1>6. ASSUME NEW p \in Pointer, SetStore(p) PROVE HeapTypes'
  BY <1>6 DEF SetStore
<1>7. CASE Push
  <2>1. sp' \in 0 .. MaxSlots /\ written' \subseteq 1 .. sp'
    BY <1>7 DEF Push
  <2>2. stack' \in [Slot -> Pointer]
    BY <1>7 DEF Push
  <2> QED
    BY <1>7, <2>1, <2>2 DEF Push
<1>8. CASE Pop
  <2>1. sp \in 1 .. MaxSlots /\ sp' = sp - 1 /\ sp' \in 0 .. MaxSlots
    BY <1>8 DEF Pop
  <2>2. ASSUME NEW i \in written' PROVE i \in 1 .. sp'
    <3>1. i \in 1 .. sp /\ i # sp
      BY <1>8, <2>2 DEF Pop
    <3> QED
      BY <2>1, <3>1
  <2> QED
    BY <1>8, <2>1, <2>2 DEF Pop
<1>9. ASSUME NEW t \in Thread, Exit(t) PROVE HeapTypes'
  BY <1>9 DEF Exit
<1>10. CASE Collect
  BY <1>10 DEF Collect
<1>11. CASE Mark
  <2> DEFINE pinned == {p \in StackRoots : Valid(p)}
             In_(c) == {p \in pinned : p[1] = c}
  <2>1. \A c \in Chunk : Cardinality(In_(c)) \in Nat
    BY RootsAreFew
  <2>2. num_indefinite' = [c \in Chunk |-> (num_indefinite[c] + Cardinality(In_(c))) % Wrap]
    BY <1>11 DEF Mark, MarkFrom
  <2>3. num_indefinite' \in [Chunk -> 0 .. (Wrap - 1)]
    BY <2>1, <2>2
  <2>4. indefinite' \subseteq Addr
    BY <1>11 DEF Mark, MarkFrom, StackRoots, Slot
  <2>5. marked' \subseteq Addr /\ sweep' \subseteq Addr
    BY <1>11 DEF Mark, MarkFrom, Closure, ObjectsIn
  <2> QED
    BY <1>11, <2>3, <2>4, <2>5 DEF Mark, MarkFrom
<1>12. ASSUME NEW a \in Addr, Leave(a) PROVE HeapTypes'
  BY <1>12 DEF Leave, Visit
<1>13. ASSUME NEW a \in Addr, NEW c \in Chunk, Transplant(a, c) PROVE HeapTypes'
  <2> USE <1>13 DEF Transplant, Copy, Visit
  <2>1. count[c] < Size
    BY DEF WithRoom, Fresh, ChunksInv
  <2>2. PICK b \in Addr :
          /\ PlaceIn(b, c, TransplantTo, num_indefinite[c])
          /\ kind' = [kind EXCEPT ![b] = kind[a]]
          /\ who' = [who EXCEPT ![b] = who[a]]
          /\ field' = [field EXCEPT ![b] = field[a], ![a] = NoFields]
          /\ forward' = [forward EXCEPT ![a] = b]
          /\ free_func' = free_func \cup {b : x \in free_func \cap {a}}
    OBVIOUS
  <2>3. space' \in [Chunk -> Lists] /\ count' \in [Chunk -> 0 .. Size]
        /\ num_indefinite' \in [Chunk -> 0 .. (Wrap - 1)]
    BY <2>1, <2>2 DEF PlaceIn, TransplantTo
  <2>4. NoFields \in [Field -> Pointer]
    BY DEF NoFields
  <2>5. field' \in [Addr -> [Field -> Pointer]]
    BY <2>2, <2>4
  <2>6. free_func' \subseteq Addr
    BY <2>2
  <2>7. /\ kind' \in [Addr -> {"none", "object", "atomic", "invalid"}]
        /\ who' \in [Addr -> Obj \cup {None}] /\ forward' \in [Addr -> Pointer]
    BY <2>2
  <2>8. /\ transplanted' \subseteq Addr /\ sweep' \subseteq Addr
        /\ UNCHANGED <<regime, phase, collection, minors, nursery, nodes, marked, indefinite, stack,
                       made, sp, written, store, calls>>
    BY DEF rootVars, ghostVars
  <2> HIDE <1>13 DEF Transplant, Copy, Visit
  <2> QED
    BY <2>3, <2>5, <2>6, <2>7, <2>8
<1>14. ASSUME NEW a \in Addr, Finalize(a) PROVE HeapTypes'
  BY <1>14 DEF Finalize, Visit, NoFields
<1>15. CASE SweptNurseries
  BY <1>15 DEF SweptNurseries
<1>16. CASE SweptAdults
  BY <1>16 DEF SweptAdults, ObjectsIn
<1>17. CASE SweptUnkillables
  BY <1>17 DEF SweptUnkillables
<1>18. CASE UpdateRoots
  <2>1. store' \in Pointer
    BY <1>18, MovedType DEF UpdateRoots, UpdateFieldsOf
  <2>2. \A a \in Addr : [f \in Field |-> Moved(field[a][f])] \in [Field -> Pointer]
    BY MovedType
  <2>3. field' \in [Addr -> [Field -> Pointer]]
    <3>1. CASE UpdateTraps
      BY <1>18, <3>1 DEF UpdateRoots, UpdateFieldsOf
    <3>2. CASE ~UpdateTraps
      <4>1. field' = [a \in Addr |-> IF a \in Updated /\ kind[a] = "object"
                                    THEN [f \in Field |-> Moved(field[a][f])] ELSE field[a]]
        BY <1>18, <3>2 DEF UpdateRoots, UpdateFieldsOf
      <4> QED
        BY <2>2, <4>1
    <3> QED
      BY <3>1, <3>2
  <2> QED
    BY <1>18, <2>1, <2>3 DEF UpdateRoots, UpdateFieldsOf
<1>19. CASE ResetOrSave
  BY <1>19 DEF ResetOrSave, Save, Erase, NoFields
<1>20. CASE ScrapGraveyard
  BY <1>20 DEF ScrapGraveyard, Erase, NoFields
<1>21. CASE Invalidate
  BY <1>21 DEF Invalidate
<1>22. CASE ClearFlags
  BY <1>22 DEF ClearFlags, EndWith, PhaseInv
<1>23. CASE UNCHANGED vars
  BY <1>23 DEF vars
<1> QED
  BY <1>1, <1>2, <1>3, <1>4, <1>5, <1>6, <1>7, <1>8, <1>9, <1>10, <1>11, <1>12, <1>13, <1>14,
     <1>15, <1>16, <1>17, <1>18, <1>19, <1>20, <1>21, <1>22, <1>23
  DEF Next, Program, Collection, Sweep

\* What placing an object in a chunk, and erasing chunks, does to the addresses
\* that are in use.
LEMMA Placing ==
  ASSUME HeapTypes, NEW b \in Addr, NEW c \in Chunk, NEW list, NEW n, PlaceIn(b, c, list, n)
  PROVE  /\ b[1] = c /\ ~InUse(b)
         /\ \A a \in Addr : a[2] <= count'[a[1]] <=> a[2] <= count[a[1]] \/ a = b
         /\ \A d \in Chunk : space'[d] = IF d = c THEN list ELSE space[d]
         /\ \A d \in Chunk : num_indefinite'[d] = IF d = c THEN n ELSE num_indefinite[d]
         /\ \A d \in Chunk \ {c} : count'[d] = count[d]
<1> USE AddrIsPair DEF HeapTypes, PlaceIn, InUse
<1>1. b[1] = c /\ b[2] = count[c] + 1 /\ count[c] \in Nat
  BY CollectorAssumption
<1>2. \A d \in Chunk : count'[d] = IF d = c THEN count[c] + 1 ELSE count[d]
  OBVIOUS
<1>3. ASSUME NEW a \in Addr PROVE a[2] <= count'[a[1]] <=> a[2] <= count[a[1]] \/ a = b
  <2>1. a[1] \in Chunk /\ a[2] \in Nat
    BY CollectorAssumption
  <2>2. a = b <=> a[1] = b[1] /\ a[2] = b[2]
    OBVIOUS
  <2>3. CASE a[1] = c
    <3>1. count'[a[1]] = count[c] + 1
      BY <1>2, <2>1, <2>3
    <3>2. a = b <=> a[2] = count[c] + 1
      BY <1>1, <2>2, <2>3
    <3> HIDE DEF HeapTypes, PlaceIn, InUse
    <3> QED
      BY <1>1, <2>1, <2>3, <3>1, <3>2
  <2>4. CASE a[1] # c
    BY <1>1, <1>2, <2>1, <2>4
  <2> QED
    BY <2>3, <2>4
<1> QED
  BY <1>1, <1>3

\* An object without references has none.
LEMMA NoFieldsAreNone == \A f \in Field : NoFields[f] = None
  BY DEF NoFields

LEMMA Erasing ==
  ASSUME HeapTypes, NEW C, Erase(C)
  PROVE  \A a \in Addr : a[2] <= count'[a[1]] <=> a[2] <= count[a[1]] /\ a[1] \notin C
  BY AddrIsPair, CollectorAssumption DEF HeapTypes, Erase

\* No chunk is used twice, so that an address that was handed out stays one.
LEMMA AllocatedStays ==
  ASSUME HeapInv, [Next]_vars
  PROVE  Allocated \subseteq Allocated'
<1> SUFFICES ASSUME NEW q \in Allocated PROVE q \in Allocated'
  OBVIOUS
<1> USE CollectorAssumption, AddrIsPair, NoneIsNothing
    DEF HeapInv, HeapTypes, Allocated, InUse, ChunksInv, gcVars, chunkVars
<1>1. ASSUME NEW t \in Thread, NEW c \in Chunk, NEW i \in 1 .. sp, Alloc(t, c, i)
      PROVE q \in Allocated'
  <2>1. space[c] # "released"
    BY <1>1 DEF Alloc, NurseryInv, Fresh
  <2>2. PICK b \in Addr, n \in Garbage \cup {num_indefinite[c]} : PlaceIn(b, c, "nursery", n)
    BY <1>1 DEF Alloc
  <2> QED
    BY <2>1, <2>2, Placing
<1>2. ASSUME NEW c \in Chunk, NEW i \in 1 .. sp, AllocBig(c, i) PROVE q \in Allocated'
  <2>1. PICK b \in Addr : PlaceIn(b, c, "big", 0)
    BY <1>2 DEF AllocBig
  <2> QED
    BY <1>2, <2>1, Placing DEF AllocBig, Fresh
<1>3. ASSUME NEW i \in 1 .. sp, SetFreeFunc(i) PROVE q \in Allocated'
  BY <1>3 DEF SetFreeFunc
<1>4. ASSUME NEW i \in 1 .. sp, NEW p \in Pointer, Load(i, p) PROVE q \in Allocated'
  BY <1>4 DEF Load, Keep
<1>5. ASSUME NEW i \in 1 .. sp, NEW f \in Field, NEW p \in Pointer, StoreField(i, f, p)
      PROVE q \in Allocated'
  BY <1>5 DEF StoreField
<1>6. ASSUME NEW p \in Pointer, SetStore(p) PROVE q \in Allocated'
  BY <1>6 DEF SetStore
<1>7. CASE Push
  BY <1>7 DEF Push
<1>8. CASE Pop
  BY <1>8 DEF Pop
<1>9. ASSUME NEW t \in Thread, Exit(t) PROVE q \in Allocated'
  <2>1. count' = count /\ \A c \in Chunk : c = nursery[t] => space[c] = "nursery"
    BY <1>9 DEF Exit, NurseryInv
  <2>2. \A c \in Chunk : space[c] = "released" => space'[c] = "released"
    BY <1>9, <2>1 DEF Exit
  <2> QED
    BY <2>1, <2>2
<1>10. CASE Collect
  BY <1>10 DEF Collect
<1>11. CASE Mark
  BY <1>11 DEF Mark, MarkFrom
<1>12. ASSUME NEW a \in Addr, Leave(a) PROVE q \in Allocated'
  BY <1>12 DEF Leave, Visit
<1>13. ASSUME NEW a \in Addr, NEW c \in Chunk, Transplant(a, c) PROVE q \in Allocated'
  <2>1. space[c] # "released"
    BY <1>13 DEF Transplant, Copy, Fresh, WithRoom, In, TransplantTo
  <2>2. PICK b \in Addr : PlaceIn(b, c, TransplantTo, num_indefinite[c])
    BY <1>13 DEF Transplant, Copy
  <2> QED
    BY <2>1, <2>2, Placing
<1>14. ASSUME NEW a \in Addr, Finalize(a) PROVE q \in Allocated'
  BY <1>14 DEF Finalize, Visit
<1>15. CASE SweptNurseries
  BY <1>15 DEF SweptNurseries
<1>16. CASE SweptAdults
  BY <1>16 DEF SweptAdults
<1>17. CASE SweptUnkillables
  BY <1>17 DEF SweptUnkillables
<1>18. CASE UpdateRoots
  BY <1>18 DEF UpdateRoots, UpdateFieldsOf
<1>19. CASE ResetOrSave
  <2> DEFINE saved == {d \in Chunk : num_indefinite[d] > 0}
             gone  == In("nursery") \ saved
  <2>1. Erase(gone)
    BY <1>19 DEF ResetOrSave, Save
  <2>2. \A d \in Chunk : d \in gone \/ space[d] = "released" => space'[d] = "released"
    BY <1>19 DEF ResetOrSave, Save, In
  <2>3. \A a \in Addr : a[2] <= count[a[1]] => a[2] <= count'[a[1]] \/ a[1] \in gone
    BY <2>1, Erasing
  <2> QED
    BY <2>2, <2>3
<1>20. CASE ScrapGraveyard
  <2>1. Erase(In("graveyard"))
    BY <1>20 DEF ScrapGraveyard
  <2>2. \A d \in Chunk : /\ d \in In("graveyard") => space'[d] = "released"
                         /\ space[d] = "released" => space'[d] = "released"
    BY <1>20 DEF ScrapGraveyard, In
  <2>3. \A a \in Addr : a[2] <= count[a[1]] => a[2] <= count'[a[1]] \/ a[1] \in In("graveyard")
    BY <2>1, Erasing
  <2> QED
    BY <2>2, <2>3
<1>21. CASE Invalidate
  BY <1>21 DEF Invalidate
<1>22. CASE ClearFlags
  BY <1>22 DEF ClearFlags, EndWith
<1>23. CASE UNCHANGED vars
  BY <1>23 DEF vars
<1> QED
  BY <1>1, <1>2, <1>3, <1>4, <1>5, <1>6, <1>7, <1>8, <1>9, <1>10, <1>11, <1>12, <1>13,
     <1>14, <1>15, <1>16, <1>17, <1>18, <1>19, <1>20, <1>21, <1>22, <1>23
  DEF Next, Program, Collection, Sweep

LEMMA ChunksNext == HeapInv /\ [Next]_vars => ChunksInv'
<1> SUFFICES ASSUME HeapInv, [Next]_vars PROVE ChunksInv'
  OBVIOUS
<1> USE CollectorAssumption, AddrIsPair, NoneIsNothing
    DEF HeapInv, HeapTypes, ChunksInv, InUse, gcVars, chunkVars, objVars, ghostVars
<1> HeapTypes'
  BY HeapTypesNext
<1>1. ASSUME NEW t \in Thread, NEW c \in Chunk, NEW i \in 1 .. sp, Alloc(t, c, i) PROVE ChunksInv'
  <2>1. space[c] \in {"unused", "nursery"}
    BY <1>1 DEF Alloc, NurseryInv, Fresh
  <2>2. PICK b \in Addr, o \in NextObj, n \in Garbage \cup {num_indefinite[c]} :
          PlaceIn(b, c, "nursery", n) /\ InitAllocation(b, o)
    BY <1>1 DEF Alloc
  <2>3. \A a \in Addr : a[2] <= count'[a[1]] <=> a[2] <= count[a[1]] \/ a = b
    BY <2>2, Placing
  <2>4. \A a \in Addr : kind'[a] = (IF a = b THEN Kind ELSE kind[a])
                        /\ who'[a] = (IF a = b THEN o ELSE who[a]) /\ field' = field
    BY <2>2 DEF InitAllocation
  <2>5. made \subseteq made' /\ o \in made' /\ Kind # "none"
    BY <2>2 DEF InitAllocation, Kind
  <2>6. \A d \in Chunk : /\ space'[d] = IF d = c THEN "nursery" ELSE space[d]
                         /\ d # c => count'[d] = count[d] /\ num_indefinite'[d] = num_indefinite[d]
    BY <2>2, Placing
  <2>7. sweep' = sweep
    BY <1>1 DEF Alloc
  <2> QED
    BY <2>3, <2>4, <2>5, <2>6, <2>7, ZenonT(60)
<1>2. ASSUME NEW c \in Chunk, NEW i \in 1 .. sp, AllocBig(c, i) PROVE ChunksInv'
  <2>2. PICK b \in Addr, o \in NextObj :
          PlaceIn(b, c, "big", 0) /\ InitAllocation(b, o)
    BY <1>2 DEF AllocBig
  <2>3. \A a \in Addr : a[2] <= count'[a[1]] <=> a[2] <= count[a[1]] \/ a = b
    BY <2>2, Placing
  <2>4. \A a \in Addr : kind'[a] = (IF a = b THEN Kind ELSE kind[a])
                        /\ who'[a] = (IF a = b THEN o ELSE who[a]) /\ field' = field
    BY <2>2 DEF InitAllocation
  <2>5. made \subseteq made' /\ o \in made' /\ Kind # "none"
    BY <2>2 DEF InitAllocation, Kind
  <2>6. \A d \in Chunk : /\ space'[d] = IF d = c THEN "big" ELSE space[d]
                         /\ d # c => count'[d] = count[d] /\ num_indefinite'[d] = num_indefinite[d]
    BY <2>2, Placing
  <2>7. sweep' = sweep
    BY <1>2 DEF AllocBig
  <2> QED
    BY <2>3, <2>4, <2>5, <2>6, <2>7, ZenonT(60)
<1>3. ASSUME NEW i \in 1 .. sp, SetFreeFunc(i) PROVE ChunksInv'
  BY <1>3 DEF SetFreeFunc
<1>4. ASSUME NEW i \in 1 .. sp, NEW p \in Pointer, Load(i, p) PROVE ChunksInv'
  BY <1>4 DEF Load, Keep
<1>5. ASSUME NEW i \in 1 .. sp, NEW f \in Field, NEW p \in Pointer, StoreField(i, f, p)
      PROVE ChunksInv'
  <2>1. kind[stack[i]] = "object" /\ stack[i] \in Addr
    BY <1>5 DEF StoreField, Slot, Pointer
  <2>2. \A a \in Addr : a # stack[i] => field'[a] = field[a]
    BY <1>5 DEF StoreField
  <2>3. UNCHANGED <<space, count, num_indefinite, kind, who, made, sweep>>
    BY <1>5 DEF StoreField
  <2> QED
    BY <2>1, <2>2, <2>3
<1>6. ASSUME NEW p \in Pointer, SetStore(p) PROVE ChunksInv'
  BY <1>6 DEF SetStore
<1>7. CASE Push
  BY <1>7 DEF Push
<1>8. CASE Pop
  BY <1>8 DEF Pop
<1>9. ASSUME NEW t \in Thread, Exit(t) PROVE ChunksInv'
  <2>1. \A c \in Chunk : space[c] \in {"unused", "released"} => c # nursery[t]
    BY <1>9 DEF Exit, NurseryInv
  <2>2. \A c \in Chunk : space'[c] \in {"unused", "released"} => space'[c] = space[c]
    BY <1>9 DEF Exit
  <2>3. UNCHANGED <<count, num_indefinite, kind, who, field, made, sweep>>
    BY <1>9 DEF Exit
  <2> QED
    BY <2>2, <2>3
<1>10. CASE Collect
  BY <1>10 DEF Collect
<1>11. CASE Mark
  <2>1. UNCHANGED <<space, count, kind, who, field, made>>
    BY <1>11 DEF Mark, MarkFrom
  <2> DEFINE In_(c) == {p \in StackRoots : Valid(p) /\ p[1] = c}
  <2>2. ASSUME NEW c \in Chunk, space[c] = "unused" PROVE num_indefinite'[c] = 0
    <3>1. In_(c) = {}
      BY <2>2 DEF Valid, Found
    <3>2. Cardinality(In_(c)) = 0
      BY <3>1, FS_EmptySet
    <3>3. num_indefinite'[c] = (num_indefinite[c] + Cardinality(In_(c))) % Wrap
      <4>1. {p \in {q \in StackRoots : Valid(q)} : p[1] = c} = In_(c)
        OBVIOUS
      <4> QED
        BY <1>11, <4>1 DEF Mark, MarkFrom
    <3> QED
      BY <2>2, <3>2, <3>3
  <2>3. \A a \in sweep' : a[2] <= count[a[1]]
    BY <1>11 DEF Mark, MarkFrom, ObjectsIn
  <2> QED
    BY <2>1, <2>2, <2>3
<1>12. ASSUME NEW a \in Addr, Leave(a) PROVE ChunksInv'
  BY <1>12 DEF Leave, Visit
<1>13. ASSUME NEW a \in Addr, NEW c \in Chunk, Transplant(a, c) PROVE ChunksInv'
  <2> USE <1>13 DEF Transplant, Copy, Visit
  <2>1. PICK b \in Addr :
          /\ PlaceIn(b, c, TransplantTo, num_indefinite[c])
          /\ kind' = [kind EXCEPT ![b] = kind[a]]
          /\ who' = [who EXCEPT ![b] = who[a]]
          /\ field' = [field EXCEPT ![b] = field[a], ![a] = NoFields]
    OBVIOUS
  <2>2. \A x \in Addr : x[2] <= count'[x[1]] <=> x[2] <= count[x[1]] \/ x = b
    BY <2>1, Placing
  <2>3. a[2] <= count[a[1]]
    OBVIOUS
  <2>4. \A x \in Addr : kind'[x] = (IF x = b THEN kind[a] ELSE kind[x])
                        /\ who'[x] = (IF x = b THEN who[a] ELSE who[x])
    BY <2>1
  <2>5. \A x \in Addr : x # a /\ x # b => field'[x] = field[x]
    BY <2>1
  <2>6. field'[a] = NoFields
    BY <2>1
  <2>7. TransplantTo \notin {"unused", "released"}
    BY DEF TransplantTo
  <2>8. \A d \in Chunk : space'[d] \in {"unused", "released"} => count'[d] = 0
    BY <2>1, <2>7, Placing
  <2>9. \A d \in Chunk : space'[d] = "unused" => num_indefinite'[d] = 0
    BY <2>1, <2>7, Placing
  <2>10. made' = made
    OBVIOUS
  <2> QED
    BY <2>2, <2>3, <2>4, <2>5, <2>6, <2>8, <2>9, <2>10
<1>14. ASSUME NEW a \in Addr, Finalize(a) PROVE ChunksInv'
  <2>1. a[2] <= count[a[1]]
    BY <1>14 DEF Finalize, Visit
  <2>2. UNCHANGED <<space, count, num_indefinite, who, made>> /\ sweep' \subseteq sweep
    BY <1>14 DEF Finalize, Visit
  <2>3. \A x \in Addr : x # a => kind'[x] = kind[x] /\ field'[x] = field[x]
    BY <1>14 DEF Finalize
  <2>4. kind'[a] = "invalid"
    BY <1>14 DEF Finalize
  <2> QED
    BY <2>1, <2>2, <2>3, <2>4
<1>15. CASE SweptNurseries
  BY <1>15 DEF SweptNurseries
<1>16. CASE SweptAdults
  <2>1. UNCHANGED <<count, num_indefinite, kind, who, field, made>>
    BY <1>16 DEF SweptAdults
  <2>2. \A d \in Chunk : space'[d] \in {"unused", "released"} => space'[d] = space[d]
    BY <1>16 DEF SweptAdults
  <2>3. \A a \in sweep' : a[2] <= count[a[1]]
    BY <1>16 DEF SweptAdults, ObjectsIn
  <2> QED
    BY <2>1, <2>2, <2>3
<1>17. CASE SweptUnkillables
  BY <1>17 DEF SweptUnkillables
<1>18. CASE UpdateRoots
  <2>1. UNCHANGED <<space, count, num_indefinite, kind, who, made, sweep>>
    BY <1>18 DEF UpdateRoots, UpdateFieldsOf
  <2>2. \A a \in Addr : kind[a] # "object" => field'[a] = field[a]
    BY <1>18 DEF UpdateRoots, UpdateFieldsOf
  <2> QED
    BY <2>1, <2>2
<1>19. CASE ResetOrSave
  <2> DEFINE gone == In("nursery") \ {d \in Chunk : num_indefinite[d] > 0}
  <2>1. Erase(gone) /\ UNCHANGED <<made, num_indefinite, sweep>> /\ phase = "reset"
    BY <1>19 DEF ResetOrSave, Save
  <2>2. \A a \in Addr : a[2] <= count'[a[1]] <=> a[2] <= count[a[1]] /\ a[1] \notin gone
    BY <2>1, Erasing
  <2>3. \A a \in Addr : /\ kind'[a] = (IF a[1] \in gone THEN "none" ELSE kind[a])
                        /\ who'[a] = (IF a[1] \in gone THEN None ELSE who[a])
                        /\ field'[a] = (IF a[1] \in gone THEN NoFields ELSE field[a])
    BY <2>1 DEF Erase
  <2>4. \A d \in Chunk : /\ space'[d] = "unused" => space[d] = "unused" /\ d \notin gone
                         /\ space'[d] = "released" => space[d] = "released" \/ d \in gone
    BY <1>19 DEF ResetOrSave, Save, In
  <2>5. \A d \in Chunk : count'[d] = IF d \in gone THEN 0 ELSE count[d]
    BY <2>1 DEF Erase
  <2>6. sweep = {}
    BY <2>1 DEF PhaseInv, Sweeping
  <2> QED
    BY <2>1, <2>2, <2>3, <2>4, <2>5, <2>6
<1>20. CASE ScrapGraveyard
  <2> DEFINE gone == In("graveyard")
  <2>1. Erase(gone) /\ UNCHANGED <<made, num_indefinite, sweep>> /\ phase = "scrap"
    BY <1>20 DEF ScrapGraveyard
  <2>2. \A a \in Addr : a[2] <= count'[a[1]] <=> a[2] <= count[a[1]] /\ a[1] \notin gone
    BY <2>1, Erasing
  <2>3. \A a \in Addr : /\ kind'[a] = (IF a[1] \in gone THEN "none" ELSE kind[a])
                        /\ who'[a] = (IF a[1] \in gone THEN None ELSE who[a])
                        /\ field'[a] = (IF a[1] \in gone THEN NoFields ELSE field[a])
    BY <2>1 DEF Erase
  <2>4. \A d \in Chunk : /\ space'[d] = "unused" => space[d] = "unused" /\ d \notin gone
                         /\ space'[d] = "released" => space[d] = "released" \/ d \in gone
    BY <1>20 DEF ScrapGraveyard, In
  <2>5. \A d \in Chunk : count'[d] = IF d \in gone THEN 0 ELSE count[d]
    BY <2>1 DEF Erase
  <2>6. sweep = {}
    BY <2>1 DEF PhaseInv, Sweeping
  <2> QED
    BY <2>1, <2>2, <2>3, <2>4, <2>5, <2>6
<1>21. CASE Invalidate
  <2>1. UNCHANGED <<space, count, num_indefinite, who, field, made, sweep>> /\ phase = "invalidate"
    BY <1>21 DEF Invalidate
  <2>2. \A a \in Addr : \/ kind'[a] = kind[a]
                        \/ /\ kind'[a] = "invalid"
                           /\ a \in transplanted /\ space[a[1]] = "unkillable"
    BY <1>21 DEF Invalidate
  <2>3. \A a \in transplanted : space[a[1]] = "unkillable" => a[2] <= count[a[1]]
    BY ZenonT(60) DEF PointersInv, Allocated
  <2> QED
    BY <2>1, <2>2, <2>3
<1>22. CASE ClearFlags
  BY <1>22 DEF ClearFlags, EndWith
<1>23. CASE UNCHANGED vars
  BY <1>23 DEF vars
<1> QED
  BY <1>1, <1>2, <1>3, <1>4, <1>5, <1>6, <1>7, <1>8, <1>9, <1>10, <1>11, <1>12, <1>13,
     <1>14, <1>15, <1>16, <1>17, <1>18, <1>19, <1>20, <1>21, <1>22, <1>23
  DEF Next, Program, Collection, Sweep

LEMMA NurseryNext == HeapInv /\ [Next]_vars => NurseryInv'
<1> SUFFICES ASSUME HeapInv, [Next]_vars PROVE NurseryInv'
  OBVIOUS
<1> USE CollectorAssumption, NoneIsNothing
    DEF HeapInv, HeapTypes, NurseryInv, gcVars, chunkVars
<1> HeapTypes'
  BY HeapTypesNext
<1>1. ASSUME NEW t \in Thread, NEW c \in Chunk, NEW i \in 1 .. sp, Alloc(t, c, i)
      PROVE NurseryInv'
  <2>1. nursery' = [nursery EXCEPT ![t] = c]
    BY <1>1 DEF Alloc
  <2>2. PICK b \in Addr, n \in Garbage \cup {num_indefinite[c]} : PlaceIn(b, c, "nursery", n)
    BY <1>1 DEF Alloc
  <2>3. \A d \in Chunk : space'[d] = IF d = c THEN "nursery" ELSE space[d]
    BY <2>2, Placing
  <2>4. \A u \in Thread \ {t} : nursery[u] # c
    BY <1>1 DEF Alloc, Fresh
  <2> QED
    BY <2>1, <2>3, <2>4
<1>2. ASSUME NEW c \in Chunk, NEW i \in 1 .. sp, AllocBig(c, i) PROVE NurseryInv'
  <2>1. nursery' = nursery
    BY <1>2 DEF AllocBig
  <2>2. PICK b \in Addr : PlaceIn(b, c, "big", 0)
    BY <1>2 DEF AllocBig
  <2>3. \A d \in Chunk : space'[d] = IF d = c THEN "big" ELSE space[d]
    BY <2>2, Placing
  <2>4. \A u \in Thread : nursery[u] # c
    BY <1>2 DEF AllocBig, Fresh
  <2> QED
    BY <2>1, <2>3, <2>4
<1>3. ASSUME NEW i \in 1 .. sp, SetFreeFunc(i) PROVE NurseryInv'
  BY <1>3 DEF SetFreeFunc
<1>4. ASSUME NEW i \in 1 .. sp, NEW p \in Pointer, Load(i, p) PROVE NurseryInv'
  BY <1>4 DEF Load, Keep
<1>5. ASSUME NEW i \in 1 .. sp, NEW f \in Field, NEW p \in Pointer, StoreField(i, f, p)
      PROVE NurseryInv'
  BY <1>5 DEF StoreField
<1>6. ASSUME NEW p \in Pointer, SetStore(p) PROVE NurseryInv'
  BY <1>6 DEF SetStore
<1>7. CASE Push
  BY <1>7 DEF Push
<1>8. CASE Pop
  BY <1>8 DEF Pop
<1>9. ASSUME NEW t \in Thread, Exit(t) PROVE NurseryInv'
  BY <1>9 DEF Exit
<1>10. CASE Collect
  BY <1>10 DEF Collect
<1>11. CASE Mark
  BY <1>11 DEF Mark, MarkFrom
<1>12. ASSUME NEW a \in Addr, Leave(a) PROVE NurseryInv'
  BY <1>12 DEF Leave, Visit
<1>13. ASSUME NEW a \in Addr, NEW c \in Chunk, Transplant(a, c) PROVE NurseryInv'
  <2>1. nursery' = nursery
    BY <1>13 DEF Transplant, Copy
  <2>2. PICK b \in Addr : PlaceIn(b, c, TransplantTo, num_indefinite[c])
    BY <1>13 DEF Transplant, Copy
  <2>3. \A d \in Chunk : space'[d] = IF d = c THEN TransplantTo ELSE space[d]
    BY <2>2, Placing
  <2>4. \A u \in Thread : nursery[u] # c
    BY <1>13 DEF Transplant, Copy, Fresh, WithRoom, In, TransplantTo
  <2> QED
    BY <2>1, <2>3, <2>4
<1>14. ASSUME NEW a \in Addr, Finalize(a) PROVE NurseryInv'
  BY <1>14 DEF Finalize, Visit
<1>15. CASE SweptNurseries
  BY <1>15 DEF SweptNurseries
<1>16. CASE SweptAdults
  BY <1>16 DEF SweptAdults
<1>17. CASE SweptUnkillables
  BY <1>17 DEF SweptUnkillables
<1>18. CASE UpdateRoots
  BY <1>18 DEF UpdateRoots, UpdateFieldsOf
<1>19. CASE ResetOrSave
  BY <1>19 DEF ResetOrSave, Save, Erase
<1>20. CASE ScrapGraveyard
  BY <1>20 DEF ScrapGraveyard, Erase
<1>21. CASE Invalidate
  BY <1>21 DEF Invalidate
<1>22. CASE ClearFlags
  BY <1>22 DEF ClearFlags, EndWith
<1>23. CASE UNCHANGED vars
  BY <1>23 DEF vars
<1> QED
  BY <1>1, <1>2, <1>3, <1>4, <1>5, <1>6, <1>7, <1>8, <1>9, <1>10, <1>11, <1>12, <1>13,
     <1>14, <1>15, <1>16, <1>17, <1>18, <1>19, <1>20, <1>21, <1>22, <1>23
  DEF Next, Program, Collection, Sweep

LEMMA PointersNext == HeapInv /\ [Next]_vars => PointersInv'
<1> SUFFICES ASSUME HeapInv, [Next]_vars PROVE PointersInv'
  OBVIOUS
<1> USE CollectorAssumption, AddrIsPair, NoneIsNothing
    DEF HeapInv, HeapTypes, PointersInv, Pointer, gcVars, chunkVars, objVars, flagVars, rootVars
<1> HeapTypes'
  BY HeapTypesNext
<1>a. Allocated \subseteq Allocated'
  BY AllocatedStays
<1>b. None \in Allocated /\ None \in Allocated'
  BY DEF Allocated
<1>c. ASSUME UNCHANGED <<stack, store, field, forward>>, transplanted' \subseteq transplanted
      PROVE  PointersInv'
  BY <1>a, <1>c
<1>d. Values \subseteq Allocated
  <2> DEFINE own == {stack[i] : i \in written} \cup {store, None}
  <2>0. \A i \in written : i \in Slot
    BY DEF Slot
  <2>1. own \subseteq Allocated
    BY <1>b, <2>0
  <2>2. \A p \in own \ {None} : p \in Addr
    BY <2>1 DEF Allocated
  <2>3. \A p \in own \ {None} : Refers(p) \subseteq Allocated
    BY <2>2 DEF Refers
  <2>4. Values = own \cup UNION {Refers(p) : p \in own \ {None}}
    BY DEF Values
  <2> HIDE DEF HeapInv, own
  <2> QED
    BY <2>1, <2>3, <2>4
<1>1. ASSUME NEW t \in Thread, NEW c \in Chunk, NEW i \in 1 .. sp, Alloc(t, c, i)
      PROVE PointersInv'
  <2>1. PICK b \in Addr, n \in Garbage \cup {num_indefinite[c]} : PlaceIn(b, c, "nursery", n) /\ stack' = [stack EXCEPT ![i] = b]
    BY <1>1 DEF Alloc, Keep
  <2>2. b \in Allocated'
    BY <2>1, Placing DEF Allocated, InUse
  <2>3. UNCHANGED <<store, field, forward, transplanted>>
    BY <1>1 DEF Alloc, Keep, InitAllocation, flagVars
  <2> QED
    BY <1>a, <2>1, <2>2, <2>3
<1>2. ASSUME NEW c \in Chunk, NEW i \in 1 .. sp, AllocBig(c, i) PROVE PointersInv'
  <2>1. PICK b \in Addr : PlaceIn(b, c, "big", 0) /\ stack' = [stack EXCEPT ![i] = b]
    BY <1>2 DEF AllocBig, Keep
  <2>2. b \in Allocated'
    BY <2>1, Placing DEF Allocated, InUse
  <2>3. UNCHANGED <<store, field, forward, transplanted>>
    BY <1>2 DEF AllocBig, Keep, InitAllocation, flagVars
  <2> QED
    BY <1>a, <2>1, <2>2, <2>3
<1>3. ASSUME NEW i \in 1 .. sp, SetFreeFunc(i) PROVE PointersInv'
  BY <1>3, <1>c DEF SetFreeFunc
<1>4. ASSUME NEW i \in 1 .. sp, NEW p \in Pointer, Load(i, p) PROVE PointersInv'
  <2>1. stack' = [stack EXCEPT ![i] = p] /\ UNCHANGED <<store, field, forward, transplanted>>
    BY <1>4 DEF Load, Keep, flagVars
  <2>2. p \in Allocated'
    BY <1>4, <1>a, <1>d DEF Load
  <2> QED
    BY <1>a, <2>1, <2>2
<1>5. ASSUME NEW i \in 1 .. sp, NEW f \in Field, NEW p \in Pointer, StoreField(i, f, p)
      PROVE PointersInv'
  <2>1. field' = [field EXCEPT ![stack[i]][f] = p] /\ UNCHANGED <<stack, store, forward, transplanted>>
    BY <1>5 DEF StoreField, flagVars
  <2>2. p \in Allocated'
    BY <1>5, <1>a, <1>d DEF StoreField
  <2>3. \A a \in Addr, g \in Field : field'[a][g] = field[a][g] \/ field'[a][g] = p
    BY <2>1
  <2> QED
    BY <1>a, <2>1, <2>2, <2>3
<1>6. ASSUME NEW p \in Pointer, SetStore(p) PROVE PointersInv'
  <2>1. p \in Allocated'
    BY <1>6, <1>a, <1>d DEF SetStore
  <2> QED
    BY <1>6, <1>a, <2>1 DEF SetStore
<1>7. CASE Push
  <2>1. \A j \in Slot : stack'[j] = stack[j] \/ stack'[j] = None
    BY <1>7 DEF Push
  <2> QED
    BY <1>7, <1>a, <1>b, <2>1 DEF Push
<1>8. CASE Pop
  BY <1>8, <1>c DEF Pop
<1>9. ASSUME NEW t \in Thread, Exit(t) PROVE PointersInv'
  BY <1>9, <1>c DEF Exit
<1>10. CASE Collect
  BY <1>10, <1>c DEF Collect
<1>11. CASE Mark
  BY <1>11, <1>c DEF Mark, MarkFrom
<1>12. ASSUME NEW a \in Addr, Leave(a) PROVE PointersInv'
  BY <1>12, <1>c DEF Leave, Visit
<1>13. ASSUME NEW a \in Addr, NEW c \in Chunk, Transplant(a, c) PROVE PointersInv'
  <2> USE <1>13 DEF Transplant, Copy, Visit
  <2>1. PICK b \in Addr :
          /\ PlaceIn(b, c, TransplantTo, num_indefinite[c])
          /\ field' = [field EXCEPT ![b] = field[a], ![a] = NoFields]
          /\ forward' = [forward EXCEPT ![a] = b]
    OBVIOUS
  <2>2. b \in Allocated'
    BY <2>1, Placing DEF Allocated, InUse
  <2>3. \A x \in Addr, f \in Field : \/ field'[x][f] = None
                                     \/ \E y \in Addr : field'[x][f] = field[y][f]
    BY <2>1, NoFieldsAreNone, SMTT(30)
  <2>4. \A x \in Addr : forward'[x] = forward[x] \/ forward'[x] = b
    BY <2>1
  <2>5. UNCHANGED <<stack, store>> /\ transplanted' = transplanted \cup {a} /\ a \in Allocated
    BY DEF ChunksInv, InUse, Allocated
  <2>6. PointersInv
    OBVIOUS
  <2> HIDE DEF HeapInv, Transplant, Copy, Visit
  <2>7. ASSUME NEW x \in Addr, NEW f \in Field PROVE field'[x][f] \in Allocated'
    <3>1. CASE field'[x][f] = None
      BY <1>b, <3>1
    <3>2. CASE \E y \in Addr : field'[x][f] = field[y][f]
      BY <1>a, <2>6, <3>2
    <3> QED
      BY <2>3, <3>1, <3>2
  <2>8. \A x \in Addr : forward'[x] \in Allocated'
    BY <1>a, <2>2, <2>4, <2>6
  <2> QED
    BY <1>a, <2>5, <2>6, <2>7, <2>8
<1>14. ASSUME NEW a \in Addr, Finalize(a) PROVE PointersInv'
  <2>1. \A x \in Addr : field'[x] = field[x] \/ field'[x] = NoFields
    BY <1>14 DEF Finalize
  <2>2. \A x \in Addr, f \in Field : field'[x][f] = field[x][f] \/ field'[x][f] = None
    BY <2>1, NoFieldsAreNone
  <2> QED
    BY <1>14, <1>a, <1>b, <2>2 DEF Finalize, Visit
<1>15. CASE SweptNurseries
  BY <1>15, <1>c DEF SweptNurseries
<1>16. CASE SweptAdults
  BY <1>16, <1>c DEF SweptAdults
<1>17. CASE SweptUnkillables
  BY <1>17, <1>c DEF SweptUnkillables
<1>18. CASE UpdateRoots
  <2>1. \A q \in Pointer : q \in Allocated => Moved(q) \in Allocated
    BY DEF Moved
  <2>2. store' \in Allocated'
    BY <1>18, <1>a, <2>1 DEF UpdateRoots, UpdateFieldsOf
  <2>3. \A x \in Addr, f \in Field : field'[x][f] = field[x][f] \/ field'[x][f] = Moved(field[x][f])
    BY <1>18 DEF UpdateRoots, UpdateFieldsOf
  <2>4. \A x \in Addr, f \in Field : field[x][f] \in Pointer /\ field[x][f] \in Allocated
    OBVIOUS
  <2>5. \A x \in Addr, f \in Field : Moved(field[x][f]) \in Allocated
    BY <2>1, <2>4
  <2>6. \A x \in Addr, f \in Field : field'[x][f] \in Allocated'
    <3> HIDE DEF HeapInv
    <3> QED
      BY <1>a, <2>3, <2>4, <2>5, SMTT(30)
  <2> QED
    BY <1>18, <1>a, <2>2, <2>6 DEF UpdateRoots, UpdateFieldsOf
<1>19. CASE ResetOrSave
  <2>1. \A x \in Addr : /\ field'[x] = field[x] \/ field'[x] = NoFields
                        /\ forward'[x] = forward[x] \/ forward'[x] = None
    BY <1>19 DEF ResetOrSave, Save, Erase
  <2>2. \A x \in Addr, f \in Field : field'[x][f] = field[x][f] \/ field'[x][f] = None
    BY <2>1, NoFieldsAreNone
  <2> QED
    BY <1>19, <1>a, <1>b, <2>1, <2>2, ZenonT(60) DEF ResetOrSave, Save
<1>20. CASE ScrapGraveyard
  <2>1. \A x \in Addr : /\ field'[x] = field[x] \/ field'[x] = NoFields
                        /\ forward'[x] = forward[x] \/ forward'[x] = None
    BY <1>20 DEF ScrapGraveyard, Erase
  <2>2. \A x \in Addr, f \in Field : field'[x][f] = field[x][f] \/ field'[x][f] = None
    BY <2>1, NoFieldsAreNone
  <2> QED
    BY <1>20, <1>a, <1>b, <2>1, <2>2, ZenonT(60) DEF ScrapGraveyard
<1>21. CASE Invalidate
  BY <1>21, <1>c DEF Invalidate
<1>22. CASE ClearFlags
  BY <1>22, <1>c DEF ClearFlags, EndWith
<1>23. CASE UNCHANGED vars
  BY <1>23, <1>c DEF vars
<1> QED
  BY <1>1, <1>2, <1>3, <1>4, <1>5, <1>6, <1>7, <1>8, <1>9, <1>10, <1>11, <1>12, <1>13,
     <1>14, <1>15, <1>16, <1>17, <1>18, <1>19, <1>20, <1>21, <1>22, <1>23
  DEF Next, Program, Collection, Sweep

LEMMA PhaseNext == HeapInv /\ [Next]_vars => PhaseInv'
<1> SUFFICES ASSUME HeapInv, [Next]_vars PROVE PhaseInv'
  OBVIOUS
<1> USE CollectorAssumption, NoneIsNothing
    DEF HeapInv, HeapTypes, PhaseInv, In, Sweeping, gcVars, chunkVars
<1>1. ASSUME NEW t \in Thread, NEW c \in Chunk, NEW i \in 1 .. sp, Alloc(t, c, i) PROVE PhaseInv'
  <2>1. PICK b \in Addr, n \in Garbage \cup {num_indefinite[c]} : PlaceIn(b, c, "nursery", n)
    BY <1>1 DEF Alloc
  <2>2. \A d \in Chunk : space'[d] = IF d = c THEN "nursery" ELSE space[d]
    BY <2>1, Placing
  <2> QED
    BY <1>1, <2>2 DEF Alloc
<1>2. ASSUME NEW c \in Chunk, NEW i \in 1 .. sp, AllocBig(c, i) PROVE PhaseInv'
  <2>1. PICK b \in Addr : PlaceIn(b, c, "big", 0)
    BY <1>2 DEF AllocBig
  <2>2. \A d \in Chunk : space'[d] = IF d = c THEN "big" ELSE space[d]
    BY <2>1, Placing
  <2> QED
    BY <1>2, <2>2 DEF AllocBig
<1>3. ASSUME NEW i \in 1 .. sp, SetFreeFunc(i) PROVE PhaseInv'
  BY <1>3 DEF SetFreeFunc
<1>4. ASSUME NEW i \in 1 .. sp, NEW p \in Pointer, Load(i, p) PROVE PhaseInv'
  BY <1>4 DEF Load, Keep
<1>5. ASSUME NEW i \in 1 .. sp, NEW f \in Field, NEW p \in Pointer, StoreField(i, f, p)
      PROVE PhaseInv'
  BY <1>5 DEF StoreField
<1>6. ASSUME NEW p \in Pointer, SetStore(p) PROVE PhaseInv'
  BY <1>6 DEF SetStore
<1>7. CASE Push
  BY <1>7 DEF Push
<1>8. CASE Pop
  BY <1>8 DEF Pop
<1>9. ASSUME NEW t \in Thread, Exit(t) PROVE PhaseInv'
  BY <1>9 DEF Exit
<1>10. CASE Collect
  BY <1>10 DEF Collect
<1>11. CASE Mark
  BY <1>11 DEF Mark, MarkFrom
<1>12. ASSUME NEW a \in Addr, Leave(a) PROVE PhaseInv'
  BY <1>12 DEF Leave, Visit
<1>13. ASSUME NEW a \in Addr, NEW c \in Chunk, Transplant(a, c) PROVE PhaseInv'
  <2>1. PICK b \in Addr : PlaceIn(b, c, TransplantTo, num_indefinite[c])
    BY <1>13 DEF Transplant, Copy
  <2>2. \A d \in Chunk : space'[d] = IF d = c THEN TransplantTo ELSE space[d]
    BY <2>1, Placing
  <2>3. UNCHANGED <<regime, phase, collection, minors>> /\ phase \in Sweeping
    BY <1>13 DEF Transplant, Copy, Visit
  <2>4. TransplantTo \in {"adult", "new_adult"} /\ (TransplantTo = "new_adult" => phase = "sweep_adults")
    BY DEF TransplantTo
  <2> QED
    BY <2>2, <2>3, <2>4
<1>14. ASSUME NEW a \in Addr, Finalize(a) PROVE PhaseInv'
  BY <1>14 DEF Finalize, Visit
<1>15. CASE SweptNurseries
  BY <1>15 DEF SweptNurseries
<1>16. CASE SweptAdults
  BY <1>16 DEF SweptAdults
<1>17. CASE SweptUnkillables
  BY <1>17 DEF SweptUnkillables
<1>18. CASE UpdateRoots
  BY <1>18 DEF UpdateRoots, UpdateFieldsOf
<1>19. CASE ResetOrSave
  BY <1>19 DEF ResetOrSave, Save, Erase
<1>20. CASE ScrapGraveyard
  BY <1>20 DEF ScrapGraveyard, Erase
<1>21. CASE Invalidate
  BY <1>21 DEF Invalidate
<1>22. CASE ClearFlags
  BY <1>22 DEF ClearFlags, EndWith
<1>23. CASE UNCHANGED vars
  BY <1>23 DEF vars
<1> QED
  BY <1>1, <1>2, <1>3, <1>4, <1>5, <1>6, <1>7, <1>8, <1>9, <1>10, <1>11, <1>12, <1>13,
     <1>14, <1>15, <1>16, <1>17, <1>18, <1>19, <1>20, <1>21, <1>22, <1>23
  DEF Next, Program, Collection, Sweep

LEMMA HeapInvNext == HeapInv /\ [Next]_vars => HeapInv'
  BY HeapTypesNext, ChunksNext, NurseryNext, PointersNext, PhaseNext DEF HeapInv

LEMMA HeapInvInit == Init => HeapInv
<1> SUFFICES ASSUME Init PROVE HeapInv
  OBVIOUS
<1> USE CollectorAssumption, AddrIsPair, NoneIsNothing DEF Init
<1>1. HeapTypes
  BY DEF HeapTypes, Phases, Lists, Pointer, NoFields
<1>2. ChunksInv
  BY DEF ChunksInv, InUse
<1>3. NurseryInv
  BY DEF NurseryInv
<1>4. PointersInv
  BY NoFieldsAreNone DEF PointersInv, Allocated
<1>5. PhaseInv
  BY DEF PhaseInv, In, Sweeping
<1> QED
  BY <1>1, <1>2, <1>3, <1>4, <1>5 DEF HeapInv

-----------------------------------------------------------------------------
(***************************************************************************)
(* What the steps do to objects                                            *)
(***************************************************************************)
\* A new object is one more, of a new allocation.
LEMMA AllocEffect ==
  ASSUME HeapInv, NEW b \in Addr, NEW o \in NextObj, NEW c \in Chunk, NEW list, NEW n,
         PlaceIn(b, c, list, n), InitAllocation(b, o)
  PROVE  /\ ~InUse(b) /\ b \notin Intact /\ Intact' = Intact \cup {b}
         /\ o \in Obj \ made /\ who' = [who EXCEPT ![b] = o]
         /\ kind' = [kind EXCEPT ![b] = Kind]
         /\ UNCHANGED <<field, forward>>
<1>1. /\ ~InUse(b)
      /\ \A a \in Addr : a[2] <= count'[a[1]] <=> a[2] <= count[a[1]] \/ a = b
  BY Placing DEF HeapInv
<1>2. \A a \in Addr : kind'[a] = IF a = b THEN Kind ELSE kind[a]
  BY DEF InitAllocation, HeapInv, HeapTypes
<1>3. Kind \in {"object", "atomic"}
  BY DEF Kind
<1>4. Intact' = Intact \cup {b}
  BY <1>1, <1>2, <1>3 DEF Intact, InUse
<1> QED
  BY <1>1, <1>4 DEF Intact, InitAllocation, NextObj

\* What the program does to objects: it may allocate one.
LEMMA ProgramStep ==
  ASSUME HeapInv, Program
  PROVE  /\ phase = "mutator"
         /\ UNCHANGED <<regime, phase, collection, minors, sweep, flagVars>>
         /\ \A c \in Chunk : num_indefinite'[c] = num_indefinite[c]
                             \/ num_indefinite'[c] \in Garbage \cup {0}
<1> USE DEF gcVars, chunkVars
<1>1. ASSUME NEW t \in Thread, NEW c \in Chunk, NEW i \in 1 .. sp, Alloc(t, c, i)
      PROVE  \A d \in Chunk : num_indefinite'[d] = num_indefinite[d]
                              \/ num_indefinite'[d] \in Garbage \cup {0}
  BY <1>1, CollectorAssumption DEF Alloc, PlaceIn, HeapInv, HeapTypes
<1>2. ASSUME NEW c \in Chunk, NEW i \in 1 .. sp, AllocBig(c, i)
      PROVE  \A d \in Chunk : num_indefinite'[d] = num_indefinite[d]
                              \/ num_indefinite'[d] \in Garbage \cup {0}
  BY <1>2, CollectorAssumption DEF AllocBig, PlaceIn, HeapInv, HeapTypes
<1> QED
  BY <1>1, <1>2
  DEF Program, Alloc, AllocBig, SetFreeFunc, Load, StoreField, SetStore, Push, Pop, Exit

LEMMA ProgramObjects ==
  ASSUME HeapInv, Program
  PROVE  \/ UNCHANGED <<Intact, kind, who, forward>>
         \/ \E b \in Addr, o \in Obj \ made :
              /\ ~InUse(b) /\ b \notin Intact /\ Intact' = Intact \cup {b}
              /\ who' = [who EXCEPT ![b] = o] /\ kind' = [kind EXCEPT ![b] = Kind]
              /\ UNCHANGED <<field, forward>>
<1>1. ASSUME NEW t \in Thread, NEW c \in Chunk, NEW i \in 1 .. sp, Alloc(t, c, i)
      PROVE  \E b \in Addr, o \in Obj \ made :
              /\ ~InUse(b) /\ b \notin Intact /\ Intact' = Intact \cup {b}
              /\ who' = [who EXCEPT ![b] = o] /\ kind' = [kind EXCEPT ![b] = Kind]
              /\ UNCHANGED <<field, forward>>
  <2>1. PICK b \in Addr, o \in NextObj, n \in Garbage \cup {num_indefinite[c]} : PlaceIn(b, c, "nursery", n) /\ InitAllocation(b, o)
    BY <1>1 DEF Alloc
  <2> QED
    BY <2>1, AllocEffect
<1>2. ASSUME NEW c \in Chunk, NEW i \in 1 .. sp, AllocBig(c, i)
      PROVE  \E b \in Addr, o \in Obj \ made :
              /\ ~InUse(b) /\ b \notin Intact /\ Intact' = Intact \cup {b}
              /\ who' = [who EXCEPT ![b] = o] /\ kind' = [kind EXCEPT ![b] = Kind]
              /\ UNCHANGED <<field, forward>>
  <2>1. PICK b \in Addr, o \in NextObj : PlaceIn(b, c, "big", 0) /\ InitAllocation(b, o)
    BY <1>2 DEF AllocBig
  <2> QED
    BY <2>1, AllocEffect
<1>3. ASSUME UNCHANGED <<kind, count, who, forward>> PROVE UNCHANGED <<Intact, kind, who, forward>>
  BY <1>3 DEF Intact, InUse
<1> QED
  BY <1>1, <1>2, <1>3
  DEF Program, SetFreeFunc, Load, Keep, StoreField, SetStore, Push, Pop, Exit, chunkVars, objVars

LEMMA CopyEffect ==
  ASSUME HeapInv, NEW a \in Addr, NEW c \in Chunk, Transplant(a, c)
  PROVE  \E b \in Addr :
           /\ ~InUse(b) /\ b \notin Intact /\ b # a /\ b[1] = c
           /\ Intact' = IF a \in Intact THEN Intact \cup {b} ELSE Intact
           /\ \A x \in Addr \ {b} : kind'[x] = kind[x] /\ who'[x] = who[x]
           /\ kind'[b] = kind[a] /\ who'[b] = who[a]
           /\ \A x \in Addr \ {a, b} : field'[x] = field[x]
           /\ field'[b] = field[a] /\ field'[a] = NoFields
           /\ \A x \in Addr \ {a} : forward'[x] = forward[x]
           /\ forward'[a] = b
           /\ \A d \in Chunk : space'[d] = IF d = c THEN TransplantTo ELSE space[d]
           /\ space[c] \in {"unused", TransplantTo}
           /\ free_func' = free_func \cup {b : x \in free_func \cap {a}}
<1> USE DEF Transplant, Copy, Visit
<1>1. PICK b \in Addr :
        /\ PlaceIn(b, c, TransplantTo, num_indefinite[c])
        /\ kind' = [kind EXCEPT ![b] = kind[a]]
        /\ who' = [who EXCEPT ![b] = who[a]]
        /\ field' = [field EXCEPT ![b] = field[a], ![a] = NoFields]
        /\ forward' = [forward EXCEPT ![a] = b]
        /\ free_func' = free_func \cup {b : x \in free_func \cap {a}}
  OBVIOUS
<1>2. /\ b[1] = c /\ ~InUse(b)
      /\ \A x \in Addr : x[2] <= count'[x[1]] <=> x[2] <= count[x[1]] \/ x = b
      /\ \A d \in Chunk : space'[d] = IF d = c THEN TransplantTo ELSE space[d]
  BY <1>1, Placing DEF HeapInv
<1>3. InUse(a) /\ b # a
  BY <1>2 DEF HeapInv, ChunksInv
<1>4. /\ \A x \in Addr : kind'[x] = IF x = b THEN kind[a] ELSE kind[x]
      /\ \A x \in Addr : who'[x] = IF x = b THEN who[a] ELSE who[x]
      /\ \A x \in Addr \ {a, b} : field'[x] = field[x]
      /\ field'[b] = field[a] /\ field'[a] = NoFields
      /\ \A x \in Addr : forward'[x] = IF x = a THEN b ELSE forward[x]
  BY <1>1, <1>3 DEF HeapInv, HeapTypes
<1>5. Intact' = IF a \in Intact THEN Intact \cup {b} ELSE Intact
  <2>1. \A x \in Addr : x \in Intact' <=> x \in Intact \/ (x = b /\ a \in Intact)
    BY <1>2, <1>3, <1>4 DEF Intact, InUse
  <2>2. Intact \subseteq Addr /\ Intact' \subseteq Addr
    BY DEF Intact
  <2> QED
    BY <2>1, <2>2
<1>6. space[c] \in {"unused", TransplantTo}
  BY DEF Fresh, WithRoom, In
<1>7. b \notin Intact
  BY <1>2 DEF Intact
<1> HIDE DEF Transplant, Copy, Visit
<1> WITNESS b \in Addr
<1> QED
  BY <1>1, <1>2, <1>3, <1>4, <1>5, <1>6, <1>7

\* Copying changes nothing else.
LEMMA CopyRest ==
  ASSUME HeapInv, NEW a \in Addr, NEW c \in Chunk, Transplant(a, c)
  PROVE  /\ a \in sweep /\ InUse(a) /\ a \in marked \ indefinite
         /\ sweep' = sweep \ {a} /\ transplanted' = transplanted \cup {a}
         /\ phase \in Sweeping
         /\ UNCHANGED <<regime, phase, collection, minors, nursery, num_indefinite, marked,
                        indefinite, rootVars, made, registered, calls>>
<1>1. num_indefinite' = num_indefinite
  <2>1. PICK b \in Addr : PlaceIn(b, c, TransplantTo, num_indefinite[c])
    BY DEF Transplant, Copy
  <2>2. num_indefinite' = [num_indefinite EXCEPT ![c] = num_indefinite[c]]
    BY <2>1 DEF PlaceIn
  <2> QED
    BY <2>2 DEF HeapInv, HeapTypes
<1> QED
  BY <1>1 DEF Transplant, Copy, Visit, HeapInv, ChunksInv, ghostVars

LEMMA FinalizeEffect ==
  ASSUME HeapInv, NEW a \in Addr, Finalize(a)
  PROVE  /\ a \in sweep /\ a \notin marked /\ InUse(a)
         /\ Intact' = Intact \ {a} /\ sweep' = sweep \ {a} /\ phase \in Sweeping
         /\ \A x \in Addr \ {a} : kind'[x] = kind[x] /\ field'[x] = field[x]
         /\ UNCHANGED <<regime, phase, collection, minors, chunkVars, who, forward, flagVars,
                        rootVars, made, registered>>
<1>1. \A x \in Addr : kind'[x] = IF x = a THEN "invalid" ELSE kind[x]
  BY DEF Finalize, HeapInv, HeapTypes
<1>2. Intact' = Intact \ {a}
  BY <1>1 DEF Finalize, Intact, InUse, chunkVars
<1> QED
  BY <1>1, <1>2 DEF Finalize, Visit, HeapInv, ChunksInv

\* What is left after heaps were given back is as it was.
LEMMA EraseEffect ==
  ASSUME HeapInv, NEW C, Erase(C)
  PROVE  /\ Intact' = {x \in Intact : x[1] \notin C}
         /\ \A x \in Addr : x[1] \notin C =>
              /\ kind'[x] = kind[x] /\ who'[x] = who[x]
              /\ field'[x] = field[x] /\ forward'[x] = forward[x]
         /\ free_func' = {x \in free_func : x[1] \notin C}
<1>1. \A x \in Addr : x[2] <= count'[x[1]] <=> x[2] <= count[x[1]] /\ x[1] \notin C
  BY Erasing DEF HeapInv
<1>2. \A x \in Addr : kind'[x] = IF x[1] \in C THEN "none" ELSE kind[x]
  BY DEF Erase
<1>3. Intact' = {x \in Intact : x[1] \notin C}
  BY <1>1, <1>2 DEF Intact, InUse
<1> QED
  BY <1>3 DEF Erase

LEMMA ResetEffect ==
  ASSUME HeapInv, ResetOrSave
  PROVE  /\ Erase({d \in Chunk : space[d] = "nursery" /\ num_indefinite[d] = 0})
         /\ \A d \in Chunk : space'[d] = IF space[d] # "nursery" THEN space[d]
                                         ELSE IF num_indefinite[d] > 0 THEN "unkillable"
                                         ELSE "released"
         /\ phase = "reset" /\ phase' = "invalidate"
         /\ UNCHANGED <<regime, collection, minors, sweep, num_indefinite, flagVars, rootVars,
                        ghostVars>>
<1>1. In("nursery") \ {c \in Chunk : num_indefinite[c] > 0}
        = {d \in Chunk : space[d] = "nursery" /\ num_indefinite[d] = 0}
  BY CollectorAssumption DEF In, HeapInv, HeapTypes
<1> QED
  BY <1>1 DEF ResetOrSave, Save

LEMMA InvalidateEffect ==
  ASSUME HeapInv, Invalidate
  PROVE  /\ Intact' = {x \in Intact : ~(x \in transplanted /\ space[x[1]] = "unkillable")}
         /\ \A x \in Intact' : kind'[x] = kind[x]
         /\ phase = "invalidate" /\ phase' = "clear"
         /\ UNCHANGED <<regime, collection, minors, sweep, chunkVars, who, field, forward,
                        free_func, flagVars, rootVars, ghostVars>>
<1>1. \A x \in Addr : kind'[x] = IF x \in transplanted /\ space[x[1]] = "unkillable"
                                THEN "invalid" ELSE kind[x]
  BY DEF Invalidate
<1>2. count' = count
  BY DEF Invalidate, chunkVars
<1>3. Intact' = {x \in Intact : ~(x \in transplanted /\ space[x[1]] = "unkillable")}
  BY <1>1, <1>2 DEF Intact, InUse
<1>4. \A x \in Intact' : kind'[x] = kind[x]
  BY <1>1, <1>3 DEF Intact
<1> QED
  BY <1>3, <1>4 DEF Invalidate

\* Where nothing happens to objects, they stay intact.
LEMMA IntactStays == ASSUME UNCHANGED <<kind, count>> PROVE Intact' = Intact
  BY DEF Intact, InUse

\* What is reachable by valid references from valid roots is intact.
LEMMA AllocatedIsIntact ==
  ASSUME HeapInv, NEW p \in Allocated, Valid(p)
  PROVE  p \in Intact
<1>1. p \in Addr /\ InUse(p) /\ kind[p] # "invalid"
  BY DEF Valid, Found, Allocated
<1> QED
  BY <1>1 DEF Intact, HeapInv, HeapTypes, ChunksInv

LEMMA RootsAreAllocated ==
  ASSUME HeapInv
  PROVE  /\ StackRoots \subseteq Allocated \ {None}
         /\ \A a \in Addr : Refers(a) \subseteq Allocated
<1>1. \A i \in 1 .. sp : i \in Slot
  BY CollectorAssumption DEF HeapInv, HeapTypes, Slot
<1>2. StackRoots \subseteq Allocated \ {None}
  BY <1>1 DEF StackRoots, HeapInv, PointersInv
<1>3. \A a \in Addr : Refers(a) \subseteq Allocated
  BY DEF Refers, HeapInv, PointersInv
<1> QED
  BY <1>2, <1>3

-----------------------------------------------------------------------------
(***************************************************************************)
(* CollectionInv is inductive                                              *)
(***************************************************************************)
\* Marking counts the words that refer to a heap.
LEMMA MarkCounts ==
  ASSUME CountersFit, HeapInv, CountersInv, Mark, NEW p \in indefinite'
  PROVE  num_indefinite'[p[1]] > 0
<1> DEFINE pinned == {q \in StackRoots : Valid(q)}
           here == {q \in pinned : q[1] = p[1]}
<1>1. p \in pinned
  BY DEF Mark, MarkFrom
<1>2. p[1] \in Chunk
  BY <1>1, RootsAreAllocated, AddrIsPair DEF Allocated
<1>3. num_indefinite'[p[1]] = (num_indefinite[p[1]] + Cardinality(here)) % Wrap
  BY <1>2 DEF Mark, MarkFrom
<1>4. p \in here /\ here \in SUBSET StackRoots
  BY <1>1
<1>5. Cardinality(here) \in 1 .. MaxSlots
  <2> HIDE DEF here
  <2>1. Cardinality(here) \in 0 .. MaxSlots /\ Cardinality(here) # 0
    BY <1>4, RootsAreFew DEF HeapInv
  <2> QED
    BY <2>1, CollectorAssumption
<1>6. phase = "mark" /\ num_indefinite[p[1]] \in Garbage \cup {0}
  BY <1>2 DEF Mark, MarkFrom, CountersInv, BeforeMark
<1>7. num_indefinite[p[1]] + MaxSlots < Wrap
  BY <1>6 DEF CountersFit
<1>8. num_indefinite[p[1]] \in Nat
  BY <1>2, CollectorAssumption DEF HeapInv, HeapTypes
<1>9. \A n, k, w \in Nat : k > 0 /\ n + k < w => (n + k) % w > 0
  OBVIOUS
<1> HIDE DEF here
<1> QED
  BY <1>3, <1>5, <1>7, <1>8, <1>9, CollectorAssumption

LEMMA CountersNext ==
  CountersFit /\ HeapInv /\ CollectionInv /\ [Next]_vars => CountersInv'
<1> SUFFICES ASSUME CountersFit, HeapInv, CollectionInv, [Next]_vars PROVE CountersInv'
  OBVIOUS
<1> USE DEF CountersInv, BeforeMark, CollectionInv
<1>a. PhaseInv /\ PhaseInv' /\ indefinite \subseteq Addr /\ 0 \in Garbage \cup {0}
  BY HeapInvNext DEF HeapInv, HeapTypes
<1>b. ASSUME UNCHANGED <<num_indefinite, indefinite, space>>,
             BeforeMark' => BeforeMark /\ collection' # "second" /\ collection # "second"
      PROVE  CountersInv'
  BY <1>b
<1>1. CASE Program
  <2>1. phase = "mutator" /\ phase' = "mutator" /\ collection' = collection /\ indefinite' = {}
    BY <1>1, ProgramStep DEF FlagsInv, flagVars
  <2>2. collection = "minor" /\ \A c \in Chunk : space'[c] # "graveyard"
    BY <1>a, <2>1 DEF PhaseInv, In
  <2> QED
    BY <1>1, <2>1, <2>2, ProgramStep
<1>2. CASE Collect
  BY <1>2, <1>a DEF Collect, PhaseInv, chunkVars, flagVars
<1>3. CASE Mark
  <2>1. \A p \in indefinite' : num_indefinite'[p[1]] > 0
    BY <1>3, MarkCounts
  <2>2. ~BeforeMark'
    BY <1>3 DEF Mark, MarkFrom
  <2>3. \A c \in Chunk : space'[c] # "graveyard"
    BY <1>3, <1>a DEF Mark, MarkFrom, PhaseInv, In
  <2> QED
    BY <2>1, <2>2, <2>3
<1>4. ASSUME NEW a \in Addr, Leave(a) PROVE CountersInv'
  <2>1. phase' = phase /\ phase \notin {"mutator", "mark"}
        /\ UNCHANGED <<num_indefinite, indefinite, space>>
    BY <1>4 DEF Leave, Visit, Sweeping, chunkVars, flagVars
  <2> QED
    BY <2>1
<1>5. ASSUME NEW a \in Addr, NEW c \in Chunk, Transplant(a, c) PROVE CountersInv'
  <2>1. phase' = phase /\ phase \notin {"mutator", "mark"} /\ UNCHANGED <<num_indefinite, indefinite>>
    BY <1>5, CopyRest DEF Sweeping
  <2>2. \A d \in Chunk : space'[d] = "graveyard" => space[d] = "graveyard"
    BY <1>5, CopyEffect DEF TransplantTo
  <2> QED
    BY <2>1, <2>2
<1>6. ASSUME NEW a \in Addr, Finalize(a) PROVE CountersInv'
  <2>1. phase' = phase /\ phase \notin {"mutator", "mark"}
        /\ UNCHANGED <<num_indefinite, indefinite, space>>
    BY <1>6, FinalizeEffect DEF Sweeping, chunkVars, flagVars
  <2> QED
    BY <2>1
<1>7. CASE SweptNurseries
  BY <1>7, <1>b DEF SweptNurseries, chunkVars, flagVars
<1>8. CASE SweptAdults
  BY <1>8 DEF SweptAdults, flagVars
<1>9. CASE SweptUnkillables
  BY <1>9 DEF SweptUnkillables, flagVars
<1>10. CASE UpdateRoots
  BY <1>10, <1>b DEF UpdateRoots, UpdateFieldsOf, chunkVars, flagVars
<1>11. CASE ResetOrSave
  <2>1. \A d \in Chunk : space'[d] = "graveyard" => space[d] = "graveyard"
    BY <1>11, ResetEffect
  <2> QED
    BY <1>11, <2>1, ResetEffect DEF flagVars
<1>12. CASE ScrapGraveyard
  BY <1>12 DEF ScrapGraveyard, Erase, flagVars
<1>13. CASE Invalidate
  BY <1>13, <1>b DEF Invalidate, chunkVars, flagVars
<1>14. CASE ClearFlags
  BY <1>14 DEF ClearFlags, EndWith
<1>15. CASE UNCHANGED vars
  BY <1>15 DEF vars, chunkVars, flagVars, gcVars
<1> QED
  BY <1>1, <1>2, <1>3, <1>4, <1>5, <1>6, <1>7, <1>8, <1>9, <1>10, <1>11, <1>12, <1>13,
     <1>14, <1>15
  DEF Next, Collection, Sweep

\* What marking marks is valid, and thus intact; a marked root is one of a stack.
LEMMA MarkMarks ==
  ASSUME HeapInv, Mark
  PROVE  /\ indefinite' = {p \in StackRoots : Valid(p)}
         /\ indefinite' \subseteq marked' /\ marked' \subseteq Intact
         /\ store # None /\ Valid(store) => store \in marked'
         /\ \A a \in marked' : \A p \in Refers(a) : Valid(p) => p \in marked'
<1> DEFINE roots == {p \in StackRoots \cup {store} : Valid(p)}
<1>1. indefinite' = {p \in StackRoots : Valid(p)}
  BY DEF Mark, MarkFrom
<1>2. {p \in StackRoots : Valid(p)} \cup {p \in {store} : Valid(p)} = roots
  OBVIOUS
<1>3. marked' = Closure(roots, ValidEdges)
  BY <1>2 DEF Mark, MarkFrom
<1>4. roots \subseteq Intact
  <2>1. store \in Allocated
    BY DEF HeapInv, PointersInv
  <2> QED
    BY <2>1, AllocatedIsIntact, RootsAreAllocated
<1>5. Intact \subseteq ObjectsIn(Chunk) /\ ObjectsIn(Chunk) \subseteq Addr
  BY AddrIsPair DEF Intact, InUse, ObjectsIn
<1>6. \A b \in Addr : ValidEdges[b] = {p \in Refers(b) : Valid(p)}
  BY DEF ValidEdges
<1>7. \A b \in Addr : ValidEdges[b] \subseteq Intact
  BY <1>6, AllocatedIsIntact, RootsAreAllocated
<1>8. marked' \subseteq Intact
  <2>1. \A b \in Intact : ValidEdges[b] \subseteq Intact
    BY <1>5, <1>7
  <2> HIDE DEF roots
  <2> QED
    BY <1>3, <1>4, <1>5, <2>1, ClosureIsLeast
<1>9. /\ roots \subseteq marked'
      /\ \A b \in marked' : ValidEdges[b] \subseteq marked'
  <2>1. roots \subseteq ObjectsIn(Chunk)
    BY <1>4, <1>5
  <2>2. \A b \in ObjectsIn(Chunk) : ValidEdges[b] \subseteq ObjectsIn(Chunk)
    BY <1>5, <1>7
  <2> HIDE DEF roots
  <2> QED
    BY <1>3, <2>1, <2>2, ClosureIsClosed
<1>10. \A a \in marked' : \A p \in Refers(a) : Valid(p) => p \in marked'
  BY <1>5, <1>6, <1>8, <1>9
<1> QED
  BY <1>1, <1>8, <1>9, <1>10

LEMMA FlagsNext == HeapInv /\ CollectionInv /\ [Next]_vars => FlagsInv'
<1> SUFFICES ASSUME HeapInv, CollectionInv, [Next]_vars PROVE FlagsInv'
  OBVIOUS
<1>a. /\ FlagsInv /\ SweepInv /\ CountersInv /\ PhaseInv
      /\ marked \subseteq Addr /\ indefinite \subseteq Addr /\ transplanted \subseteq Addr
  BY DEF CollectionInv, HeapInv, HeapTypes
<1>b. ASSUME UNCHANGED <<flagVars, stack, sp, Intact>>, BeforeMark' => BeforeMark
      PROVE  FlagsInv'
  BY <1>a, <1>b DEF FlagsInv, StackRoots, flagVars
<1>1. CASE Program
  <2>1. marked' = {} /\ indefinite' = {} /\ transplanted' = {}
    BY <1>1, <1>a, ProgramStep DEF FlagsInv, BeforeMark, flagVars
  <2> QED
    BY <2>1 DEF FlagsInv
<1>2. CASE Collect
  BY <1>2, <1>b, IntactStays DEF Collect, rootVars, objVars, chunkVars, BeforeMark
<1>3. CASE Mark
  <2>1. UNCHANGED <<stack, sp, transplanted, Intact>> /\ transplanted = {} /\ ~BeforeMark'
    BY <1>3, <1>a, IntactStays DEF Mark, MarkFrom, FlagsInv, BeforeMark, rootVars, objVars
  <2>2. \A p \in Intact : Valid(p)
    BY AddrIsPair, NoneIsNothing DEF Intact, InUse, Valid, Found, HeapInv, ChunksInv
  <2> QED
    BY <1>3, <2>1, <2>2, MarkMarks DEF FlagsInv, StackRoots
<1>4. ASSUME NEW a \in Addr, Leave(a) PROVE FlagsInv'
  <2> QED
    BY <1>4, <1>b, IntactStays DEF Leave, Visit, BeforeMark, Sweeping, flagVars, rootVars, objVars, chunkVars
<1>5. ASSUME NEW a \in Addr, NEW c \in Chunk, Transplant(a, c) PROVE FlagsInv'
  <2>1. /\ a \in marked \ indefinite /\ phase' = phase /\ phase \in Sweeping
        /\ transplanted' = transplanted \cup {a}
        /\ UNCHANGED <<marked, indefinite, stack, sp>>
    BY <1>5, CopyRest DEF rootVars
  <2>2. Intact \subseteq Intact'
    BY <1>5, CopyEffect
  <2> QED
    BY <1>a, <2>1, <2>2 DEF FlagsInv, BeforeMark, Sweeping, StackRoots
<1>6. ASSUME NEW a \in Addr, Finalize(a) PROVE FlagsInv'
  <2>1. /\ a \notin marked /\ phase' = phase
        /\ UNCHANGED <<marked, indefinite, transplanted, stack, sp>>
        /\ Intact' = Intact \ {a}
    BY <1>6, FinalizeEffect DEF rootVars, flagVars
  <2> QED
    BY <1>a, <2>1 DEF FlagsInv, BeforeMark, Sweeping, StackRoots
<1>7. CASE SweptNurseries
  BY <1>7, <1>b, IntactStays DEF SweptNurseries, rootVars, objVars, chunkVars, BeforeMark
<1>8. CASE SweptAdults
  BY <1>8, <1>b, IntactStays DEF SweptAdults, rootVars, objVars, chunkVars, BeforeMark
<1>9. CASE SweptUnkillables
  BY <1>9, <1>b, IntactStays DEF SweptUnkillables, rootVars, objVars, chunkVars, BeforeMark
<1>10. CASE UpdateRoots
  BY <1>10, <1>b, IntactStays DEF UpdateRoots, UpdateFieldsOf, rootVars, objVars, chunkVars,
     BeforeMark
<1>11. CASE ResetOrSave
  <2> DEFINE gone == {d \in Chunk : space[d] = "nursery" /\ num_indefinite[d] = 0}
  <2>1. /\ UNCHANGED <<marked, indefinite, transplanted, stack, sp>>
        /\ phase = "reset" /\ phase' = "invalidate"
        /\ Intact' = {x \in Intact : x[1] \notin gone}
    BY <1>11, ResetEffect, EraseEffect DEF rootVars, flagVars
  <2>2. sweep = {} /\ collection # "second"
    BY <1>a, <2>1 DEF PhaseInv, Sweeping
  <2>3. ASSUME NEW x \in Intact, x \notin transplanted, x[1] \in gone PROVE x \notin marked
    <3>1. x[1] \in Swept
      BY <2>2, <2>3 DEF Swept
    <3>2. x \in indefinite
      BY <1>a, <2>1, <2>2, <2>3, <3>1 DEF SweepInv
    <3>3. num_indefinite[x[1]] = 0 /\ num_indefinite[x[1]] > 0
      BY <1>a, <2>3, <3>2 DEF CountersInv
    <3> QED
      BY <3>3
  <2>4. marked' \ transplanted' \subseteq Intact'
    BY <1>a, <2>1, <2>3 DEF FlagsInv
  <2> QED
    BY <1>a, <2>1, <2>4 DEF FlagsInv, BeforeMark, StackRoots
<1>12. CASE ScrapGraveyard
  <2> DEFINE gone == In("graveyard")
  <2>1. /\ UNCHANGED <<marked, indefinite, transplanted, stack, sp>>
        /\ phase = "scrap" /\ phase' = "invalidate"
        /\ Intact' = {x \in Intact : x[1] \notin gone}
    BY <1>12, EraseEffect DEF ScrapGraveyard, rootVars, flagVars
  <2>2. sweep = {} /\ collection = "second"
    BY <1>a, <2>1 DEF PhaseInv, Sweeping
  <2>3. ASSUME NEW x \in Intact, x \notin transplanted, x[1] \in gone PROVE x \notin marked
    <3>1. x[1] \in Swept /\ x[1] \in Chunk
      BY <2>2, <2>3 DEF Swept, In
    <3>2. x \in indefinite
      BY <1>a, <2>1, <2>2, <2>3, <3>1 DEF SweepInv
    <3>3. num_indefinite[x[1]] = 0 /\ num_indefinite[x[1]] > 0
      BY <1>a, <2>3, <3>1, <3>2 DEF CountersInv, In
    <3> QED
      BY <3>3
  <2>4. marked' \ transplanted' \subseteq Intact'
    BY <1>a, <2>1, <2>3 DEF FlagsInv
  <2> QED
    BY <1>a, <2>1, <2>4 DEF FlagsInv, BeforeMark, StackRoots
<1>13. CASE Invalidate
  <2>1. UNCHANGED <<marked, indefinite, transplanted, stack, sp>> /\ phase' = "clear"
        /\ Intact \ transplanted \subseteq Intact'
    BY <1>13, InvalidateEffect DEF rootVars, flagVars
  <2> QED
    BY <1>a, <2>1 DEF FlagsInv, BeforeMark, StackRoots
<1>14. CASE ClearFlags
  BY <1>14 DEF ClearFlags, EndWith, FlagsInv
<1>15. CASE UNCHANGED vars
  BY <1>15, <1>b, IntactStays DEF vars, rootVars, objVars, chunkVars, gcVars, BeforeMark
<1> QED
  BY <1>1, <1>2, <1>3, <1>4, <1>5, <1>6, <1>7, <1>8, <1>9, <1>10, <1>11, <1>12, <1>13,
     <1>14, <1>15
  DEF Next, Collection, Sweep

LEMMA ForwardNext == HeapInv /\ CollectionInv /\ [Next]_vars => ForwardInv'
<1> SUFFICES ASSUME HeapInv, CollectionInv, [Next]_vars PROVE ForwardInv'
  OBVIOUS
<1>a. /\ ForwardInv /\ FlagsInv /\ SweepInv /\ CountersInv /\ PhaseInv /\ ChunksInv
      /\ transplanted \subseteq Addr /\ marked \subseteq Addr
      /\ phase \in Phases /\ forward \in [Addr -> Pointer]
  BY DEF CollectionInv, HeapInv, HeapTypes
<1>b. ASSUME transplanted' = {} PROVE ForwardInv'
  BY <1>b DEF ForwardInv
<1>c. \A x \in Intact : x \in Addr /\ x[1] \in Chunk
  BY AddrIsPair DEF Intact
\* Nothing happened to the copies, and their heaps have the names of the new phase.
<1>d. ASSUME /\ UNCHANGED <<transplanted, forward, who, marked, Intact>>
             /\ phase \in Sweeping \cup {"update"} /\ phase' \notin {"invalidate", "clear"}
             /\ \A d \in Swept : d \in Swept'
             /\ \A d \in Chunk :
                  space[d] = (IF phase = "sweep_adults" THEN "new_adult" ELSE "adult") =>
                  space'[d] = (IF phase' = "sweep_adults" THEN "new_adult" ELSE "adult")
      PROVE  ForwardInv'
  BY <1>a, <1>c, <1>d DEF ForwardInv
<1>1. CASE Program
  <2> QED
    BY <1>1, <1>a, <1>b, ProgramStep DEF FlagsInv, BeforeMark, flagVars
<1>2. CASE Collect
  <2> QED
    BY <1>2, <1>a, <1>b DEF Collect, FlagsInv, BeforeMark, flagVars
<1>3. CASE Mark
  <2> QED
    BY <1>3, <1>a, <1>b DEF Mark, MarkFrom, FlagsInv, BeforeMark
<1>4. ASSUME NEW a \in Addr, Leave(a) PROVE ForwardInv'
  <2>1. UNCHANGED <<phase, collection, transplanted, forward, who, marked, Intact, space>>
        /\ phase \in Sweeping
    BY <1>4, IntactStays DEF Leave, Visit, flagVars, objVars, chunkVars
  <2>2. Swept' = Swept
    BY <2>1 DEF Swept
  <2> QED
    BY <1>d, <2>1, <2>2 DEF Sweeping
<1>5. ASSUME NEW a \in Addr, NEW c \in Chunk, Transplant(a, c) PROVE ForwardInv'
  <2>1. PICK b \in Addr :
          /\ ~InUse(b) /\ b \notin Intact /\ b # a /\ b[1] = c
          /\ Intact' = IF a \in Intact THEN Intact \cup {b} ELSE Intact
          /\ \A x \in Addr \ {b} : who'[x] = who[x]
          /\ who'[b] = who[a]
          /\ \A x \in Addr \ {a} : forward'[x] = forward[x]
          /\ forward'[a] = b
          /\ \A d \in Chunk : space'[d] = IF d = c THEN TransplantTo ELSE space[d]
          /\ space[c] \in {"unused", TransplantTo}
    BY <1>5, CopyEffect
  <2>2. /\ a \in sweep /\ a \in marked \ indefinite
        /\ transplanted' = transplanted \cup {a} /\ phase \in Sweeping
        /\ UNCHANGED <<phase, collection, marked>>
    BY <1>5, CopyRest
  <2>3. a \in Intact /\ a \notin transplanted
    BY <1>a, <2>2 DEF FlagsInv, SweepInv
  <2>4. a[1] \in Swept
    BY <1>a, <1>c, <2>2, <2>3 DEF SweepInv, Swept, PhaseInv, Sweeping
  <2>5. \A d \in Swept : d \in Swept' /\ d # c
    BY <2>1, <2>2, <1>a DEF Swept, TransplantTo, PhaseInv, Sweeping
  <2>6. b \notin marked
    BY <1>a, <2>1, <2>2 DEF FlagsInv, ForwardInv
  <2>7. TransplantTo = IF phase = "sweep_adults" THEN "new_adult" ELSE "adult"
    BY DEF TransplantTo
  <2>8. ASSUME NEW x \in transplanted'
        PROVE  /\ x \in Intact' /\ x[1] \in Swept' /\ forward'[x] \in Intact' \ marked'
               /\ space'[forward'[x][1]] = (IF phase' = "sweep_adults" THEN "new_adult" ELSE "adult")
               /\ who'[forward'[x]] = who'[x]
    <3>1. CASE x = a
      BY <1>c, <2>1, <2>2, <2>3, <2>4, <2>5, <2>6, <2>7, <3>1
    <3>2. CASE x # a
      <4>1. /\ x \in Intact /\ x[1] \in Swept /\ forward[x] \in Intact \ marked
            /\ space[forward[x][1]] = (IF phase = "sweep_adults" THEN "new_adult" ELSE "adult")
            /\ who[forward[x]] = who[x]
        BY <1>a, <2>2, <3>2 DEF ForwardInv
      <4>2. x \in Addr /\ forward[x] \in Addr /\ forward[x][1] \in Chunk
        BY <1>c, <4>1
      <4>3. forward'[x] = forward[x] /\ x # b /\ forward[x] # b
        BY <2>1, <3>2, <4>1, <4>2
      <4>4. who'[forward[x]] = who'[x]
        BY <2>1, <4>1, <4>2, <4>3
      <4>5. space'[forward[x][1]] = space[forward[x][1]]
        BY <2>1, <2>7, <4>1, <4>2
      <4> QED
        BY <2>1, <2>2, <2>5, <4>1, <4>3, <4>4, <4>5
    <3> QED
      BY <3>1, <3>2
  <2> QED
    BY <2>2, <2>8 DEF ForwardInv, Sweeping
<1>6. ASSUME NEW a \in Addr, Finalize(a) PROVE ForwardInv'
  <2>1. /\ UNCHANGED <<phase, collection, transplanted, forward, who, marked, space>>
        /\ phase \in Sweeping /\ Intact' = Intact \ {a} /\ a \in sweep /\ a \notin marked
    BY <1>6, FinalizeEffect DEF flagVars, chunkVars
  <2>2. Swept' = Swept
    BY <2>1 DEF Swept
  <2>3. \A x \in transplanted : x # a /\ forward[x] # a
    BY <1>a, <2>1 DEF FlagsInv, ForwardInv, SweepInv, Sweeping
  <2> QED
    BY <1>a, <2>1, <2>2, <2>3 DEF ForwardInv, Sweeping
<1>7. CASE SweptNurseries
  <2>1. UNCHANGED <<collection, transplanted, forward, who, marked, Intact, space>>
        /\ phase = "sweep_nurseries" /\ phase' = "update"
    BY <1>7, IntactStays DEF SweptNurseries, flagVars, objVars, chunkVars
  <2>2. Swept' = Swept
    BY <1>a, <2>1 DEF Swept, PhaseInv
  <2> QED
    BY <1>d, <2>1, <2>2 DEF Sweeping
<1>8. CASE SweptAdults
  <2>1. UNCHANGED <<collection, transplanted, forward, who, marked, Intact>>
        /\ phase = "sweep_adults" /\ phase' = "sweep_unkillables"
    BY <1>8, IntactStays DEF SweptAdults, flagVars, objVars
  <2>2. \A d \in Chunk :
          space'[d] = CASE space[d] = "new_adult" -> "adult"
                        [] space[d] = "adult" /\ num_indefinite[d] > 0 -> "new_unkillable"
                        [] space[d] = "adult" /\ num_indefinite[d] = 0 -> "graveyard"
                        [] OTHER -> space[d]
    BY <1>8 DEF SweptAdults
  <2>3. \A d \in Chunk : num_indefinite[d] > 0 \/ num_indefinite[d] = 0
    BY CollectorAssumption DEF HeapInv, HeapTypes
  <2>4. \A d \in Swept : d \in Swept'
    BY <1>a, <2>1, <2>2, <2>3 DEF Swept, PhaseInv
  <2> QED
    BY <1>d, <2>1, <2>2, <2>4 DEF Sweeping
<1>9. CASE SweptUnkillables
  <2>1. UNCHANGED <<collection, transplanted, forward, who, marked, Intact>>
        /\ phase = "sweep_unkillables" /\ phase' = "update"
    BY <1>9, IntactStays DEF SweptUnkillables, flagVars, objVars
  <2>2. \A d \in Chunk :
          space'[d] = CASE space[d] = "new_unkillable" -> "unkillable"
                        [] space[d] = "unkillable" /\ num_indefinite[d] = 0 -> "graveyard"
                        [] OTHER -> space[d]
    BY <1>9 DEF SweptUnkillables
  <2>4. \A d \in Swept : d \in Swept'
    BY <1>a, <2>1, <2>2 DEF Swept, PhaseInv
  <2> QED
    BY <1>d, <2>1, <2>2, <2>4 DEF Sweeping
<1>10. CASE UpdateRoots
  <2>1. UNCHANGED <<collection, transplanted, forward, who, marked, Intact, space>>
        /\ phase = "update" /\ phase' \in {"trapped", "scrap", "reset"}
        /\ (phase' = "reset" => collection # "second")
    BY <1>10, IntactStays DEF UpdateRoots, UpdateFieldsOf, flagVars, chunkVars
  <2>2. \A d \in Swept : d \in Swept'
    BY <1>a, <2>1 DEF Swept, PhaseInv
  <2> QED
    BY <1>d, <2>1, <2>2
<1>11. CASE ResetOrSave
  <2> DEFINE gone == {d \in Chunk : space[d] = "nursery" /\ num_indefinite[d] = 0}
  <2>1. /\ transplanted' = transplanted /\ phase = "reset" /\ phase' = "invalidate"
        /\ Intact' = {x \in Intact : x[1] \notin gone}
        /\ \A d \in Chunk : space'[d] = IF space[d] # "nursery" THEN space[d]
                                         ELSE IF num_indefinite[d] > 0 THEN "unkillable"
                                         ELSE "released"
    BY <1>11, ResetEffect, EraseEffect DEF flagVars
  <2>2. \A x \in transplanted : x \in Intact /\ x[1] \in Swept
    BY <1>a, <2>1 DEF ForwardInv
  <2>3. \A d \in Swept : space[d] = "nursery"
    BY <1>a, <2>1 DEF Swept, PhaseInv
  <2>4. \A d \in Chunk : num_indefinite[d] > 0 \/ num_indefinite[d] = 0
    BY CollectorAssumption DEF HeapInv, HeapTypes
  <2>5. \A x \in transplanted : x \in Intact' => space'[x[1]] = "unkillable"
    BY <1>c, <2>1, <2>2, <2>3, <2>4
  <2> QED
    BY <2>1, <2>5 DEF ForwardInv, Sweeping
<1>12. CASE ScrapGraveyard
  <2> DEFINE gone == In("graveyard")
  <2>1. /\ transplanted' = transplanted /\ phase = "scrap" /\ phase' = "invalidate"
        /\ Intact' = {x \in Intact : x[1] \notin gone}
        /\ \A d \in Chunk : space'[d] = IF space[d] = "graveyard" THEN "released" ELSE space[d]
    BY <1>12, EraseEffect DEF ScrapGraveyard, flagVars
  <2>2. \A x \in transplanted : x \in Intact /\ x[1] \in Swept
    BY <1>a, <2>1 DEF ForwardInv
  <2>3. \A d \in Swept : space[d] \in {"graveyard", "unkillable"}
    BY <1>a, <2>1 DEF Swept, PhaseInv, In
  <2>5. \A x \in transplanted : x \in Intact' => space'[x[1]] = "unkillable"
    BY <1>c, <2>1, <2>2, <2>3 DEF In
  <2> QED
    BY <2>1, <2>5 DEF ForwardInv, Sweeping
<1>13. CASE Invalidate
  <2>1. /\ transplanted' = transplanted /\ phase = "invalidate" /\ phase' = "clear"
        /\ Intact' = {x \in Intact : ~(x \in transplanted /\ space[x[1]] = "unkillable")}
    BY <1>13, InvalidateEffect DEF flagVars
  <2> QED
    BY <1>a, <2>1 DEF ForwardInv, Sweeping
<1>14. CASE ClearFlags
  <2> QED
    BY <1>14, <1>b DEF ClearFlags, EndWith
<1>15. CASE UNCHANGED vars
  <2>1. UNCHANGED <<phase, collection, transplanted, forward, who, marked, Intact, space, Swept>>
    BY <1>15, IntactStays DEF vars, flagVars, objVars, chunkVars, gcVars, Swept
  <2> QED
    BY <1>a, <2>1 DEF ForwardInv
<1> QED
  BY <1>1, <1>2, <1>3, <1>4, <1>5, <1>6, <1>7, <1>8, <1>9, <1>10, <1>11, <1>12, <1>13,
     <1>14, <1>15
  DEF Next, Collection, Sweep

LEMMA SweepNext == HeapInv /\ CollectionInv /\ [Next]_vars => SweepInv'
<1> SUFFICES ASSUME HeapInv, CollectionInv, [Next]_vars PROVE SweepInv'
  OBVIOUS
<1>a. /\ FlagsInv /\ SweepInv /\ PhaseInv /\ PhaseInv' /\ ChunksInv
      /\ sweep \subseteq Addr
  BY HeapInvNext DEF CollectionInv, HeapInv, HeapTypes
<1>c. \A x \in Intact : x \in Addr /\ x[1] \in Chunk
  BY AddrIsPair DEF Intact
<1>d. ASSUME sweep' = {}, phase' \notin Sweeping \cup {"update", "reset", "scrap", "trapped"}
      PROVE  SweepInv'
  BY <1>d DEF SweepInv
<1>1. CASE Program
  <2>1. phase' = "mutator" /\ sweep' = {}
    BY <1>1, <1>a, ProgramStep DEF PhaseInv, Sweeping
  <2> QED
    BY <1>d, <2>1 DEF Sweeping
<1>2. CASE Collect
  <2>1. phase' = "mark" /\ sweep' = {}
    BY <1>2, <1>a DEF Collect, PhaseInv, Sweeping
  <2> QED
    BY <1>d, <2>1 DEF Sweeping
<1>3. CASE Mark
  <2>1. /\ transplanted' = {} /\ UNCHANGED <<space, collection, Intact>> /\ phase = "mark"
        /\ phase' = IF collection = "second" THEN "sweep_adults" ELSE "sweep_nurseries"
        /\ sweep' = IF collection = "second" THEN ObjectsIn(In("adult")) ELSE ObjectsIn(In("nursery"))
    BY <1>3, <1>a, IntactStays DEF Mark, MarkFrom, FlagsInv, BeforeMark, objVars
  <2>2. \A L : \A x \in ObjectsIn(In(L)) : space[x[1]] = L
    BY DEF ObjectsIn, In
  <2>3. \A x \in Intact : \A L : space[x[1]] = L => x \in ObjectsIn(In(L))
    BY <1>c DEF ObjectsIn, In, Intact, InUse
  <2>4. \A x \in Intact : x[1] \in Swept' => x \in sweep'
    BY <1>a, <2>1, <2>3 DEF Swept, PhaseInv, In
  <2> QED
    BY <2>1, <2>2, <2>4 DEF SweepInv, Sweeping
<1>4. ASSUME NEW a \in Addr, Leave(a) PROVE SweepInv'
  <2>1. /\ UNCHANGED <<phase, collection, transplanted, indefinite, space, Intact>>
        /\ sweep' = sweep \ {a} /\ a \in indefinite
    BY <1>4, IntactStays DEF Leave, Visit, chunkVars, objVars, flagVars
  <2>2. Swept' = Swept
    BY <2>1 DEF Swept
  <2> QED
    BY <1>a, <2>1, <2>2 DEF SweepInv
<1>5. ASSUME NEW a \in Addr, NEW c \in Chunk, Transplant(a, c) PROVE SweepInv'
  <2>1. PICK b \in Addr :
          /\ ~InUse(b) /\ b # a /\ b[1] = c
          /\ Intact' = IF a \in Intact THEN Intact \cup {b} ELSE Intact
          /\ \A d \in Chunk : space'[d] = IF d = c THEN TransplantTo ELSE space[d]
          /\ space[c] \in {"unused", TransplantTo}
    BY <1>5, CopyEffect
  <2>2. /\ sweep' = sweep \ {a} /\ transplanted' = transplanted \cup {a} /\ phase \in Sweeping
        /\ UNCHANGED <<phase, collection, indefinite>>
    BY <1>5, CopyRest
  <2>3. c \notin Swept' /\ Swept' \subseteq Swept
    BY <1>a, <2>1, <2>2 DEF Swept, TransplantTo, PhaseInv, Sweeping
  <2>4. \A x \in sweep : x[1] \in Chunk /\ (x[1] # c \/ space[x[1]] = space'[x[1]])
    <3>1. \A x \in sweep : x[1] \in Chunk /\ space[x[1]] # "unused"
      BY <1>a, <2>2, AddrIsPair DEF SweepInv, Sweeping
    <3> QED
      BY <2>1, <3>1
  <2>5. \A x \in sweep : space'[x[1]] = space[x[1]]
    BY <2>1, <2>4
  <2> QED
    BY <1>a, <1>c, <2>1, <2>2, <2>3, <2>5 DEF SweepInv
<1>6. ASSUME NEW a \in Addr, Finalize(a) PROVE SweepInv'
  <2>1. /\ UNCHANGED <<phase, collection, transplanted, indefinite, space>>
        /\ sweep' = sweep \ {a} /\ Intact' = Intact \ {a}
    BY <1>6, FinalizeEffect DEF chunkVars, flagVars
  <2>2. Swept' = Swept
    BY <2>1 DEF Swept
  <2> QED
    BY <1>a, <2>1, <2>2 DEF SweepInv
<1>7. CASE SweptNurseries
  <2>1. UNCHANGED <<collection, transplanted, indefinite, Intact, space>> /\ sweep = {} /\ sweep' = {}
        /\ phase = "sweep_nurseries" /\ phase' = "update"
    BY <1>7, IntactStays DEF SweptNurseries, flagVars, objVars, chunkVars
  <2>2. Swept' = Swept
    BY <1>a, <2>1 DEF Swept, PhaseInv
  <2> QED
    BY <1>a, <2>1, <2>2 DEF SweepInv, Sweeping
<1>8. CASE SweptAdults
  <2>1. UNCHANGED <<collection, transplanted, indefinite, Intact>> /\ sweep = {}
        /\ phase = "sweep_adults" /\ phase' = "sweep_unkillables" /\ collection = "second"
        /\ sweep' = ObjectsIn(In("unkillable"))
    BY <1>8, <1>a, IntactStays DEF SweptAdults, flagVars, objVars, PhaseInv
  <2>2. \A d \in Chunk :
          space'[d] = CASE space[d] = "new_adult" -> "adult"
                        [] space[d] = "adult" /\ num_indefinite[d] > 0 -> "new_unkillable"
                        [] space[d] = "adult" /\ num_indefinite[d] = 0 -> "graveyard"
                        [] OTHER -> space[d]
    BY <1>8 DEF SweptAdults
  <2>3. \A d \in Swept' : d \in Swept \/ space[d] = "unkillable"
    BY <1>a, <2>1, <2>2 DEF Swept, PhaseInv, In
  <2>4. \A x \in sweep' : space'[x[1]] = "unkillable" /\ InUse(x) /\ x \in Addr
    BY <2>1, <2>2 DEF ObjectsIn, In, InUse
  <2>5. \A x \in Intact : space[x[1]] = "unkillable" => x \in sweep'
    BY <1>c, <2>1 DEF ObjectsIn, In, Intact, InUse
  <2>6. \A x \in transplanted : x \in Intact /\ x[1] \in Swept
    BY <2>1 DEF CollectionInv, ForwardInv, Sweeping
  <2>7. \A x \in sweep' : x \notin transplanted
    BY <1>c, <2>1, <2>6 DEF Swept, ObjectsIn, In
  <2>8. \A x \in Intact \ (sweep' \cup transplanted) : x[1] \in Swept' => x \in indefinite
    BY <1>a, <2>1, <2>3, <2>5 DEF SweepInv, Sweeping
  <2> QED
    BY <2>1, <2>4, <2>7, <2>8 DEF SweepInv
<1>9. CASE SweptUnkillables
  <2>1. UNCHANGED <<collection, transplanted, indefinite, Intact>> /\ sweep = {} /\ sweep' = {}
        /\ phase = "sweep_unkillables" /\ phase' = "update" /\ collection = "second"
    BY <1>9, <1>a, IntactStays DEF SweptUnkillables, flagVars, objVars, PhaseInv
  <2>2. \A d \in Chunk :
          space'[d] = CASE space[d] = "new_unkillable" -> "unkillable"
                        [] space[d] = "unkillable" /\ num_indefinite[d] = 0 -> "graveyard"
                        [] OTHER -> space[d]
    BY <1>9 DEF SweptUnkillables
  <2>3. \A d \in Swept' : d \in Swept
    BY <1>a, <2>1, <2>2 DEF Swept, PhaseInv, In
  <2> QED
    BY <1>a, <2>1, <2>3 DEF SweepInv, Sweeping
<1>10. CASE UpdateRoots
  <2>1. UNCHANGED <<collection, transplanted, indefinite, Intact, space>> /\ sweep' = sweep
        /\ phase = "update" /\ phase' \in {"trapped", "scrap", "reset"}
    BY <1>10, IntactStays DEF UpdateRoots, UpdateFieldsOf, flagVars, chunkVars
  <2>2. Swept' \subseteq Swept /\ sweep = {}
    BY <1>a, <2>1 DEF Swept, PhaseInv, Sweeping
  <2> QED
    BY <1>a, <2>1, <2>2 DEF SweepInv, Sweeping
<1>11. CASE ResetOrSave
  <2>1. phase' = "invalidate" /\ sweep' = {}
    BY <1>11, <1>a, ResetEffect DEF PhaseInv, Sweeping
  <2> QED
    BY <1>d, <2>1 DEF Sweeping
<1>12. CASE ScrapGraveyard
  <2>1. phase' = "invalidate" /\ sweep' = {}
    BY <1>12, <1>a DEF ScrapGraveyard, PhaseInv, Sweeping
  <2> QED
    BY <1>d, <2>1 DEF Sweeping
<1>13. CASE Invalidate
  <2>1. phase' = "clear" /\ sweep' = {}
    BY <1>13, <1>a DEF Invalidate, PhaseInv, Sweeping
  <2> QED
    BY <1>d, <2>1 DEF Sweeping
<1>14. CASE ClearFlags
  <2>1. phase' \in {"mark", "mutator"} /\ sweep' = {}
    BY <1>14, <1>a DEF ClearFlags, EndWith, PhaseInv, Sweeping
  <2> QED
    BY <1>d, <2>1 DEF Sweeping
<1>15. CASE UNCHANGED vars
  <2>1. UNCHANGED <<phase, collection, transplanted, indefinite, Intact, space, sweep, Swept>>
    BY <1>15, IntactStays DEF vars, flagVars, objVars, chunkVars, gcVars, Swept
  <2> QED
    BY <1>a, <2>1 DEF SweepInv
<1> QED
  BY <1>1, <1>2, <1>3, <1>4, <1>5, <1>6, <1>7, <1>8, <1>9, <1>10, <1>11, <1>12, <1>13,
     <1>14, <1>15
  DEF Next, Collection, Sweep

LEMMA OneCopyNext == HeapInv /\ CollectionInv /\ [Next]_vars => OneCopy'
<1> SUFFICES ASSUME HeapInv, CollectionInv, [Next]_vars PROVE OneCopy'
  OBVIOUS
<1>a. OneCopy /\ FlagsInv /\ ForwardInv /\ ChunksInv /\ PhaseInv
  BY DEF CollectionInv, HeapInv
<1>b. ASSUME Intact' \subseteq Intact, transplanted' = transplanted,
             \A x \in Intact' : who'[x] = who[x]
      PROVE  OneCopy'
  BY <1>a, <1>b DEF OneCopy
<1>1. CASE Program
  <2>1. transplanted' = transplanted /\ transplanted = {}
    BY <1>1, <1>a, ProgramStep DEF FlagsInv, BeforeMark, flagVars
  <2>2. CASE UNCHANGED <<Intact, kind, who, forward>>
    BY <1>b, <2>1, <2>2
  <2>3. CASE \E b \in Addr, o \in Obj \ made :
               /\ b \notin Intact /\ Intact' = Intact \cup {b}
               /\ who' = [who EXCEPT ![b] = o]
    <3>1. PICK b \in Addr, o \in Obj \ made :
            b \notin Intact /\ Intact' = Intact \cup {b} /\ who' = [who EXCEPT ![b] = o]
      BY <2>3
    <3>2. who'[b] = o /\ \A x \in Intact : who'[x] = who[x] /\ who[x] # o
      BY <1>a, <3>1 DEF Intact, ChunksInv, HeapInv, HeapTypes
    <3> QED
      BY <1>a, <2>1, <3>1, <3>2 DEF OneCopy
  <2> QED
    BY <1>1, <2>2, <2>3, ProgramObjects
<1>2. CASE Collect
  BY <1>2, <1>b, IntactStays DEF Collect, objVars, chunkVars, flagVars
<1>3. CASE Mark
  <2> QED
    BY <1>3, <1>b, IntactStays DEF Mark, MarkFrom, objVars
<1>4. ASSUME NEW a \in Addr, Leave(a) PROVE OneCopy'
  BY <1>4, <1>b, IntactStays DEF Leave, Visit, objVars, chunkVars, flagVars
<1>5. ASSUME NEW a \in Addr, NEW c \in Chunk, Transplant(a, c) PROVE OneCopy'
  <2>1. PICK b \in Addr :
          /\ b \notin Intact /\ b # a
          /\ Intact' = IF a \in Intact THEN Intact \cup {b} ELSE Intact
          /\ \A x \in Addr \ {b} : who'[x] = who[x]
          /\ who'[b] = who[a]
    BY <1>5, CopyEffect
  <2>2. transplanted' = transplanted \cup {a} /\ a \in sweep /\ a \in marked /\ Intact \subseteq Addr
    BY <1>5, CopyRest DEF Intact
  <2>3. a \notin transplanted
    BY <2>2 DEF CollectionInv, SweepInv
  <2>4. \A x \in Intact : who'[x] = who[x]
    BY <2>1, <2>2
  <2> QED
    BY <1>a, <2>1, <2>2, <2>3, <2>4 DEF OneCopy
<1>6. ASSUME NEW a \in Addr, Finalize(a) PROVE OneCopy'
  <2> QED
    BY <1>6, <1>b, FinalizeEffect DEF flagVars
<1>7. CASE SweptNurseries
  BY <1>7, <1>b, IntactStays DEF SweptNurseries, objVars, chunkVars, flagVars
<1>8. CASE SweptAdults
  BY <1>8, <1>b, IntactStays DEF SweptAdults, objVars, chunkVars, flagVars
<1>9. CASE SweptUnkillables
  BY <1>9, <1>b, IntactStays DEF SweptUnkillables, objVars, chunkVars, flagVars
<1>10. CASE UpdateRoots
  BY <1>10, <1>b, IntactStays DEF UpdateRoots, UpdateFieldsOf, objVars, chunkVars, flagVars
<1>11. CASE ResetOrSave
  <2> DEFINE gone == {d \in Chunk : space[d] = "nursery" /\ num_indefinite[d] = 0}
  <2>1. Erase(gone) /\ transplanted' = transplanted
    BY <1>11, ResetEffect DEF flagVars
  <2> HIDE DEF gone
  <2>2. Intact' \subseteq Intact /\ \A x \in Intact' : who'[x] = who[x]
    BY <2>1, EraseEffect DEF Intact
  <2> QED
    BY <1>b, <2>1, <2>2
<1>12. CASE ScrapGraveyard
  <2>1. Erase(In("graveyard")) /\ transplanted' = transplanted
    BY <1>12 DEF ScrapGraveyard, flagVars
  <2>2. Intact' \subseteq Intact /\ \A x \in Intact' : who'[x] = who[x]
    BY <2>1, EraseEffect DEF Intact
  <2> QED
    BY <1>b, <2>1, <2>2
<1>13. CASE Invalidate
  <2> QED
    BY <1>13, <1>b, InvalidateEffect DEF flagVars
<1>14. CASE ClearFlags
  <2>1. Intact' = Intact /\ who' = who /\ transplanted' = {} /\ phase = "clear"
    BY <1>14, IntactStays DEF ClearFlags, EndWith, objVars
  <2>2. \A x \in transplanted : x \notin Intact
    BY <1>a, <2>1 DEF ForwardInv
  <2> QED
    BY <1>a, <2>1, <2>2 DEF OneCopy
<1>15. CASE UNCHANGED vars
  BY <1>15, <1>b, IntactStays DEF vars, objVars, chunkVars, flagVars
<1> QED
  BY <1>1, <1>2, <1>3, <1>4, <1>5, <1>6, <1>7, <1>8, <1>9, <1>10, <1>11, <1>12, <1>13,
     <1>14, <1>15
  DEF Next, Collection, Sweep

LEMMA CollectionNext ==
  CountersFit /\ HeapInv /\ CollectionInv /\ [Next]_vars => CollectionInv'
  BY CountersNext, FlagsNext, ForwardNext, SweepNext, OneCopyNext DEF CollectionInv

LEMMA CollectionInit == Init => CollectionInv
<1> SUFFICES ASSUME Init PROVE CollectionInv
  OBVIOUS
<1>1. Intact = {}
  BY DEF Init, Intact
<1>2. CountersInv /\ FlagsInv /\ ForwardInv /\ SweepInv /\ OneCopy
  BY <1>1 DEF Init, CountersInv, FlagsInv, ForwardInv, SweepInv, OneCopy, BeforeMark, Sweeping,
       StackRoots
<1> QED
  BY <1>2 DEF CollectionInv

-----------------------------------------------------------------------------
(***************************************************************************)
(* GraphInv is inductive                                                   *)
(***************************************************************************)
LEMMA IntactIsValid ==
  ASSUME HeapInv
  PROVE  /\ Intact \subseteq Addr /\ Intact \subseteq ObjectsIn(Chunk)
         /\ \A p \in Intact : Valid(p) /\ Found(p)
         /\ ObjectsIn(Chunk) \subseteq Addr
  BY AddrIsPair, NoneIsNothing
  DEF Intact, InUse, ObjectsIn, Valid, Found, HeapInv, ChunksInv

\* What is neither left behind nor garbage is in a heap that stays.
LEMMA ResetKeeps ==
  ASSUME HeapInv, CollectionInv, ResetOrSave
  PROVE  /\ Intact \ transplanted \subseteq Intact'
         /\ \A x \in Intact \ transplanted :
              /\ kind'[x] = kind[x] /\ who'[x] = who[x] /\ field'[x] = field[x]
              /\ x \in free_func => x \in free_func'
<1> DEFINE gone == {d \in Chunk : space[d] = "nursery" /\ num_indefinite[d] = 0}
<1>1. Erase(gone) /\ phase = "reset"
  BY ResetEffect
<1>2. sweep = {} /\ collection # "second"
  BY <1>1 DEF HeapInv, PhaseInv, Sweeping
<1>3. ASSUME NEW x \in Intact \ transplanted PROVE x[1] \notin gone
  <2>1. SUFFICES ASSUME x[1] \in gone PROVE FALSE
    OBVIOUS
  <2>2. x[1] \in Swept
    BY <1>2, <2>1 DEF Swept
  <2>3. x \in indefinite
    BY <1>1, <1>2, <1>3, <2>2 DEF CollectionInv, SweepInv
  <2>4. num_indefinite[x[1]] = 0 /\ num_indefinite[x[1]] > 0
    BY <2>1, <2>3 DEF CollectionInv, CountersInv
  <2> QED
    BY <2>4
<1> HIDE DEF gone
<1> QED
  BY <1>1, <1>3, EraseEffect DEF Intact

LEMMA ScrapKeeps ==
  ASSUME HeapInv, CollectionInv, ScrapGraveyard
  PROVE  /\ Intact \ transplanted \subseteq Intact'
         /\ \A x \in Intact \ transplanted :
              /\ kind'[x] = kind[x] /\ who'[x] = who[x] /\ field'[x] = field[x]
              /\ x \in free_func => x \in free_func'
<1>1. Erase(In("graveyard")) /\ phase = "scrap"
  BY DEF ScrapGraveyard
<1>2. sweep = {} /\ collection = "second"
  BY <1>1 DEF HeapInv, PhaseInv, Sweeping
<1>3. ASSUME NEW x \in Intact \ transplanted PROVE x[1] \notin In("graveyard")
  <2>1. SUFFICES ASSUME x[1] \in Chunk, space[x[1]] = "graveyard" PROVE FALSE
    BY DEF In
  <2>2. x[1] \in Swept
    BY <1>2, <2>1 DEF Swept
  <2>3. x \in indefinite
    BY <1>1, <1>2, <1>3, <2>2 DEF CollectionInv, SweepInv
  <2>4. num_indefinite[x[1]] = 0 /\ num_indefinite[x[1]] > 0
    BY <2>1, <2>3 DEF CollectionInv, CountersInv
  <2> QED
    BY <2>4
<1> QED
  BY <1>1, <1>3, EraseEffect DEF Intact

\* The program reaches what it reached, and what it allocates.
LEMMA ProgramHolds ==
  ASSUME HeapInv, CollectionInv, NEW T, Holds(T), Program
  PROVE  \E U \in SUBSET Addr : Holds(U)'
<1>a. /\ T \subseteq Intact /\ transplanted = {} /\ transplanted' = {}
      /\ \A a \in T : Refers(a) \ {None} \subseteq T
      /\ T \subseteq Addr
  BY ProgramStep DEF Holds, CollectionInv, FlagsInv, BeforeMark, flagVars, Intact
<1>b. /\ \A i \in written : stack[i] = None \/ stack[i] \in T
      /\ store = None \/ store \in T
  BY DEF Holds, Variables
<1>c. ASSUME NEW U \in SUBSET Addr, U \subseteq Intact',
             \A i \in written' : stack'[i] = None \/ stack'[i] \in U,
             store' = None \/ store' \in U,
             \A a \in U : kind'[a] = "object" =>
               \A f \in Field : field'[a][f] = None \/ field'[a][f] \in U
      PROVE  \E V \in SUBSET Addr : Holds(V)'
  <2>1. Variables' \subseteq U
    BY <1>c DEF Variables
  <2>2. \A a \in U : Refers(a)' \ {None} \subseteq U
    BY <1>c DEF Refers
  <2>3. Holds(U)'
    BY <1>a, <1>c, <2>1, <2>2 DEF Holds
  <2> QED
    BY <2>3
<1>d. \A a \in T : kind[a] = "object" => \A f \in Field : field[a][f] = None \/ field[a][f] \in T
  BY <1>a DEF Refers
<1>e. \A p \in Values : p = None \/ p \in T
  <2> DEFINE own == {stack[i] : i \in written} \cup {store, None}
  <2>1. \A p \in own : p = None \/ p \in T
    BY <1>b
  <2>2. \A p \in own \ {None} : \A q \in Refers(p) : q = None \/ q \in T
    BY <1>a, <2>1
  <2>3. Values = own \cup UNION {Refers(p) : p \in own \ {None}}
    BY DEF Values
  <2> HIDE DEF own
  <2> QED
    BY <2>1, <2>2, <2>3
<1>f. /\ sp \in Nat /\ MaxSlots \in Nat /\ sp <= MaxSlots
      /\ written \subseteq 1 .. sp /\ stack \in [Slot -> Pointer] /\ \A i \in 1 .. sp : i \in Slot
      /\ field \in [Addr -> [Field -> Pointer]]
  BY CollectorAssumption DEF HeapInv, HeapTypes, Slot
\* A new object has no references.
<1>g. ASSUME NEW b \in Addr, NEW o \in NextObj, NEW c \in Chunk, NEW list, NEW n,
             PlaceIn(b, c, list, n), InitAllocation(b, o), NEW i \in 1 .. sp, Keep(i, b)
      PROVE  \E V \in SUBSET Addr : Holds(V)'
  <2> DEFINE U == T \cup {b}
  <2>1. /\ ~InUse(b) /\ Intact' = Intact \cup {b} /\ b \notin Intact
        /\ kind' = [kind EXCEPT ![b] = Kind] /\ field' = field
    BY <1>g, AllocEffect
  <2>2. \A f \in Field : field[b][f] = None
    BY <2>1, NoFieldsAreNone DEF HeapInv, ChunksInv
  <2>3. \A j \in written' : stack'[j] = None \/ stack'[j] \in U
    BY <1>b, <1>f, <1>g DEF Keep
  <2>4. store' = None \/ store' \in U
    BY <1>b, <1>g DEF Keep
  <2>5. \A a \in T : kind'[a] = kind[a]
    BY <1>a, <2>1
  <2>6. \A a \in U : kind'[a] = "object" =>
          \A f \in Field : field'[a][f] = None \/ field'[a][f] \in U
    BY <1>d, <2>1, <2>2, <2>5
  <2>7. U \subseteq Intact' /\ U \in SUBSET Addr
    BY <1>a, <2>1
  <2> HIDE DEF U
  <2> QED
    BY <1>c, <2>3, <2>4, <2>6, <2>7
<1>1. ASSUME NEW t \in Thread, NEW c \in Chunk, NEW i \in 1 .. sp, Alloc(t, c, i)
      PROVE  \E V \in SUBSET Addr : Holds(V)'
  <2>1. PICK b \in Addr, o \in NextObj, n \in Garbage \cup {num_indefinite[c]} :
          PlaceIn(b, c, "nursery", n) /\ InitAllocation(b, o) /\ Keep(i, b)
    BY <1>1 DEF Alloc
  <2> QED
    BY <1>g, <2>1
<1>2. ASSUME NEW c \in Chunk, NEW i \in 1 .. sp, AllocBig(c, i)
      PROVE  \E V \in SUBSET Addr : Holds(V)'
  <2>1. PICK b \in Addr, o \in NextObj :
          PlaceIn(b, c, "big", 0) /\ InitAllocation(b, o) /\ Keep(i, b)
    BY <1>2 DEF AllocBig
  <2> QED
    BY <1>g, <2>1
<1>h. ASSUME UNCHANGED <<kind, count>>, NEW U \in SUBSET Addr, U = T
      PROVE  U \subseteq Intact' /\ \A a \in U : kind'[a] = kind[a]
  BY <1>a, <1>h, IntactStays
<1>i. ASSUME UNCHANGED <<kind, count, field>>,
             \A i \in written' : stack'[i] = None \/ stack'[i] \in T,
             store' = None \/ store' \in T
      PROVE  \E V \in SUBSET Addr : Holds(V)'
  BY <1>a, <1>c, <1>d, <1>h, <1>i
<1>3. ASSUME NEW i \in 1 .. sp, SetFreeFunc(i) PROVE \E V \in SUBSET Addr : Holds(V)'
  BY <1>3, <1>b, <1>i DEF SetFreeFunc, chunkVars, rootVars
<1>4. ASSUME NEW i \in 1 .. sp, NEW p \in Pointer, Load(i, p)
      PROVE  \E V \in SUBSET Addr : Holds(V)'
  <2>1. \A j \in written' : stack'[j] = None \/ stack'[j] \in T
    BY <1>4, <1>b, <1>e, <1>f DEF Load, Keep
  <2> QED
    BY <1>4, <1>b, <1>i, <2>1 DEF Load, Keep, chunkVars, objVars
<1>5. ASSUME NEW i \in 1 .. sp, NEW f \in Field, NEW p \in Pointer, StoreField(i, f, p)
      PROVE  \E V \in SUBSET Addr : Holds(V)'
  <2>1. field' = [field EXCEPT ![stack[i]][f] = p]
        /\ UNCHANGED <<kind, count, stack, written, store>> /\ (p = None \/ p \in T)
    BY <1>5, <1>e DEF StoreField, chunkVars, rootVars
  <2>2. \A a \in T, g \in Field : field'[a][g] = field[a][g] \/ field'[a][g] = p
    BY <1>a, <1>f, <2>1
  <2>3. \A a \in T : kind'[a] = "object" =>
          \A g \in Field : field'[a][g] = None \/ field'[a][g] \in T
    BY <1>d, <2>1, <2>2
  <2> QED
    BY <1>a, <1>b, <1>c, <1>h, <2>1, <2>3
<1>6. ASSUME NEW p \in Pointer, SetStore(p) PROVE \E V \in SUBSET Addr : Holds(V)'
  BY <1>6, <1>b, <1>e, <1>i DEF SetStore, chunkVars, objVars
<1>7. CASE Push
  <2>1. \A j \in written' : stack'[j] = None \/ stack'[j] \in T
    <3>1. CASE UNCHANGED <<stack, written>>
      BY <1>b, <3>1
    <3>2. CASE stack' = [stack EXCEPT ![sp + 1] = None] /\ written' = written \cup {sp + 1}
      <4>1. sp + 1 \in Slot
        BY <1>7, <1>f DEF Push, Slot
      <4> QED
        BY <1>b, <1>f, <3>2, <4>1
    <3> QED
      BY <1>7, <3>1, <3>2 DEF Push
  <2> QED
    BY <1>7, <1>b, <1>i, <2>1 DEF Push, chunkVars, objVars
<1>8. CASE Pop
  BY <1>8, <1>b, <1>i DEF Pop, chunkVars, objVars
<1>9. ASSUME NEW t \in Thread, Exit(t) PROVE \E V \in SUBSET Addr : Holds(V)'
  BY <1>9, <1>b, <1>i DEF Exit, objVars, rootVars
<1> QED
  BY <1>1, <1>2, <1>3, <1>4, <1>5, <1>6, <1>7, <1>8, <1>9 DEF Program

\* Marking marks all that the program reaches.
LEMMA MarkHolds ==
  ASSUME HeapInv, CollectionInv, NEW T, Holds(T), Mark
  PROVE  /\ Variables' \subseteq T \cap marked' /\ transplanted' = {}
         /\ UNCHANGED <<kind, field, transplanted>>
         /\ \A a \in T \cap marked' : Refers(a)' \ {None} \subseteq T \cap marked'
<1>1. /\ T \subseteq Intact /\ transplanted = {} /\ transplanted' = {}
      /\ UNCHANGED <<kind, field, stack, sp, written, store>>
  BY DEF Mark, MarkFrom, Holds, CollectionInv, FlagsInv, BeforeMark, objVars, rootVars
<1>2. \A p \in T : Valid(p)
  BY <1>1, IntactIsValid
<1>3. \A p \in Variables : p \in T /\ p # None /\ (p \in StackRoots \/ p = store)
  BY DEF Holds, Variables, StackRoots, HeapInv, HeapTypes
<1>4. Variables \subseteq marked'
  BY <1>2, <1>3, MarkMarks
<1>5. Variables' = Variables
  BY <1>1 DEF Variables
<1>6. ASSUME NEW a \in T \cap marked', NEW p \in Refers(a) \ {None} PROVE p \in T \cap marked'
  BY <1>2, <1>6, MarkMarks DEF Holds
<1>7. \A a \in T : Refers(a)' = Refers(a)
  BY <1>1 DEF Refers
<1> QED
  BY <1>1, <1>3, <1>4, <1>5, <1>6, <1>7

\* Where a marked object is, before the heaps are given back.
LEMMA MovedIsIntact ==
  ASSUME HeapInv, CollectionInv, Marked, NEW a \in marked
  PROVE  /\ Moved(a) \in Intact \ transplanted /\ a \in Intact
         /\ Moved(Moved(a)) = Moved(a) /\ Found(a) /\ kind[a] # "invalid"
<1>1. CASE a \in transplanted
  <2>1. a \in Intact /\ forward[a] \in Intact \ marked
    BY <1>1 DEF Marked, CollectionInv, ForwardInv
  <2>2. forward[a] \notin transplanted
    BY <2>1 DEF CollectionInv, FlagsInv
  <2> QED
    BY <1>1, <2>1, <2>2, IntactIsValid DEF Moved, Valid
<1>2. CASE a \notin transplanted
  BY <1>2, IntactIsValid DEF Moved, Valid, CollectionInv, FlagsInv
<1> QED
  BY <1>1, <1>2

\* Sweeping moves objects with their references, and each stays the allocation it is.
LEMMA SweepKeeps ==
  ASSUME HeapInv, CollectionInv, Sweep
  PROVE  /\ Marked /\ Marked'
         /\ UNCHANGED <<collection, marked, indefinite, stack, sp, written, store, made>>
         /\ \A x \in marked : /\ (kind[Moved(x)])' = kind[Moved(x)]
                              /\ (field[Moved(x)])' = field[Moved(x)]
                              /\ who'[x] = who[x]
<1>a. Marked
  BY DEF Marked, Sweep, Leave, Transplant, Copy, Finalize, Visit, SweptNurseries, SweptAdults,
         SweptUnkillables, Sweeping
<1>b. \A x \in marked : Moved(x) \in Intact \ transplanted /\ x \in Intact /\ x \in Addr /\ Moved(x) \in Addr
  BY <1>a, MovedIsIntact DEF Intact
<1>d. ASSUME UNCHANGED <<kind, field, forward, transplanted, who>>
      PROVE  \A x \in marked : /\ (kind[Moved(x)])' = kind[Moved(x)]
                               /\ (field[Moved(x)])' = field[Moved(x)]
                               /\ who'[x] = who[x]
  BY <1>d DEF Moved
<1> DEFINE Kept1 == \A x \in marked : /\ (kind[Moved(x)])' = kind[Moved(x)]
                               /\ (field[Moved(x)])' = field[Moved(x)]
                               /\ who'[x] = who[x]
           Still == Marked' /\ UNCHANGED <<collection, marked, indefinite, stack, sp, written, store, made>>
<1>1. ASSUME NEW a \in Addr, Leave(a) PROVE Kept1 /\ Still
  BY <1>1, <1>d DEF Leave, Visit, Marked, rootVars, objVars, flagVars, ghostVars
<1>2. ASSUME NEW a \in Addr, NEW c \in Chunk, Transplant(a, c) PROVE Kept1 /\ Still
  <2>1. PICK b \in Addr :
          /\ b \notin Intact /\ b # a
          /\ \A x \in Addr \ {b} : kind'[x] = kind[x] /\ who'[x] = who[x]
          /\ kind'[b] = kind[a]
          /\ \A x \in Addr \ {a, b} : field'[x] = field[x]
          /\ field'[b] = field[a]
          /\ \A x \in Addr \ {a} : forward'[x] = forward[x]
          /\ forward'[a] = b
    BY <1>2, CopyEffect
  <2>2. /\ a \in sweep /\ a \in marked \ indefinite
        /\ transplanted' = transplanted \cup {a}
        /\ UNCHANGED <<phase, collection, marked, indefinite, stack, sp, written, store, made>>
    BY <1>2, CopyRest DEF rootVars
  <2>3. a \notin transplanted
    BY <2>2 DEF CollectionInv, SweepInv
  <2>4. ASSUME NEW x \in marked
        PROVE  /\ (kind[Moved(x)])' = kind[Moved(x)] /\ (field[Moved(x)])' = field[Moved(x)]
               /\ who'[x] = who[x]
    <3>0. who'[x] = who[x]
      BY <1>b, <2>1
    <3>1. CASE x = a
      <4>1. Moved(x)' = b /\ Moved(x) = a
        BY <2>1, <2>2, <2>3, <3>1 DEF Moved
      <4> QED  BY <2>1, <3>0, <4>1
    <3>2. CASE x # a
      <4>2. Moved(x) # a
        <5>1. CASE x \in transplanted
          <6>1. forward[x] \notin marked
            BY <1>a, <5>1 DEF Marked, CollectionInv, ForwardInv
          <6> QED
            BY <2>2, <5>1, <6>1 DEF Moved
        <5>2. CASE x \notin transplanted
          BY <3>2, <5>2 DEF Moved
        <5> QED
          BY <5>1, <5>2
      <4>3. Moved(x)' = Moved(x)
        BY <1>b, <2>1, <2>2, <3>2 DEF Moved
      <4>4. kind'[Moved(x)] = kind[Moved(x)] /\ field'[Moved(x)] = field[Moved(x)]
        BY <1>b, <2>1, <4>2
      <4> QED
        BY <3>0, <4>3, <4>4
    <3> QED
      BY <3>1, <3>2
  <2> QED
    BY <1>a, <2>2, <2>4 DEF Marked
<1>3. ASSUME NEW a \in Addr, Finalize(a) PROVE Kept1 /\ Still
  <2>1. /\ a \in sweep /\ a \notin marked /\ phase \in Sweeping
        /\ \A x \in Addr \ {a} : kind'[x] = kind[x] /\ field'[x] = field[x]
        /\ UNCHANGED <<phase, collection, who, forward, transplanted, indefinite, marked, stack, sp,
                       written, store, made>>
    BY <1>3, FinalizeEffect DEF flagVars, rootVars
  <2>2. \A x \in transplanted : forward[x] # a
    BY <2>1 DEF CollectionInv, ForwardInv, SweepInv, Sweeping
  <2>3. \A x \in marked : Moved(x) # a /\ Moved(x) \in Addr
    BY <1>b, <2>1, <2>2 DEF Moved
  <2>4. \A x \in marked : Moved(x)' = Moved(x)
    BY <2>1 DEF Moved
  <2> QED
    BY <1>a, <2>1, <2>3, <2>4 DEF Marked
<1>4. CASE SweptNurseries
  BY <1>4, <1>d DEF SweptNurseries, Marked, Sweeping, rootVars, objVars, flagVars, ghostVars
<1>5. CASE SweptAdults
  BY <1>5, <1>d DEF SweptAdults, Marked, Sweeping, rootVars, objVars, flagVars, ghostVars
<1>6. CASE SweptUnkillables
  BY <1>6, <1>d DEF SweptUnkillables, Marked, Sweeping, rootVars, objVars, flagVars, ghostVars
<1> QED
  BY <1>a, <1>1, <1>2, <1>3, <1>4, <1>5, <1>6 DEF Sweep

\* So what holds all that the program reaches goes on holding it.
LEMMA SweepHolds ==
  ASSUME HeapInv, CollectionInv, Sweep, NEW T, T \subseteq marked, HoldsMarked(T)
  PROVE  HoldsMarked(T)' /\ marked' = marked /\ Marked /\ Marked'
<1>1. /\ Marked /\ Marked' /\ UNCHANGED <<marked, stack, written, store>>
      /\ \A x \in T : /\ (kind[Moved(x)])' = kind[Moved(x)]
                      /\ (field[Moved(x)])' = field[Moved(x)]
  BY SweepKeeps
<1>2. \A x \in T : Refers(Moved(x))' = Refers(Moved(x))
  BY <1>1 DEF Refers
<1>3. Variables' = Variables
  BY <1>1 DEF Variables
<1> QED
  BY <1>1, <1>2, <1>3 DEF HoldsMarked

\* What updating visits are objects, and it visits all that they refer to.
LEMMA UpdatedIsClosed ==
  ASSUME HeapInv, CollectionInv, phase = "update"
  PROVE  /\ \A p \in StackRoots \cup {store} : Found(p) => Moved(p) \in Updated
         /\ \A a \in Updated : \A p \in Refers(a) : Found(p) => Moved(p) \in Updated
<1> DEFINE start == {Moved(p) : p \in {q \in StackRoots \cup {store} : Found(q)}}
           edges == [a \in Addr |-> {Moved(p) : p \in {q \in Refers(a) : Found(q)}}]
<1>1. ASSUME NEW p \in Allocated, Found(p) PROVE Moved(p) \in ObjectsIn(Chunk)
  <2>1. p \in ObjectsIn(Chunk)
    BY <1>1, AddrIsPair DEF Allocated, Found, InUse, ObjectsIn
  <2>2. CASE p \in transplanted
    <3>1. p \in marked
      BY <2>2 DEF CollectionInv, FlagsInv
    <3>2. Moved(p) \in Intact
      BY <3>1, MovedIsIntact DEF Marked
    <3> QED
      BY <3>2, IntactIsValid
  <2>3. CASE p \notin transplanted
    BY <2>1, <2>3 DEF Moved
  <2> QED
    BY <2>2, <2>3
<1>2. start \subseteq ObjectsIn(Chunk)
  BY <1>1, RootsAreAllocated DEF HeapInv, PointersInv
<1>3. \A a \in Addr : edges[a] \subseteq ObjectsIn(Chunk)
  BY <1>1, RootsAreAllocated
<1>4. Updated = Closure(start, edges)
  BY DEF Updated
<1>5. /\ start \subseteq Updated /\ Updated \subseteq ObjectsIn(Chunk)
      /\ \A a \in Updated : edges[a] \subseteq Updated
  <2>1. \A a \in ObjectsIn(Chunk) : edges[a] \subseteq ObjectsIn(Chunk)
    BY <1>3, IntactIsValid
  <2> HIDE DEF start, edges
  <2> QED
    BY <1>2, <1>4, <2>1, ClosureIsClosed
<1>6. \A a \in Updated : edges[a] = {Moved(p) : p \in {q \in Refers(a) : Found(q)}}
  BY <1>5, IntactIsValid
<1> QED
  BY <1>5, <1>6

\* Updating leaves the program with the new addresses of what it reaches.
LEMMA UpdateHolds ==
  ASSUME HeapInv, CollectionInv, UpdateRoots, ~UpdateTraps, NEW T, T \subseteq marked,
         HoldsMarked(T)
  PROVE  \E U \in SUBSET Addr : Holds(U)'
<1> DEFINE U == {Moved(a) : a \in T} \cap Updated
<1>1. /\ phase = "update" /\ Marked
      /\ UNCHANGED <<kind, count, forward, transplanted, marked, stack, sp, written>>
      /\ store' = Moved(store)
      /\ field' = [a \in Addr |-> IF a \in Updated /\ kind[a] = "object"
                                  THEN [f \in Field |-> Moved(field[a][f])] ELSE field[a]]
  BY DEF UpdateRoots, UpdateFieldsOf, Marked, chunkVars, flagVars
<1>2. Intact' = Intact
  BY <1>1, IntactStays
<1>3. \A a \in T : Moved(a) \in Intact \ transplanted /\ Found(a)
  BY <1>1, MovedIsIntact
<1>4. U \subseteq Intact' \ transplanted' /\ U \in SUBSET Addr
  BY <1>1, <1>2, <1>3, IntactIsValid
<1>5. \A p \in Variables : p \in T /\ (p \in StackRoots \/ p = store)
  BY DEF HoldsMarked, Variables, StackRoots, HeapInv, HeapTypes
<1>6. \A p \in Variables : Moved(p) \in U
  BY <1>1, <1>3, <1>5, UpdatedIsClosed
<1>7. \A p \in StackRoots : Moved(p) = p
  BY DEF Moved, CollectionInv, FlagsInv
<1>8. Moved(None) = None
  BY NoneIsNothing DEF Moved, HeapInv, HeapTypes
<1>9. Variables' \subseteq U
  <2>1. ASSUME NEW i \in written', stack'[i] # None PROVE stack'[i] \in U
    <3>1. stack[i] \in Variables /\ stack[i] \in StackRoots
      BY <1>1, <2>1 DEF Variables, StackRoots, HeapInv, HeapTypes
    <3> QED
      BY <1>1, <1>6, <1>7, <3>1
  <2>2. store' # None => store' \in U
    <3>1. store' # None => store # None
      BY <1>1, <1>8
    <3>2. store # None => store \in Variables
      BY DEF Variables
    <3> QED
      BY <1>1, <1>6, <3>1, <3>2
  <2> HIDE DEF U
  <2> QED
    BY <2>1, <2>2 DEF Variables
<1>10. ASSUME NEW a \in U, NEW q \in Refers(a)' \ {None} PROVE q \in U
  <2>1. a \in Addr /\ kind[a] = "object" /\ a \in Updated
    BY <1>1, <1>4, <1>10 DEF Refers
  <2>2. field'[a] = [f \in Field |-> Moved(field[a][f])]
    BY <1>1, <2>1
  <2>3. PICK f \in Field : q = Moved(field[a][f])
    BY <1>1, <1>10, <2>1, <2>2 DEF Refers
  <2>4. field[a][f] \in Refers(a) \ {None}
    BY <1>8, <1>10, <2>1, <2>3 DEF Refers
  <2>5. PICK x \in T : a = Moved(x)
    BY <1>10
  <2>6. field[a][f] \in T
    BY <2>4, <2>5 DEF HoldsMarked
  <2> QED
    BY <1>1, <1>3, <2>1, <2>3, <2>4, <2>6, UpdatedIsClosed
<1> HIDE DEF U
<1>11. PICK V : V = U
  OBVIOUS
<1>12. Holds(V)' /\ V \in SUBSET Addr
  BY <1>4, <1>9, <1>10, <1>11 DEF Holds
<1> QED
  BY <1>12

LEMMA GraphNext == HeapInv /\ CollectionInv /\ GraphInv /\ [Next]_vars => GraphInv'
<1> SUFFICES ASSUME HeapInv, CollectionInv, GraphInv, [Next]_vars PROVE GraphInv'
  OBVIOUS
<1>a. ASSUME ~Marked', \E U \in SUBSET Addr : Holds(U)' PROVE GraphInv'
  BY <1>a DEF GraphInv
\* Outside of sweeping, what the program reaches stays as it is.
<1>b. ASSUME ~Marked, ~Marked', UNCHANGED <<stack, written, store>>,
             Intact \ transplanted \subseteq Intact', transplanted' \subseteq transplanted,
             \A x \in Intact \ transplanted : kind'[x] = kind[x] /\ field'[x] = field[x]
      PROVE  GraphInv'
  <2>1. PICK T \in SUBSET Addr : Holds(T)
    BY <1>b DEF GraphInv
  <2>2. Variables' = Variables
    BY <1>b DEF Variables
  <2>3. \A a \in T : Refers(a)' = Refers(a)
    BY <1>b, <2>1 DEF Refers, Holds
  <2>4. Holds(T)'
    BY <1>b, <2>1, <2>2, <2>3 DEF Holds
  <2> QED
    BY <1>a, <1>b, <2>4
<1>1. CASE Program
  <2>1. ~Marked /\ ~Marked'
    BY <1>1, ProgramStep DEF Marked, Sweeping
  <2>2. PICK T \in SUBSET Addr : Holds(T)
    BY <2>1 DEF GraphInv
  <2> QED
    BY <1>1, <1>a, <2>1, <2>2, ProgramHolds
<1>2. CASE Collect
  BY <1>2, <1>b, IntactStays DEF Collect, Marked, Sweeping, chunkVars, objVars, flagVars, rootVars
<1>3. CASE Mark
  <2>1. ~Marked /\ Marked'
    BY <1>3 DEF Mark, MarkFrom, Marked, Sweeping
  <2>2. PICK T \in SUBSET Addr : Holds(T)
    BY <2>1 DEF GraphInv
  <2> DEFINE U == T \cap marked'
  <2>3. /\ Variables' \subseteq U /\ transplanted' = {}
        /\ \A a \in U : Refers(a)' \ {None} \subseteq U
    BY <1>3, <2>2, MarkHolds
  <2>4. PICK V : V = U
    OBVIOUS
  <2>5. \A a \in V : Moved(a)' = a
    BY <2>3 DEF Moved
  <2>6. \A a \in V : Refers(Moved(a))' \ {None} \subseteq V
    BY <2>3, <2>4, <2>5 DEF Refers
  <2>7. HoldsMarked(V)' /\ V \in SUBSET marked'
    BY <2>3, <2>4, <2>6 DEF HoldsMarked
  <2> QED
    BY <2>1, <2>7 DEF GraphInv
<1>4. CASE Sweep
  <2>1. Marked
    BY <1>4 DEF Marked, Sweep, Leave, Transplant, Copy, Finalize, Visit, SweptNurseries,
         SweptAdults, SweptUnkillables, Sweeping
  <2>2. PICK T \in SUBSET marked : HoldsMarked(T)
    BY <2>1 DEF GraphInv
  <2>3. HoldsMarked(T)' /\ marked' = marked /\ Marked'
    BY <1>4, <2>2, SweepHolds
  <2> QED
    BY <2>2, <2>3 DEF GraphInv
<1>5. CASE UpdateRoots
  <2>1. Marked
    BY <1>5 DEF UpdateRoots, UpdateFieldsOf, Marked
  <2>2. PICK T \in SUBSET marked : HoldsMarked(T)
    BY <2>1 DEF GraphInv
  <2>3. CASE UpdateTraps
    <3>1. /\ UNCHANGED <<kind, field, forward, transplanted, marked, stack, written, store>>
          /\ phase' = "trapped"
      BY <1>5, <2>3 DEF UpdateRoots, UpdateFieldsOf, flagVars
    <3>2. Variables' = Variables /\ \A a \in T : Refers(Moved(a))' = Refers(Moved(a))
      BY <3>1 DEF Variables, Refers, Moved
    <3>3. HoldsMarked(T)' /\ Marked'
      BY <2>2, <3>1, <3>2 DEF HoldsMarked, Marked
    <3> QED
      BY <3>1, <3>3 DEF GraphInv
  <2>4. CASE ~UpdateTraps
    <3>1. ~Marked'
      BY <1>5, <2>4 DEF UpdateRoots, UpdateFieldsOf, Marked, Sweeping
    <3> QED
      BY <1>5, <1>a, <2>2, <2>4, <3>1, UpdateHolds
  <2> QED
    BY <2>3, <2>4
<1>6. CASE ResetOrSave
  BY <1>6, <1>b, ResetKeeps, ResetEffect DEF Marked, Sweeping, flagVars, rootVars
<1>7. CASE ScrapGraveyard
  BY <1>7, <1>b, ScrapKeeps DEF ScrapGraveyard, Marked, Sweeping, flagVars, rootVars
<1>8. CASE Invalidate
  <2>1. /\ Intact \ transplanted \subseteq Intact'
        /\ \A x \in Intact' : kind'[x] = kind[x]
        /\ UNCHANGED <<field, transplanted, stack, written, store>> /\ ~Marked /\ ~Marked'
    BY <1>8, InvalidateEffect DEF Marked, Sweeping, flagVars, rootVars
  <2> QED
    BY <1>b, <2>1
<1>9. CASE ClearFlags
  BY <1>9, <1>b, IntactStays DEF ClearFlags, EndWith, Marked, Sweeping, objVars, rootVars
<1>10. CASE UNCHANGED vars
  <2>1. /\ UNCHANGED <<phase, kind, field, forward, transplanted, marked, stack, written, store>>
        /\ UNCHANGED <<Intact, Variables>>
    BY <1>10, IntactStays DEF vars, gcVars, chunkVars, objVars, flagVars, rootVars, Variables
  <2>2. CASE Marked
    <3>1. PICK T \in SUBSET marked : HoldsMarked(T)
      BY <2>2 DEF GraphInv
    <3>2. \A a \in T : Refers(Moved(a))' = Refers(Moved(a))
      BY <2>1 DEF Refers, Moved
    <3>3. HoldsMarked(T)' /\ Marked'
      BY <2>1, <2>2, <3>1, <3>2 DEF HoldsMarked, Marked
    <3> QED
      BY <2>1, <3>3 DEF GraphInv
  <2>3. CASE ~Marked
    BY <1>b, <2>1, <2>3 DEF Marked
  <2> QED
    BY <2>2, <2>3
<1> QED
  BY <1>1, <1>2, <1>3, <1>4, <1>5, <1>6, <1>7, <1>8, <1>9, <1>10 DEF Next, Collection

LEMMA GraphInit == Init => GraphInv
<1> SUFFICES ASSUME Init PROVE GraphInv
  OBVIOUS
<1>1. Variables = {}
  BY DEF Init, Variables
<1>2. Holds({}) /\ ~Marked
  BY <1>1 DEF Holds, Init, Marked, Sweeping
<1> QED
  BY <1>2 DEF GraphInv

-----------------------------------------------------------------------------
(***************************************************************************)
(* PreciseInv is inductive                                                 *)
(***************************************************************************)
\* Kinds are what the program allocates.
LEMMA KindsNext ==
  HeapInv /\ [Next]_vars /\ ("fields" \notin regime => \A a \in Addr : kind[a] # "object")
    => ("fields" \notin regime => \A a \in Addr : kind[a] # "object")'
<1> SUFFICES ASSUME HeapInv, [Next]_vars, "fields" \notin regime',
                    "fields" \notin regime => \A a \in Addr : kind[a] # "object"
             PROVE  \A a \in Addr : kind'[a] # "object"
  OBVIOUS
<1>r. regime' = regime /\ \A a \in Addr : kind[a] # "object"
  BY DEF Next, Program, Collection, Sweep, Alloc, AllocBig, SetFreeFunc, Load, StoreField, SetStore,
         Push, Pop, Exit, Collect, Mark, MarkFrom, Leave, Transplant, Copy, Finalize, Visit,
         SweptNurseries, SweptAdults, SweptUnkillables, UpdateRoots, UpdateFieldsOf, ResetOrSave,
         Save, ScrapGraveyard, Invalidate, ClearFlags, EndWith, vars
<1>k. kind \in [Addr -> {"none", "object", "atomic", "invalid"}] /\ Kind = "atomic"
  BY <1>r DEF HeapInv, HeapTypes, Kind
<1> USE <1>r, <1>k DEF objVars
<1>1. CASE Program
  <2> QED
    BY <1>1, ProgramObjects
<1>2. CASE Collect
  BY <1>2 DEF Collect
<1>3. CASE Mark
  BY <1>3 DEF Mark, MarkFrom
<1>4. ASSUME NEW a \in Addr, Leave(a) PROVE \A x \in Addr : kind'[x] # "object"
  BY <1>4 DEF Leave, Visit
<1>5. ASSUME NEW a \in Addr, NEW c \in Chunk, Transplant(a, c) PROVE \A x \in Addr : kind'[x] # "object"
  <2> QED
    BY <1>5, CopyEffect
<1>6. ASSUME NEW a \in Addr, Finalize(a) PROVE \A x \in Addr : kind'[x] # "object"
  <2> QED
    BY <1>6 DEF Finalize
<1>7. CASE SweptNurseries
  BY <1>7 DEF SweptNurseries
<1>8. CASE SweptAdults
  BY <1>8 DEF SweptAdults
<1>9. CASE SweptUnkillables
  BY <1>9 DEF SweptUnkillables
<1>10. CASE UpdateRoots
  BY <1>10 DEF UpdateRoots, UpdateFieldsOf
<1>11. CASE ResetOrSave
  BY <1>11 DEF ResetOrSave, Save, Erase
<1>12. CASE ScrapGraveyard
  BY <1>12 DEF ScrapGraveyard, Erase
<1>13. CASE Invalidate
  BY <1>13 DEF Invalidate
<1>14. CASE ClearFlags
  BY <1>14 DEF ClearFlags, EndWith
<1>15. CASE UNCHANGED vars
  BY <1>15 DEF vars
<1> QED
  BY <1>1, <1>2, <1>3, <1>4, <1>5, <1>6, <1>7, <1>8, <1>9, <1>10, <1>11, <1>12, <1>13,
     <1>14, <1>15
  DEF Next, Collection, Sweep

\* Every word of the stack is a variable, where none is left uninitialized.
LEMMA WordsNext ==
  HeapInv /\ [Next]_vars /\ ("stale" \notin regime => written = 1 .. sp)
    => ("stale" \notin regime => written = 1 .. sp)'
<1> SUFFICES ASSUME HeapInv, [Next]_vars, "stale" \notin regime',
                    "stale" \notin regime => written = 1 .. sp
             PROVE  written' = 1 .. sp'
  OBVIOUS
<1>r. regime' = regime
  BY DEF Next, Program, Collection, Sweep, Alloc, AllocBig, SetFreeFunc, Load, StoreField, SetStore,
         Push, Pop, Exit, Collect, Mark, MarkFrom, Leave, Transplant, Copy, Finalize, Visit,
         SweptNurseries, SweptAdults, SweptUnkillables, UpdateRoots, UpdateFieldsOf, ResetOrSave,
         Save, ScrapGraveyard, Invalidate, ClearFlags, EndWith, vars
<1>w. written = 1 .. sp /\ sp \in Nat
  BY <1>r, CollectorAssumption DEF HeapInv, HeapTypes
<1>k. ASSUME NEW i \in 1 .. sp, NEW p, Keep(i, p) PROVE written' = 1 .. sp'
  BY <1>k, <1>w DEF Keep
<1>1. CASE Program
  <2>1. CASE Push
    <3>1. sp' = sp + 1 /\ written' = written \cup {sp + 1}
      BY <1>r, <2>1 DEF Push
    <3> QED
      BY <1>w, <3>1
  <2>2. CASE Pop
    <3>1. sp' = sp - 1 /\ written' = written \ {sp} /\ sp > 0
      BY <2>2 DEF Pop
    <3>2. \A i \in Int : i \in 1 .. sp /\ i # sp <=> i \in 1 .. sp - 1
      BY <1>w
    <3>3. 1 .. sp \subseteq Int /\ 1 .. sp - 1 \subseteq Int
      BY <1>w
    <3> QED
      BY <1>w, <3>1, <3>2, <3>3
  <2> QED
    BY <1>1, <1>w, <1>k, <2>1, <2>2
    DEF Program, Alloc, AllocBig, SetFreeFunc, Load, StoreField, SetStore, Exit, rootVars
<1>2. CASE Collection \/ UNCHANGED vars
  BY <1>2, <1>w
  DEF Collection, Sweep, Collect, Mark, MarkFrom, Leave, Transplant, Copy, Finalize, Visit,
      SweptNurseries, SweptAdults, SweptUnkillables, UpdateRoots, UpdateFieldsOf, ResetOrSave,
      Save, ScrapGraveyard, Invalidate, ClearFlags, EndWith, vars, rootVars
<1> QED
  BY <1>1, <1>2 DEF Next

\* Where words and references are all the program's, marking marks no more than
\* it reaches.
LEMMA MarkIsPrecise ==
  ASSUME StaleWordsAreAtomic, HeapInv, CollectionInv, GraphInv, PreciseInv, Mark
  PROVE  HoldsMarked(marked)'
<1>1. ~Marked
  BY DEF Mark, MarkFrom, Marked, Sweeping
<1>2. PICK T \in SUBSET Addr : Holds(T)
  BY <1>1 DEF GraphInv
<1>3. /\ Variables' \subseteq marked' /\ Variables' = Variables /\ transplanted' = {}
      /\ UNCHANGED <<kind, field>>
  BY <1>2, MarkHolds DEF Mark, MarkFrom, rootVars, Variables
<1>4. ASSUME NEW a \in marked', NEW p \in Refers(a) \ {None} PROVE Valid(p)
  <2>1. CASE "fields" \notin regime
    BY <1>4, <2>1, MarkMarks, IntactIsValid DEF PreciseInv, Refers
  <2>2. CASE "fields" \in regime
    <3>1. "stale" \notin regime
      BY <2>2 DEF StaleWordsAreAtomic, HeapInv, HeapTypes
    <3>2. StackRoots \subseteq Variables
      BY <3>1 DEF PreciseInv, StackRoots, Variables
    <3>3. T \subseteq ObjectsIn(Chunk) /\ \A x \in T : Valid(x)
      BY <1>2, IntactIsValid DEF Holds
    <3> DEFINE roots == {x \in StackRoots \cup {store} : Valid(x)}
    <3>4. {x \in StackRoots : Valid(x)} \cup {x \in {store} : Valid(x)} = roots
      OBVIOUS
    <3>5. marked' = Closure(roots, ValidEdges)
      BY <3>4 DEF Mark, MarkFrom
    <3>6. roots \subseteq T
      <4>1. ~Valid(None)
        BY DEF Valid, Found
      <4>2. Variables \subseteq T /\ (store # None => store \in Variables)
        BY <1>2 DEF Holds, Variables
      <4> QED
        BY <3>2, <4>1, <4>2
    <3>7. \A x \in T : ValidEdges[x] \subseteq T
      <4>1. ~Valid(None)
        BY DEF Valid, Found
      <4>2. \A x \in T : ValidEdges[x] = {q \in Refers(x) : Valid(q)}
        BY <1>2 DEF ValidEdges
      <4> QED
        BY <1>2, <4>1, <4>2 DEF Holds
    <3>8. marked' \subseteq T
      <4> HIDE DEF roots
      <4> QED
        BY <3>3, <3>5, <3>6, <3>7, ClosureIsLeast
    <3>9. p \in T
      BY <1>2, <1>4, <3>8 DEF Holds
    <3> QED
      BY <3>3, <3>9
  <2> QED
    BY <2>1, <2>2
<1>5. \A a \in marked' : Refers(a) \ {None} \subseteq marked'
  BY <1>4, MarkMarks
<1>6. \A a \in marked' : Moved(a)' = a
  BY <1>3 DEF Moved
<1>7. \A a \in marked' : Refers(Moved(a))' \ {None} \subseteq marked'
  BY <1>3, <1>5, <1>6 DEF Refers
<1> QED
  BY <1>3, <1>7 DEF HoldsMarked

\* Updating meets no stale pointer.
LEMMA UpdateDoesNotTrap ==
  ASSUME StaleWordsAreAtomic, HeapInv, CollectionInv, PreciseInv, phase = "update"
  PROVE  ~UpdateTraps
<1>1. HoldsMarked(marked) /\ Marked
  BY DEF PreciseInv, Marked
<1>2. \A p \in StackRoots : p \notin transplanted
  BY DEF CollectionInv, FlagsInv
<1>3. \A p \in marked : kind[p] # "invalid" /\ Found(p)
  BY <1>1, MovedIsIntact
<1>4. Found(store) => store \in marked
  BY <1>1 DEF HoldsMarked, Variables, Found
<1>5. ASSUME NEW a \in Updated, NEW p \in Refers(a), Found(p) PROVE kind[p] # "invalid"
  <2>1. CASE "fields" \notin regime
    BY <1>5, <2>1, IntactIsValid DEF Updated, Closure, PreciseInv, Refers
  <2>2. CASE "fields" \in regime
    <3>1. "stale" \notin regime
      BY <2>2 DEF StaleWordsAreAtomic, HeapInv, HeapTypes
    <3>2. StackRoots \subseteq marked
      BY <1>1, <3>1 DEF PreciseInv, StackRoots, Variables, HoldsMarked
    <3> DEFINE S     == {Moved(x) : x \in marked}
               start == {Moved(x) : x \in {q \in StackRoots \cup {store} : Found(q)}}
               edges == [x \in Addr |-> {Moved(y) : y \in {q \in Refers(x) : Found(q)}}]
    <3>3. start \subseteq S
      BY <1>4, <3>2
    <3>4. S \subseteq ObjectsIn(Chunk) /\ S \subseteq Addr
      BY <1>1, MovedIsIntact, IntactIsValid
    <3>5. \A x \in S : edges[x] \subseteq S
      <4> SUFFICES ASSUME NEW m \in marked, NEW y \in Refers(Moved(m)), Found(y)
                   PROVE  y \in marked
        BY <3>4
      <4>1. y # None
        BY DEF Found
      <4> QED
        BY <1>1, <4>1 DEF HoldsMarked
    <3>6. Updated \subseteq S
      <4>1. Updated = Closure(start, edges)
        BY DEF Updated
      <4> HIDE DEF S, start, edges
      <4> QED
        BY <3>3, <3>4, <3>5, <4>1, ClosureIsLeast
    <3>7. PICK m \in marked : a = Moved(m)
      BY <3>6
    <3>8. p \in marked
      BY <1>1, <1>5, <3>7 DEF HoldsMarked, Found
    <3> QED
      BY <1>3, <3>8
  <2> QED
    BY <2>1, <2>2
<1> QED
  BY <1>2, <1>3, <1>4, <1>5 DEF UpdateTraps

LEMMA PreciseNext ==
  StaleWordsAreAtomic /\ HeapInv /\ CollectionInv /\ GraphInv /\ PreciseInv /\ [Next]_vars
    => PreciseInv'
<1> SUFFICES ASSUME StaleWordsAreAtomic, HeapInv, CollectionInv, GraphInv, PreciseInv, [Next]_vars
             PROVE  PreciseInv'
  OBVIOUS
<1>a. /\ ("fields" \notin regime => \A a \in Addr : kind[a] # "object")'
      /\ ("stale" \notin regime => written = 1 .. sp)'
  BY KindsNext, WordsNext DEF PreciseInv
<1>b. ASSUME phase' # "trapped", Marked' => HoldsMarked(marked)' PROVE PreciseInv'
  BY <1>a, <1>b DEF PreciseInv
<1>c. phase # "trapped" /\ (Marked => HoldsMarked(marked))
  BY DEF PreciseInv
<1>1. CASE Program
  BY <1>1, <1>b, ProgramStep DEF Marked, Sweeping
<1>2. CASE Collect
  BY <1>2, <1>b DEF Collect, Marked, Sweeping
<1>3. CASE Mark
  BY <1>3, <1>b, MarkIsPrecise DEF Mark, MarkFrom
<1>4. CASE Sweep
  <2>1. Marked
    BY <1>4 DEF Marked, Sweep, Leave, Transplant, Copy, Finalize, Visit, SweptNurseries,
         SweptAdults, SweptUnkillables, Sweeping
  <2>2. PICK T : T = marked
    OBVIOUS
  <2>3. HoldsMarked(T)
    BY <1>c, <2>1, <2>2 DEF HoldsMarked
  <2>4. HoldsMarked(T)' /\ marked' = marked
    BY <1>4, <2>2, <2>3, SweepHolds
  <2>5. HoldsMarked(marked)'
    BY <2>2, <2>4 DEF HoldsMarked
  <2>6. phase' # "trapped"
    BY <1>4, <1>c DEF Sweep, Leave, Transplant, Copy, Finalize, Visit, SweptNurseries,
         SweptAdults, SweptUnkillables
  <2> QED
    BY <1>b, <2>5, <2>6
<1>5. CASE UpdateRoots
  <2>1. phase' \in {"reset", "scrap"}
    BY <1>5, UpdateDoesNotTrap DEF UpdateRoots, UpdateFieldsOf
  <2> QED
    BY <1>b, <2>1 DEF Marked, Sweeping
<1>6. CASE ResetOrSave \/ ScrapGraveyard \/ Invalidate \/ ClearFlags
  BY <1>6, <1>b DEF ResetOrSave, Save, ScrapGraveyard, Invalidate, ClearFlags, EndWith, Marked, Sweeping
<1>7. CASE UNCHANGED vars
  <2>1. UNCHANGED <<phase, kind, field, forward, transplanted, marked, stack, written, store>>
    BY <1>7 DEF vars, gcVars, objVars, flagVars, rootVars
  <2>2. Variables' = Variables /\ \A a \in marked : Refers(Moved(a))' = Refers(Moved(a))
    BY <2>1 DEF Variables, Refers, Moved
  <2>3. Marked' = Marked
    BY <2>1 DEF Marked
  <2> QED
    BY <1>b, <1>c, <2>1, <2>2, <2>3 DEF HoldsMarked
<1> QED
  BY <1>1, <1>2, <1>3, <1>4, <1>5, <1>6, <1>7 DEF Next, Collection

LEMMA PreciseInit == Init => PreciseInv
  BY DEF Init, PreciseInv, Marked, Sweeping

-----------------------------------------------------------------------------
(***************************************************************************)
(* LostInv and OnceInv are inductive                                       *)
(***************************************************************************)
\* What a variable refers to is an object of the program.
LEMMA VariablesAreIntact ==
  ASSUME HeapInv, CollectionInv, GraphInv, phase = "mutator", NEW i \in written, stack[i] # None
  PROVE  stack[i] \in Intact /\ transplanted = {} /\ who[stack[i]] \in made
<1>1. PICK T \in SUBSET Addr : Holds(T)
  BY DEF GraphInv, Marked, Sweeping
<1>2. stack[i] \in Intact
  BY <1>1 DEF Holds, Variables
<1> QED
  BY <1>2 DEF Intact, HeapInv, ChunksInv, CollectionInv, FlagsInv, BeforeMark

\* What the program does to free functions: it may set one.
LEMMA ProgramFrees ==
  ASSUME HeapInv, CollectionInv, GraphInv, Program
  PROVE  /\ calls' = calls /\ made \subseteq made' /\ made' \subseteq Obj
         /\ \/ UNCHANGED <<free_func, registered>>
            \/ \E a \in Intact \ transplanted :
                 /\ "free" \in regime /\ UNCHANGED <<who, Intact>>
                 /\ free_func' = free_func \cup {a}
                 /\ registered' = registered \cup {who[a]} /\ who[a] \in made
         /\ \/ made' = made /\ UNCHANGED <<Intact, who>>
            \/ \E b \in Addr, n \in Obj \ made :
                 /\ ~InUse(b) /\ Intact' = Intact \cup {b} /\ made' = made \cup {n}
                 /\ who' = [who EXCEPT ![b] = n]
<1> DEFINE Frees == \/ UNCHANGED <<free_func, registered>>
                    \/ \E a \in Intact \ transplanted :
                         /\ "free" \in regime /\ UNCHANGED <<who, Intact>>
                         /\ free_func' = free_func \cup {a}
                         /\ registered' = registered \cup {who[a]} /\ who[a] \in made
           Makes == \/ made' = made /\ UNCHANGED <<Intact, who>>
                    \/ \E b \in Addr, n \in Obj \ made :
                         /\ ~InUse(b) /\ Intact' = Intact \cup {b} /\ made' = made \cup {n}
                         /\ who' = [who EXCEPT ![b] = n]
           Goal  == calls' = calls /\ made \subseteq made' /\ Frees /\ Makes
<1>a. made' \subseteq Obj
  BY HeapTypesNext DEF Next, HeapTypes
<1>b. ASSUME NEW b \in Addr, NEW n \in NextObj, NEW c \in Chunk, NEW list, NEW m,
             PlaceIn(b, c, list, m), InitAllocation(b, n)
      PROVE  Goal
  <2>1. /\ ~InUse(b) /\ Intact' = Intact \cup {b} /\ n \in Obj \ made
        /\ who' = [who EXCEPT ![b] = n]
    BY <1>b, AllocEffect
  <2> QED
    BY <1>b, <2>1 DEF InitAllocation
<1>1. ASSUME NEW t \in Thread, NEW c \in Chunk, NEW i \in 1 .. sp, Alloc(t, c, i) PROVE Goal
  <2>1. PICK b \in Addr, n \in NextObj, m \in Garbage \cup {num_indefinite[c]} :
          PlaceIn(b, c, "nursery", m) /\ InitAllocation(b, n)
    BY <1>1 DEF Alloc
  <2> HIDE DEF Goal
  <2> QED
    BY <1>b, <2>1
<1>2. ASSUME NEW c \in Chunk, NEW i \in 1 .. sp, AllocBig(c, i) PROVE Goal
  <2>1. PICK b \in Addr, n \in NextObj : PlaceIn(b, c, "big", 0) /\ InitAllocation(b, n)
    BY <1>2 DEF AllocBig
  <2> HIDE DEF Goal
  <2> QED
    BY <1>b, <2>1
<1>3. ASSUME NEW i \in 1 .. sp, SetFreeFunc(i) PROVE Goal
  <2>1. /\ phase = "mutator" /\ i \in written /\ stack[i] # None /\ "free" \in regime
        /\ free_func' = free_func \cup {stack[i]}
        /\ registered' = registered \cup {who[stack[i]]}
        /\ UNCHANGED <<kind, count, who, made, calls>>
    BY <1>3 DEF SetFreeFunc, chunkVars
  <2>2. stack[i] \in Intact \ transplanted /\ who[stack[i]] \in made
    BY <2>1, VariablesAreIntact
  <2>3. UNCHANGED Intact
    BY <2>1, IntactStays
  <2> QED
    BY <2>1, <2>2, <2>3
<1>c. ASSUME UNCHANGED <<kind, count, who, free_func, made, registered, calls>> PROVE Goal
  BY <1>c, IntactStays
<1> HIDE DEF Frees, Makes, Goal
<1>4. ASSUME NEW i \in 1 .. sp, NEW p \in Pointer, Load(i, p) PROVE Goal
  BY <1>4, <1>c DEF Load, chunkVars, objVars, ghostVars
<1>5. ASSUME NEW i \in 1 .. sp, NEW f \in Field, NEW p \in Pointer, StoreField(i, f, p) PROVE Goal
  BY <1>5, <1>c DEF StoreField, chunkVars, ghostVars
<1>6. ASSUME NEW p \in Pointer, SetStore(p) PROVE Goal
  BY <1>6, <1>c DEF SetStore, chunkVars, objVars, ghostVars
<1>7. ASSUME Push \/ Pop PROVE Goal
  <2>1. UNCHANGED <<kind, count, who, free_func, made, registered, calls>>
    BY <1>7 DEF Push, Pop, chunkVars, objVars, ghostVars
  <2> QED
    BY <1>c, <2>1
<1>8. ASSUME NEW t \in Thread, Exit(t) PROVE Goal
  BY <1>8, <1>c DEF Exit, objVars, ghostVars
<1>9. Goal
  BY <1>1, <1>2, <1>3, <1>4, <1>5, <1>6, <1>7, <1>8 DEF Program
<1> QED
  BY <1>a, <1>9 DEF Frees, Makes, Goal

LEMMA LostNext ==
  HeapInv /\ CollectionInv /\ GraphInv /\ LostInv /\ [Next]_vars => LostInv'
<1> SUFFICES ASSUME HeapInv, CollectionInv, GraphInv, LostInv, [Next]_vars PROVE LostInv'
  OBVIOUS
<1>a. /\ registered \subseteq Obj /\ calls \in [Obj -> 0 .. 2] /\ transplanted \subseteq Addr
      /\ \A x \in registered :
           calls[x] > 0 \/ \E a \in free_func \cap (Intact \ transplanted) : who[a] = x
      /\ Intact \subseteq Addr
  BY DEF LostInv, HeapInv, HeapTypes, Intact
\* Free functions stay with the objects that stay.
<1>b. ASSUME UNCHANGED <<registered, calls>>, Intact \ transplanted \subseteq Intact' \ transplanted',
             \A x \in Intact \ transplanted :
               who'[x] = who[x] /\ (x \in free_func => x \in free_func')
      PROVE  LostInv'
  BY <1>a, <1>b DEF LostInv
<1>1. CASE Program
  <2>1. transplanted' = transplanted /\ transplanted = {}
    BY <1>1, ProgramStep DEF CollectionInv, FlagsInv, BeforeMark, flagVars
  <2>2. \A x \in Intact : who'[x] = who[x] /\ x \in Intact'
    BY <1>1, <1>a, ProgramFrees DEF Intact, HeapInv, HeapTypes
  <2>3. CASE UNCHANGED <<free_func, registered>>
    BY <1>1, <1>b, <2>1, <2>2, <2>3, ProgramFrees
  <2>4. CASE \E a \in Intact \ transplanted :
               /\ free_func' = free_func \cup {a}
               /\ registered' = registered \cup {who[a]} /\ who[a] \in made
    <3>1. PICK a \in Intact \ transplanted :
            /\ free_func' = free_func \cup {a}
            /\ registered' = registered \cup {who[a]} /\ who[a] \in made
      BY <2>4
    <3>2. registered' \subseteq Obj /\ calls' = calls
      BY <1>1, <1>a, <3>1, ProgramFrees
    <3>3. ASSUME NEW x \in registered'
          PROVE  calls'[x] > 0 \/ \E d \in free_func' \cap (Intact' \ transplanted') : who'[d] = x
      BY <1>a, <2>1, <2>2, <3>1, <3>2
    <3> QED
      BY <3>2, <3>3 DEF LostInv
  <2> QED
    BY <1>1, <2>3, <2>4, ProgramFrees
<1>2. CASE Collect
  BY <1>2, <1>b, IntactStays DEF Collect, objVars, chunkVars, flagVars, ghostVars
<1>3. CASE Mark
  <2>1. transplanted' = transplanted
    BY <1>3 DEF Mark, MarkFrom
  <2> QED
    BY <1>3, <1>b, <2>1, IntactStays DEF Mark, MarkFrom, objVars, ghostVars
<1>4. ASSUME NEW a \in Addr, Leave(a) PROVE LostInv'
  BY <1>4, <1>b, IntactStays DEF Leave, Visit, objVars, chunkVars, flagVars, ghostVars
<1>5. ASSUME NEW a \in Addr, NEW c \in Chunk, Transplant(a, c) PROVE LostInv'
  <2>1. PICK b \in Addr :
          /\ b \notin Intact /\ b # a
          /\ Intact' = IF a \in Intact THEN Intact \cup {b} ELSE Intact
          /\ \A x \in Addr \ {b} : who'[x] = who[x]
          /\ who'[b] = who[a]
          /\ free_func' = free_func \cup {b : x \in free_func \cap {a}}
    BY <1>5, CopyEffect
  <2>2. /\ transplanted' = transplanted \cup {a} /\ phase \in Sweeping
        /\ UNCHANGED <<registered, calls>>
    BY <1>5, CopyRest
  <2>3. b \notin transplanted
    BY <2>1, <2>2 DEF CollectionInv, ForwardInv
  <2>4. ASSUME NEW x \in registered', ~(calls'[x] > 0)
        PROVE  \E d \in free_func' \cap (Intact' \ transplanted') : who'[d] = x
    <3>1. PICK d \in free_func \cap (Intact \ transplanted) : who[d] = x
      BY <1>a, <2>2, <2>4
    <3>2. CASE d = a
      BY <2>1, <2>2, <2>3, <3>1, <3>2
    <3>3. CASE d # a
      BY <1>a, <2>1, <2>2, <3>1, <3>3
    <3> QED
      BY <3>2, <3>3
  <2> QED
    BY <1>a, <2>2, <2>4 DEF LostInv
<1>6. ASSUME NEW a \in Addr, Finalize(a) PROVE LostInv'
  <2>1. /\ Intact' = Intact \ {a} /\ UNCHANGED <<who, transplanted, registered>>
        /\ free_func' = free_func \ {a}
        /\ calls' = [x \in Obj |-> IF x = who[a] /\ a \in free_func /\ calls[x] < 2
                                  THEN calls[x] + 1 ELSE calls[x]]
    BY <1>6, FinalizeEffect DEF Finalize, flagVars
  <2>2. ASSUME NEW x \in registered', ~(calls'[x] > 0)
        PROVE  \E d \in free_func' \cap (Intact' \ transplanted') : who'[d] = x
    <3>1. x \in Obj /\ calls[x] = 0
      BY <1>a, <2>1, <2>2
    <3>2. PICK d \in free_func \cap (Intact \ transplanted) : who[d] = x
      BY <1>a, <2>1, <3>1
    <3>3. d # a
      BY <2>1, <2>2, <3>1, <3>2
    <3> QED
      BY <2>1, <3>2, <3>3
  <2> QED
    BY <1>a, <2>1, <2>2 DEF LostInv
<1>7. CASE SweptNurseries
  BY <1>7, <1>b, IntactStays DEF SweptNurseries, objVars, chunkVars, flagVars, ghostVars
<1>8. CASE SweptAdults
  BY <1>8, <1>b, IntactStays DEF SweptAdults, objVars, chunkVars, flagVars, ghostVars
<1>9. CASE SweptUnkillables
  BY <1>9, <1>b, IntactStays DEF SweptUnkillables, objVars, chunkVars, flagVars, ghostVars
<1>10. CASE UpdateRoots
  BY <1>10, <1>b, IntactStays DEF UpdateRoots, UpdateFieldsOf, objVars, chunkVars, flagVars,
     ghostVars
<1>11. CASE ResetOrSave
  <2> QED
    BY <1>11, <1>b, ResetKeeps, ResetEffect DEF flagVars, ghostVars
<1>12. CASE ScrapGraveyard
  <2> QED
    BY <1>12, <1>b, ScrapKeeps DEF ScrapGraveyard, flagVars, ghostVars
<1>13. CASE Invalidate
  <2> QED
    BY <1>13, <1>b, InvalidateEffect DEF flagVars, ghostVars
<1>14. CASE ClearFlags
  BY <1>14, <1>b, IntactStays DEF ClearFlags, EndWith, objVars, chunkVars, flagVars,
     ghostVars
<1>15. CASE UNCHANGED vars
  BY <1>15, <1>b, IntactStays DEF vars, objVars, chunkVars, flagVars, ghostVars
<1> QED
  BY <1>1, <1>2, <1>3, <1>4, <1>5, <1>6, <1>7, <1>8, <1>9, <1>10, <1>11, <1>12, <1>13,
     <1>14, <1>15
  DEF Next, Collection, Sweep

LEMMA OnceNext ==
  FreeFuncsEndEarly /\ HeapInv /\ CollectionInv /\ GraphInv /\ OnceInv /\ [Next]_vars => OnceInv'
<1> SUFFICES ASSUME FreeFuncsEndEarly, HeapInv, CollectionInv, GraphInv, OnceInv, [Next]_vars
             PROVE  OnceInv'
  OBVIOUS
<1> DEFINE None_  == "free" \notin regime => free_func = {} /\ \A x \in Obj : calls[x] = 0
           Once   == \A x \in Obj :
                       /\ calls[x] <= 1
                       /\ calls[x] = 1 => x \in made /\ \A a \in Intact \ transplanted : who[a] # x
           Whole  == \A a \in Addr : InUse(a) /\ space[a[1]] = "nursery" =>
                       a \in Intact \/ (~BeforeMark /\ a \notin sweep)
<1>a. None_ /\ Once /\ Whole /\ Intact \subseteq Addr /\ calls \in [Obj -> 0 .. 2]
      /\ PhaseInv /\ ChunksInv /\ OneCopy /\ transplanted \subseteq Addr /\ sweep \subseteq Addr
  BY DEF OnceInv, Intact, HeapInv, HeapTypes, CollectionInv
<1>b. ASSUME None_', Once', Whole' PROVE OnceInv'
  BY <1>b DEF OnceInv
<1>r. regime' = regime
  BY DEF Next, Program, Collection, Sweep, Alloc, AllocBig, SetFreeFunc, Load, StoreField, SetStore,
         Push, Pop, Exit, Collect, Mark, MarkFrom, Leave, Transplant, Copy, Finalize, Visit,
         SweptNurseries, SweptAdults, SweptUnkillables, UpdateRoots, UpdateFieldsOf, ResetOrSave,
         Save, ScrapGraveyard, Invalidate, ClearFlags, EndWith, vars
<1>c. ASSUME UNCHANGED <<calls, made>>, free_func' \subseteq free_func,
             Intact' \ transplanted' \subseteq Intact \ transplanted,
             \A x \in Intact' : who'[x] = who[x]
      PROVE  None_' /\ Once'
  BY <1>a, <1>c, <1>r
\* The sweep of nurseries has seen what it left, and others see no nursery.
<1>d. ASSUME UNCHANGED <<count, space, Intact>>, BeforeMark' => BeforeMark, sweep' \subseteq sweep
      PROVE  Whole'
  BY <1>a, <1>d DEF InUse
<1>e. ASSUME \A d \in Chunk : space'[d] # "nursery" PROVE Whole'
  BY <1>e, AddrIsPair
<1>1. CASE Program
  <2>1. phase = "mutator" /\ phase' = "mutator" /\ UNCHANGED <<transplanted, sweep>> /\ transplanted = {}
    BY <1>1, ProgramStep DEF CollectionInv, FlagsInv, BeforeMark, flagVars
  <2>2. None_'
    BY <1>1, <1>a, <1>r, ProgramFrees
  <2>3. Once'
    <3>1. CASE made' = made /\ UNCHANGED <<Intact, who>>
      BY <1>1, <1>a, <2>1, <3>1, ProgramFrees
    <3>2. CASE \E b \in Addr, n \in Obj \ made :
                 /\ ~InUse(b) /\ Intact' = Intact \cup {b} /\ made' = made \cup {n}
                 /\ who' = [who EXCEPT ![b] = n]
      <4>1. PICK b \in Addr, n \in Obj \ made :
              /\ ~InUse(b) /\ Intact' = Intact \cup {b} /\ made' = made \cup {n}
              /\ who' = [who EXCEPT ![b] = n]
        BY <3>2
      <4>2. who'[b] = n /\ \A x \in Intact : who'[x] = who[x]
        BY <1>a, <4>1 DEF Intact, HeapInv, HeapTypes
      <4>3. calls' = calls
        BY <1>1, ProgramFrees
      <4> QED
        BY <1>a, <2>1, <4>1, <4>2, <4>3
    <3> QED
      BY <1>1, <3>1, <3>2, ProgramFrees
  <2>4. Whole'
    <3>1. ASSUME NEW b \in Addr, NEW n \in NextObj, NEW c \in Chunk, NEW m,
                 NEW list \in {"nursery", "big"}, space[c] \in {"unused", list},
                 PlaceIn(b, c, list, m), InitAllocation(b, n)
          PROVE  Whole'
      <4>1. /\ \A x \in Addr : x[2] <= count'[x[1]] <=> x[2] <= count[x[1]] \/ x = b
            /\ Intact' = Intact \cup {b}
            /\ \A d \in Chunk : space'[d] = IF d = c THEN list ELSE space[d]
        BY <3>1, Placing, AllocEffect DEF HeapInv
      <4>2. ASSUME NEW x \in Addr, x[2] <= count'[x[1]], space'[x[1]] = "nursery"
            PROVE  x \in Intact'
        <5>1. CASE x = b
          BY <4>1, <5>1
        <5>2. CASE x # b
          <6>1. x[1] \in Chunk /\ x[2] <= count[x[1]]
            BY <4>1, <4>2, <5>2, AddrIsPair
          <6>2. space[x[1]] = "nursery"
            <7>1. x[2] \in Nat \ {0}
              BY AddrIsPair, CollectorAssumption
            <7>2. space[x[1]] # "unused"
              BY <1>a, <6>1, <7>1 DEF ChunksInv
            <7> QED
              BY <3>1, <4>1, <4>2, <6>1, <7>2
          <6> QED
            BY <1>a, <2>1, <4>1, <6>1, <6>2 DEF InUse, BeforeMark
        <5> QED
          BY <5>1, <5>2
      <4> QED
        BY <4>2 DEF InUse
    <3>2. ASSUME NEW t \in Thread, NEW c \in Chunk, NEW i \in 1 .. sp, Alloc(t, c, i) PROVE Whole'
      <4>1. PICK b \in Addr, n \in NextObj, m \in Garbage \cup {num_indefinite[c]} :
              PlaceIn(b, c, "nursery", m) /\ InitAllocation(b, n)
        BY <3>2 DEF Alloc
      <4>2. space[c] \in {"unused", "nursery"}
        BY <3>2 DEF Alloc, Fresh, HeapInv, NurseryInv
      <4> HIDE DEF Whole
      <4> QED
        BY <3>1, <4>1, <4>2
    <3>3. ASSUME NEW c \in Chunk, NEW i \in 1 .. sp, AllocBig(c, i) PROVE Whole'
      <4>1. PICK b \in Addr, n \in NextObj : PlaceIn(b, c, "big", 0) /\ InitAllocation(b, n)
        BY <3>3 DEF AllocBig
      <4>2. space[c] \in {"unused", "big"}
        BY <3>3 DEF AllocBig, Fresh
      <4> HIDE DEF Whole
      <4> QED
        BY <3>1, <4>1, <4>2
    <3>4. ASSUME NEW t \in Thread, Exit(t) PROVE Whole'
      <4>1. UNCHANGED <<count, Intact>> /\ \A d \in Chunk : space'[d] = "nursery" => space[d] = "nursery"
        BY <3>4, IntactStays DEF Exit, objVars
      <4> QED
        BY <1>a, <2>1, <4>1, AddrIsPair DEF InUse, BeforeMark
    <3>5. CASE \/ \E i \in 1 .. sp : SetFreeFunc(i)
               \/ \E i \in 1 .. sp, p \in Pointer : Load(i, p)
               \/ \E i \in 1 .. sp, f \in Field, p \in Pointer : StoreField(i, f, p)
               \/ \E p \in Pointer : SetStore(p)
               \/ Push
               \/ Pop
      <4>1. UNCHANGED <<kind, count, space>>
        BY <3>5 DEF SetFreeFunc, Load, StoreField, SetStore, Push, Pop, chunkVars, objVars
      <4> QED
        BY <1>d, <2>1, <4>1, IntactStays DEF BeforeMark
    <3> HIDE DEF Whole
    <3> QED
      BY <1>1, <3>2, <3>3, <3>4, <3>5 DEF Program
  <2> QED
    BY <1>b, <2>2, <2>3, <2>4
<1>2. CASE Collect
  <2>1. UNCHANGED <<count, space, Intact, who, free_func, made, calls, transplanted>>
        /\ sweep' \subseteq sweep /\ (BeforeMark' => BeforeMark)
    BY <1>2, IntactStays DEF Collect, BeforeMark, Sweeping, chunkVars, objVars, flagVars, ghostVars
  <2> QED
    BY <1>b, <1>c, <1>d, <2>1
<1>3. CASE Mark
  <2>1. /\ UNCHANGED <<count, space, Intact, who, free_func, made, calls, transplanted>>
        /\ BeforeMark
    BY <1>3, IntactStays DEF Mark, MarkFrom, BeforeMark, objVars, ghostVars
  <2>2. Whole'
    BY <1>a, <2>1 DEF InUse
  <2> QED
    BY <1>b, <1>c, <2>1, <2>2
<1>4. ASSUME NEW a \in Addr, Leave(a) PROVE OnceInv'
  <2>1. UNCHANGED <<count, space, Intact, who, free_func, made, calls, transplanted>>
        /\ sweep' \subseteq sweep /\ (BeforeMark' => BeforeMark)
    BY <1>4, IntactStays DEF Leave, Visit, BeforeMark, Sweeping, chunkVars, objVars, flagVars, ghostVars
  <2> QED
    BY <1>b, <1>c, <1>d, <2>1
<1>5. ASSUME NEW a \in Addr, NEW c \in Chunk, Transplant(a, c) PROVE OnceInv'
  <2>1. PICK b \in Addr :
          /\ b \notin Intact /\ b # a /\ b[1] = c
          /\ Intact' = IF a \in Intact THEN Intact \cup {b} ELSE Intact
          /\ \A x \in Addr \ {b} : who'[x] = who[x]
          /\ who'[b] = who[a]
          /\ \A d \in Chunk : space'[d] = IF d = c THEN TransplantTo ELSE space[d]
          /\ free_func' = free_func \cup {b : x \in free_func \cap {a}}
    BY <1>5, CopyEffect
  <2>2. /\ transplanted' = transplanted \cup {a} /\ phase \in Sweeping /\ a \in sweep
        /\ sweep' = sweep \ {a}
        /\ UNCHANGED <<phase, made, calls>>
    BY <1>5, CopyRest
  <2>3. None_'
    BY <1>a, <1>r, <2>1, <2>2
  <2>4. a \notin transplanted
    BY <2>2 DEF CollectionInv, SweepInv
  <2>5. Once'
    BY <1>a, <2>1, <2>2, <2>4
  <2>6. PICK d \in Addr : PlaceIn(d, c, TransplantTo, num_indefinite[c])
    BY <1>5 DEF Transplant, Copy
  <2>7. \A x \in Addr \ {d} : x[2] <= count'[x[1]] => x[2] <= count[x[1]]
    BY <2>6, Placing DEF HeapInv
  <2>8. d[1] = c /\ TransplantTo # "nursery"
    BY <2>6, Placing DEF HeapInv, TransplantTo
  <2>9. Whole'
    <3> SUFFICES ASSUME NEW x \in Addr, x[2] <= count'[x[1]], space'[x[1]] = "nursery"
                 PROVE  x \in Intact' \/ (~BeforeMark' /\ x \notin sweep')
      BY DEF InUse
    <3>1. x[1] \in Chunk /\ x[1] # c /\ space[x[1]] = "nursery"
      BY <2>1, <2>8, AddrIsPair
    <3>2. x[2] <= count[x[1]]
      BY <2>7, <2>8, <3>1
    <3> QED
      BY <1>a, <2>1, <2>2, <3>1, <3>2 DEF InUse, BeforeMark
  <2> QED
    BY <1>b, <2>3, <2>5, <2>9
<1>6. ASSUME NEW a \in Addr, Finalize(a) PROVE OnceInv'
  <2>1. /\ Intact' = Intact \ {a} /\ sweep' = sweep \ {a} /\ InUse(a) /\ a \in sweep
        /\ phase \in Sweeping
        /\ UNCHANGED <<phase, space, count, who, transplanted, made>>
        /\ free_func' = free_func \ {a}
        /\ calls' = [x \in Obj |-> IF x = who[a] /\ a \in free_func /\ calls[x] < 2
                                  THEN calls[x] + 1 ELSE calls[x]]
    BY <1>6, FinalizeEffect DEF Finalize, flagVars, chunkVars
  <2>2. None_'
    BY <1>a, <1>r, <2>1
  <2>3. Whole'
    BY <1>a, <2>1 DEF InUse, BeforeMark, Sweeping
  <2>4. Once'
    <3>1. CASE a \notin free_func
      BY <1>a, <2>1, <3>1
    <3>2. CASE a \in free_func
      <4>1. "free" \in regime
        BY <1>a, <3>2
      <4>2. "major" \notin regime
        BY <4>1 DEF FreeFuncsEndEarly, HeapInv, HeapTypes
      <4>3. phase = "sweep_nurseries"
        BY <1>a, <2>1, <4>2 DEF PhaseInv, Sweeping
      <4>4. space[a[1]] = "nursery" /\ a \notin transplanted
        BY <2>1, <4>3 DEF CollectionInv, SweepInv
      <4>5. a \in Intact
        BY <1>a, <2>1, <4>4
      <4>6. who[a] \in made /\ who[a] \in Obj
        BY <2>1 DEF HeapInv, ChunksInv, HeapTypes
      <4>7. calls[who[a]] = 0
        <5>1. calls[who[a]] # 1 /\ calls[who[a]] <= 1
          BY <1>a, <4>4, <4>5, <4>6
        <5> QED
          BY <1>a, <4>6, <5>1
      <4>8. \A x \in Obj : calls'[x] = IF x = who[a] THEN 1 ELSE calls[x]
        BY <1>a, <2>1, <3>2, <4>7
      <4>9. \A x \in Intact' \ transplanted' : who'[x] # who[a]
        BY <1>a, <2>1, <4>4, <4>5 DEF OneCopy
      <4> QED
        BY <1>a, <2>1, <4>6, <4>8, <4>9
    <3> QED
      BY <3>1, <3>2
  <2> QED
    BY <1>b, <2>2, <2>3, <2>4
<1>7. CASE SweptNurseries
  <2>1. UNCHANGED <<count, space, Intact, who, free_func, made, calls, transplanted>>
        /\ sweep' \subseteq sweep /\ (BeforeMark' => BeforeMark)
    BY <1>7, IntactStays DEF SweptNurseries, BeforeMark, Sweeping, chunkVars, objVars, flagVars, ghostVars
  <2> QED
    BY <1>b, <1>c, <1>d, <2>1
<1>8. CASE SweptAdults
  <2>1. UNCHANGED <<Intact, who, free_func, made, calls, transplanted>>
    BY <1>8, IntactStays DEF SweptAdults, objVars, flagVars, ghostVars
  <2>2. \A d \in Chunk : space'[d] # "nursery"
    <3>1. \A d \in Chunk : space[d] # "nursery"
      BY <1>8, <1>a DEF SweptAdults, PhaseInv, In
    <3> QED
      BY <1>8, <3>1 DEF SweptAdults
  <2> QED
    BY <1>b, <1>c, <1>e, <2>1, <2>2
<1>9. CASE SweptUnkillables
  <2>1. UNCHANGED <<Intact, who, free_func, made, calls, transplanted>>
    BY <1>9, IntactStays DEF SweptUnkillables, objVars, flagVars, ghostVars
  <2>2. \A d \in Chunk : space'[d] # "nursery"
    <3>1. \A d \in Chunk : space[d] # "nursery"
      BY <1>9, <1>a DEF SweptUnkillables, PhaseInv, In
    <3> QED
      BY <1>9, <3>1 DEF SweptUnkillables
  <2> QED
    BY <1>b, <1>c, <1>e, <2>1, <2>2
<1>10. CASE UpdateRoots
  <2>1. UNCHANGED <<count, space, Intact, who, free_func, made, calls, transplanted>>
        /\ sweep' \subseteq sweep /\ (BeforeMark' => BeforeMark)
    BY <1>10, IntactStays DEF UpdateRoots, UpdateFieldsOf, BeforeMark, Sweeping, chunkVars, objVars, flagVars, ghostVars
  <2> QED
    BY <1>b, <1>c, <1>d, <2>1
<1>11. CASE ResetOrSave
  <2> DEFINE gone == {d \in Chunk : space[d] = "nursery" /\ num_indefinite[d] = 0}
  <2>1. /\ Erase(gone) /\ UNCHANGED <<made, calls, transplanted>>
        /\ \A d \in Chunk : space'[d] # "nursery"
    BY <1>11, ResetEffect DEF flagVars, ghostVars
  <2> HIDE DEF gone
  <2>2. Intact' \subseteq Intact /\ free_func' \subseteq free_func
        /\ \A x \in Intact' : who'[x] = who[x]
    BY <1>a, <2>1, EraseEffect
  <2> QED
    BY <1>b, <1>c, <1>e, <2>1, <2>2
<1>12. CASE ScrapGraveyard
  <2>1. /\ Erase(In("graveyard")) /\ UNCHANGED <<made, calls, transplanted>>
        /\ \A d \in Chunk : space'[d] # "nursery"
    <3>1. \A d \in Chunk : space[d] # "nursery"
      BY <1>12, <1>a DEF ScrapGraveyard, PhaseInv, In
    <3> QED
      BY <1>12, <3>1 DEF ScrapGraveyard, flagVars, ghostVars
  <2>2. Intact' \subseteq Intact /\ free_func' \subseteq free_func
        /\ \A x \in Intact' : who'[x] = who[x]
    BY <1>a, <2>1, EraseEffect
  <2> QED
    BY <1>b, <1>c, <1>e, <2>1, <2>2
<1>13. CASE Invalidate
  <2>1. /\ Intact' \subseteq Intact
        /\ UNCHANGED <<space, who, free_func, made, calls, transplanted>> /\ phase = "invalidate"
    BY <1>13, InvalidateEffect DEF flagVars, ghostVars, chunkVars
  <2>2. \A d \in Chunk : space'[d] # "nursery"
    BY <1>a, <2>1 DEF PhaseInv, In
  <2> QED
    BY <1>b, <1>c, <1>e, <2>1, <2>2
<1>14. CASE ClearFlags
  <2>1. /\ UNCHANGED <<Intact, space, who, free_func, made, calls>> /\ phase = "clear"
        /\ transplanted' = {}
    BY <1>14, IntactStays DEF ClearFlags, EndWith, objVars, ghostVars
  <2>2. \A d \in Chunk : space'[d] # "nursery"
    BY <1>a, <2>1 DEF PhaseInv, In
  <2>3. \A x \in transplanted : x \notin Intact
    BY <2>1 DEF CollectionInv, ForwardInv
  <2> QED
    BY <1>b, <1>c, <1>e, <2>1, <2>2, <2>3
<1>15. CASE UNCHANGED vars
  <2>1. UNCHANGED <<phase, sweep, count, space, Intact, who, free_func, made, calls, transplanted>>
    BY <1>15, IntactStays DEF vars, gcVars, chunkVars, objVars, flagVars, ghostVars
  <2>2. Whole'
    BY <1>d, <2>1 DEF BeforeMark
  <2> QED
    BY <1>b, <1>c, <2>1, <2>2
<1> QED
  BY <1>1, <1>2, <1>3, <1>4, <1>5, <1>6, <1>7, <1>8, <1>9, <1>10, <1>11, <1>12, <1>13,
     <1>14, <1>15
  DEF Next, Collection, Sweep
LEMMA LostInit == Init => LostInv
  BY DEF Init, LostInv

LEMMA OnceInit == Init => OnceInv
<1> SUFFICES ASSUME Init PROVE OnceInv
  OBVIOUS
<1>1. free_func = {} /\ \A o \in Obj : calls[o] = 0
  BY DEF Init
<1>2. \A a \in Addr : ~(InUse(a) /\ space[a[1]] = "nursery")
  BY AddrIsPair DEF Init
<1> QED
  BY <1>1, <1>2 DEF OnceInv

\* Marking marks the least set.
LEMMA MarkIsLeast ==
  ASSUME HeapInv, CollectionInv, Mark
  PROVE  MarkedIsLeast'
<1>1. /\ marked' \subseteq Intact /\ transplanted' = {} /\ transplanted = {}
      /\ UNCHANGED <<kind, field, stack, sp, store>>
  BY MarkMarks DEF Mark, MarkFrom, CollectionInv, FlagsInv, BeforeMark, objVars, rootVars
<1> SUFFICES ASSUME NEW S \in SUBSET marked',
                    (StackRoots \cup {store}) \cap marked' \subseteq S,
                    \A a \in S : Refers(a) \cap marked' \subseteq S
             PROVE  marked' \subseteq S
  <2>1. StackRoots' = StackRoots
    BY <1>1 DEF StackRoots
  <2>2. \A a \in marked' : Refers(Moved(a))' = Refers(a)
    BY <1>1 DEF Moved, Refers
  <2> QED  BY <1>1, <2>1, <2>2 DEF MarkedIsLeast
<1> DEFINE roots == {p \in StackRoots \cup {store} : Valid(p)}
<1>2. marked' = Closure(roots, ValidEdges)
  <2>1. {p \in StackRoots : Valid(p)} \cup {p \in {store} : Valid(p)} = roots
    OBVIOUS
  <2> QED  BY <2>1 DEF Mark, MarkFrom
<1>3. roots \subseteq S
  <2>1. \A p \in roots : p # None
    BY DEF Valid, Found
  <2> QED  BY <2>1, MarkMarks
<1>4. S \subseteq ObjectsIn(Chunk) /\ S \subseteq Addr
  BY <1>1, IntactIsValid
<1>5. \A a \in S : ValidEdges[a] \subseteq S
  BY <1>1, <1>4, MarkMarks DEF ValidEdges
<1> HIDE DEF roots
<1> QED  BY <1>2, <1>3, <1>4, <1>5, ClosureIsLeast

\* Updating visits all that was marked, and leaves it the least set where it is now.
LEMMA UpdateIsLeast ==
  ASSUME HeapInv, CollectionInv, MarkedIsLeast, UpdateRoots, ~UpdateTraps
  PROVE  LET K == {Moved(m) : m \in marked} IN K \subseteq Intact \ transplanted /\ IsLeast(K)'
<1> DEFINE K == {Moved(m) : m \in marked}
<1>1. /\ phase = "update" /\ Marked
      /\ UNCHANGED <<kind, count, forward, transplanted, marked, stack, sp, written>>
      /\ store' = Moved(store)
      /\ field' = [a \in Addr |-> IF a \in Updated /\ kind[a] = "object"
                                  THEN [f \in Field |-> Moved(field[a][f])] ELSE field[a]]
  BY DEF UpdateRoots, UpdateFieldsOf, Marked, chunkVars, flagVars
<1>2. \A m \in marked : /\ Moved(m) \in Intact \ transplanted /\ Found(m)
                        /\ m \in Addr /\ Moved(m) \in Addr
  BY <1>1, MovedIsIntact DEF Intact
<1>3. \A m \in marked : Moved(m) \in Updated
  <2> DEFINE S == {m \in marked : Moved(m) \in Updated}
  <2>1. (StackRoots \cup {store}) \cap marked \subseteq S
    BY <1>1, <1>2, UpdatedIsClosed
  <2>2. \A a \in S : Refers(Moved(a)) \cap marked \subseteq S
    BY <1>1, <1>2, UpdatedIsClosed
  <2>3. S \in SUBSET marked
    OBVIOUS
  <2> HIDE DEF S
  <2>4. marked \subseteq S
    BY <2>1, <2>2, <2>3 DEF MarkedIsLeast
  <2> QED  BY <2>4 DEF S
<1>4. \A p \in StackRoots : Moved(p) = p
  BY DEF Moved, CollectionInv, FlagsInv
<1>5. StackRoots' = StackRoots
  BY <1>1 DEF StackRoots
<1>6. ASSUME NEW R \in SUBSET K,
             (StackRoots' \cup {store'}) \cap K \subseteq R,
             \A a \in R : Refers(a)' \cap K \subseteq R
      PROVE  K \subseteq R
  <2> DEFINE S == {m \in marked : Moved(m) \in R}
  <2>1. (StackRoots \cup {store}) \cap marked \subseteq S
    BY <1>1, <1>4, <1>5, <1>6
  <2>2. ASSUME NEW a \in S, NEW p \in Refers(Moved(a)) \cap marked PROVE p \in S
    <3>1. kind[Moved(a)] = "object" /\ Moved(a) \in Updated /\ Moved(a) \in Addr
      BY <1>2, <1>3, <2>2 DEF Refers
    <3>2. PICK f \in Field : p = field[Moved(a)][f]
      BY <2>2, <3>1 DEF Refers
    <3>3. field'[Moved(a)][f] = Moved(p) /\ kind'[Moved(a)] = "object"
      BY <1>1, <3>1, <3>2
    <3>4. Moved(p) \in Refers(Moved(a))'
      <4> DEFINE b == Moved(a)
      <4>1. field'[b][f] = Moved(p) /\ kind'[b] = "object"
        BY <3>3
      <4>2. Moved(a)' = b /\ Moved(p)' = Moved(p)
        BY <1>1 DEF Moved
      <4> HIDE DEF b
      <4>3. Moved(p) \in {field'[b][g] : g \in Field}
        BY <4>1
      <4> QED  BY <4>1, <4>2, <4>3 DEF Refers
    <3>5. Refers(Moved(a))' \cap K \subseteq R
      <4>1. Moved(a)' = Moved(a)
        BY <1>1 DEF Moved
      <4>2. PICK b \in R : b = Moved(a)
        BY <2>2
      <4> QED  BY <1>6, <4>1, <4>2 DEF Refers
    <3> QED  BY <2>2, <3>4, <3>5
  <2>3. S \in SUBSET marked
    OBVIOUS
  <2> HIDE DEF S
  <2>4. marked \subseteq S
    BY <2>1, <2>2, <2>3 DEF MarkedIsLeast
  <2> QED  BY <2>4 DEF S
<1>7. K \subseteq Intact \ transplanted
  BY <1>2
<1>8. PICK J : J = K
  OBVIOUS
<1>9. IsLeast(J)'
  <2> HIDE DEF K
  <2> QED  BY <1>6, <1>8 DEF IsLeast
<1>10. K' = K
  BY <1>1 DEF Moved
<1> QED  BY <1>7, <1>8, <1>9, <1>10 DEF IsLeast

LEMMA PinnedHeapsNext ==
  HeapInv /\ CollectionInv /\ PinnedHeaps /\ [Next]_vars => PinnedHeaps'
<1> SUFFICES ASSUME HeapInv, CollectionInv, PinnedHeaps, [Next]_vars PROVE PinnedHeaps'
  OBVIOUS
<1>a. PhaseInv /\ PhaseInv' /\ CountersInv /\ num_indefinite \in [Chunk -> Nat]
  BY HeapInvNext, CollectorAssumption DEF HeapInv, HeapTypes, CollectionInv
<1>b. ASSUME UNCHANGED <<collection, num_indefinite, indefinite, space, stack, sp>>,
             phase # "mark", phase' # "mark", collection = "second" /\ phase \in Sweeping => phase' \in Sweeping
      PROVE  PinnedHeaps'
  BY <1>b DEF PinnedHeaps, InMajor, StackRoots
<1>1. CASE Program
  BY <1>1, <1>a, ProgramStep DEF PhaseInv, PinnedHeaps, InMajor
<1>2. CASE Collect
  BY <1>2 DEF Collect, PinnedHeaps, InMajor
<1>3. CASE Mark
  <2>1. /\ indefinite' = {p \in StackRoots : Valid(p)} /\ StackRoots' = StackRoots
        /\ \A c \in Chunk : num_indefinite'[c] =
             (num_indefinite[c] + Cardinality({p \in indefinite' : p[1] = c})) % Wrap
        /\ UNCHANGED <<collection, space>> /\ phase = "mark" /\ phase' \in Sweeping
    BY <1>3 DEF Mark, MarkFrom, rootVars, StackRoots, Sweeping
  <2>2. ASSUME InMajor', NEW c \in Chunk, num_indefinite'[c] > 0
        PROVE  \E p \in StackRoots' \cap indefinite' : p[1] = c
    <3> DEFINE here == {p \in indefinite' : p[1] = c}
    <3>1. num_indefinite[c] = 0
      BY <1>a, <2>1, <2>2 DEF CountersInv, BeforeMark, InMajor
    <3>2. here \in SUBSET StackRoots
      BY <2>1
    <3>3. CASE here = {}
      <4>1. Cardinality(here) = 0
        BY <3>3, FS_EmptySet
      <4>2. (0 + 0) % Wrap = 0
        BY CollectorAssumption
      <4> HIDE DEF here
      <4> QED  BY <2>1, <2>2, <3>1, <4>1, <4>2 DEF here
    <3>4. CASE here # {}
      BY <2>1, <3>4
    <3> QED  BY <3>3, <3>4
  <2>3. \A c \in Chunk : space[c] # "new_unkillable"
    BY <1>a, <2>1 DEF PhaseInv, In
  <2> QED  BY <2>1, <2>2, <2>3 DEF PinnedHeaps
<1>4. ASSUME NEW a \in Addr, Leave(a) PROVE PinnedHeaps'
  BY <1>4, <1>b DEF Leave, Visit, Sweeping, chunkVars, flagVars, rootVars
<1>5. ASSUME NEW a \in Addr, NEW c \in Chunk, Transplant(a, c) PROVE PinnedHeaps'
  <2>1. /\ UNCHANGED <<phase, collection, num_indefinite, indefinite, stack, sp>> /\ phase \in Sweeping
    BY <1>5, CopyRest DEF rootVars
  <2>2. \A d \in Chunk : space'[d] \in {"new_unkillable", "unkillable"} => space'[d] = space[d]
    BY <1>5, CopyEffect DEF TransplantTo
  <2> QED  BY <2>1, <2>2 DEF PinnedHeaps, InMajor, StackRoots
<1>6. ASSUME NEW a \in Addr, Finalize(a) PROVE PinnedHeaps'
  BY <1>6, <1>b, FinalizeEffect DEF Sweeping, chunkVars, flagVars, rootVars
<1>7. CASE SweptNurseries
  BY <1>7, <1>a DEF SweptNurseries, PhaseInv, PinnedHeaps, InMajor
<1>8. CASE SweptAdults
  <2>1. /\ UNCHANGED <<collection, num_indefinite, indefinite, stack, sp>>
        /\ phase = "sweep_adults" /\ phase' = "sweep_unkillables"
    BY <1>8 DEF SweptAdults, flagVars, rootVars
  <2>2. \A d \in Chunk : space'[d] = "new_unkillable" =>
          space[d] = "new_unkillable" \/ num_indefinite[d] > 0
    BY <1>8 DEF SweptAdults
  <2> QED  BY <2>1, <2>2 DEF PinnedHeaps, InMajor, StackRoots, Sweeping
<1>9. CASE SweptUnkillables
  <2>1. /\ UNCHANGED <<collection, num_indefinite, indefinite, stack, sp>>
        /\ phase = "sweep_unkillables" /\ phase' = "update"
    BY <1>9 DEF SweptUnkillables, flagVars, rootVars
  <2>2. \A d \in Chunk : /\ space'[d] = "unkillable" =>
                              space[d] = "new_unkillable" \/ num_indefinite[d] # 0
                         /\ space'[d] # "new_unkillable"
    BY <1>9 DEF SweptUnkillables
  <2> QED  BY <1>a, <2>1, <2>2 DEF PinnedHeaps, InMajor, StackRoots, Sweeping
<1>10. CASE UpdateRoots
  BY <1>10, <1>b DEF UpdateRoots, UpdateFieldsOf, flagVars, chunkVars, Sweeping
<1>11. CASE ResetOrSave
  BY <1>11, <1>a, ResetEffect DEF PhaseInv, PinnedHeaps, InMajor
<1>12. CASE ScrapGraveyard
  <2>1. /\ UNCHANGED <<collection, num_indefinite, indefinite, stack, sp>>
        /\ phase = "scrap" /\ phase' = "invalidate"
        /\ \A d \in Chunk : space'[d] \in {"new_unkillable", "unkillable"} => space'[d] = space[d]
    BY <1>12 DEF ScrapGraveyard, flagVars, rootVars
  <2> QED  BY <2>1 DEF PinnedHeaps, InMajor, StackRoots, Sweeping
<1>13. CASE Invalidate
  BY <1>13, <1>b DEF Invalidate, flagVars, rootVars, chunkVars, Sweeping
<1>14. CASE ClearFlags
  BY <1>14 DEF ClearFlags, EndWith, PinnedHeaps, InMajor
<1>15. CASE UNCHANGED vars
  BY <1>15 DEF vars, flagVars, chunkVars, gcVars, rootVars, PinnedHeaps, InMajor, StackRoots
<1> QED
  BY <1>1, <1>2, <1>3, <1>4, <1>5, <1>6, <1>7, <1>8, <1>9, <1>10, <1>11, <1>12, <1>13,
     <1>14, <1>15
  DEF Next, Collection, Sweep

LEMMA SurvivorsNext ==
  HeapInv /\ CollectionInv /\ Survivors /\ [Next]_vars => Survivors'
<1> SUFFICES ASSUME HeapInv, CollectionInv, Survivors, [Next]_vars PROVE Survivors'
  OBVIOUS
<1>a. PhaseInv /\ PhaseInv' /\ \A a \in Intact : a \in Addr /\ a[1] \in Chunk
  BY HeapInvNext, AddrIsPair DEF HeapInv, Intact
<1>b. ASSUME phase' \notin Sweeping \cup {"update"} \/ collection' # "second" PROVE Survivors'
  BY <1>b DEF Survivors, InMajor
<1>1. CASE Program
  BY <1>1, <1>b, ProgramStep DEF Sweeping
<1>2. CASE Collect
  BY <1>2, <1>b DEF Collect, Sweeping
<1>3. CASE Mark
  <2>1. /\ UNCHANGED <<Intact, space, collection>> /\ phase = "mark"
        /\ collection = "second" => phase' = "sweep_adults"
    BY <1>3, IntactStays DEF Mark, MarkFrom, objVars
  <2>2. \A c \in Chunk : space[c] # "new_adult"
    BY <1>a, <2>1 DEF PhaseInv, In
  <2> QED  BY <1>a, <2>1, <2>2 DEF Survivors, InMajor
<1>4. ASSUME NEW a \in Addr, Leave(a) PROVE Survivors'
  BY <1>4, IntactStays DEF Leave, Visit, chunkVars, flagVars, objVars, Survivors, InMajor
<1>5. ASSUME NEW a \in Addr, NEW c \in Chunk, Transplant(a, c) PROVE Survivors'
  <2>1. PICK b \in Addr :
          /\ b[1] = c
          /\ Intact' = IF a \in Intact THEN Intact \cup {b} ELSE Intact
          /\ \A x \in Addr \ {a} : forward'[x] = forward[x]
          /\ forward'[a] = b
          /\ \A d \in Chunk : space'[d] = IF d = c THEN TransplantTo ELSE space[d]
          /\ space[c] \in {"unused", TransplantTo}
    BY <1>5, CopyEffect
  <2>2. /\ UNCHANGED <<phase, collection>> /\ transplanted' = transplanted \cup {a} /\ a \in sweep
        /\ phase \in Sweeping
    BY <1>5, CopyRest
  <2>3. a \notin transplanted /\ transplanted \subseteq Addr
    BY <2>2 DEF CollectionInv, SweepInv, HeapInv, HeapTypes
  <2>4. \A x \in Intact : space[x[1]] # "unused"
    BY <1>a, IntactIsValid DEF Found
  <2>5. ASSUME NEW x \in Intact', InMajor',
               space'[x[1]] = (IF phase' = "sweep_adults" THEN "new_adult" ELSE "adult")
        PROVE  \E m \in transplanted' : forward'[m] = x
    <3>1. CASE x = b
      BY <2>1, <2>2, <3>1
    <3>2. CASE x # b
      <4>1. x \in Intact
        BY <2>1, <3>2
      <4>2. space[x[1]] = (IF phase = "sweep_adults" THEN "new_adult" ELSE "adult")
        BY <1>a, <2>1, <2>2, <2>4, <2>5, <4>1 DEF TransplantTo
      <4>3. PICK m \in transplanted : forward[m] = x
        BY <2>2, <2>5, <4>1, <4>2 DEF Survivors, InMajor
      <4> QED  BY <2>1, <2>2, <2>3, <4>3
    <3> QED  BY <3>1, <3>2
  <2> QED  BY <2>5 DEF Survivors
<1>6. ASSUME NEW a \in Addr, Finalize(a) PROVE Survivors'
  BY <1>6, FinalizeEffect DEF Survivors, InMajor, chunkVars, flagVars
<1>7. CASE SweptNurseries
  BY <1>7, <1>a, <1>b DEF SweptNurseries, PhaseInv
<1>8. CASE SweptAdults
  <2>1. /\ UNCHANGED <<collection, Intact, forward, transplanted>>
        /\ phase = "sweep_adults" /\ phase' = "sweep_unkillables" /\ collection = "second"
    BY <1>8, <1>a, IntactStays DEF SweptAdults, objVars, flagVars, PhaseInv
  <2>2. \A d \in Chunk : space'[d] = "adult" => space[d] = "new_adult"
    <3>1. ASSUME NEW d \in Chunk, space[d] = "adult" PROVE num_indefinite[d] > 0 \/ num_indefinite[d] = 0
      BY CollectorAssumption DEF HeapInv, HeapTypes
    <3> QED  BY <1>8, <3>1 DEF SweptAdults
  <2> QED  BY <1>a, <2>1, <2>2 DEF Survivors, InMajor, Sweeping
<1>9. CASE SweptUnkillables
  <2>1. /\ UNCHANGED <<collection, Intact, forward, transplanted>>
        /\ phase = "sweep_unkillables" /\ phase' = "update"
        /\ \A d \in Chunk : space'[d] = "adult" => space[d] = "adult"
    BY <1>9, IntactStays DEF SweptUnkillables, objVars, flagVars
  <2> QED  BY <1>a, <2>1 DEF Survivors, InMajor, Sweeping
<1>10. CASE UpdateRoots
  BY <1>10, <1>b DEF UpdateRoots, UpdateFieldsOf, Sweeping
<1>11. CASE ResetOrSave
  BY <1>11, <1>b, ResetEffect DEF Sweeping
<1>12. CASE ScrapGraveyard
  BY <1>12, <1>b DEF ScrapGraveyard, Sweeping
<1>13. CASE Invalidate
  BY <1>13, <1>b DEF Invalidate, Sweeping
<1>14. CASE ClearFlags
  BY <1>14, <1>b DEF ClearFlags, EndWith, Sweeping
<1>15. CASE UNCHANGED vars
  BY <1>15, IntactStays DEF vars, flagVars, chunkVars, gcVars, objVars, Survivors, InMajor
<1> QED
  BY <1>1, <1>2, <1>3, <1>4, <1>5, <1>6, <1>7, <1>8, <1>9, <1>10, <1>11, <1>12, <1>13,
     <1>14, <1>15
  DEF Next, Collection, Sweep

LEMMA KeptNext ==
  HeapInv /\ CollectionInv /\ (Marked => MarkedIsLeast) /\ Survivors /\ KeptInv /\ [Next]_vars => KeptInv'
<1> SUFFICES ASSUME HeapInv, CollectionInv, Marked => MarkedIsLeast, Survivors, KeptInv, [Next]_vars,
                    collection' = "second", phase' \in {"scrap", "invalidate", "clear"}
             PROVE  \E K \in SUBSET Addr : Kept(K)'
  BY DEF KeptInv
<1>a. PhaseInv /\ \A a \in Intact : a \in Addr /\ a[1] \in Chunk
  BY AddrIsPair DEF HeapInv, Intact
\* Heaps are given back, or left, but for what was left behind.
<1>b. ASSUME collection = "second", phase \in {"scrap", "invalidate", "clear"},
             Intact \ transplanted \subseteq Intact', Intact' \subseteq Intact,
             UNCHANGED <<transplanted, stack, sp, store>>,
             \A x \in Intact \ transplanted : kind'[x] = kind[x] /\ field'[x] = field[x],
             \A c \in Chunk : space'[c] \in {"adult", "unkillable"} => space'[c] = space[c]
      PROVE  \E K \in SUBSET Addr : Kept(K)'
  <2>1. PICK K \in SUBSET Addr : Kept(K)
    BY <1>b DEF KeptInv
  <2>2. K \subseteq Intact \ transplanted
    BY <2>1 DEF Kept
  <2>3. \A a \in K : Refers(a)' = Refers(a)
    BY <1>b, <2>2 DEF Refers
  <2>4. StackRoots' = StackRoots /\ store' = store
    BY <1>b DEF StackRoots
  <2>5. IsLeast(K)'
    BY <2>1, <2>3, <2>4 DEF Kept, IsLeast
  <2>6. \A a \in Intact' \ transplanted' : space'[a[1]] \in {"adult", "unkillable"} => a \in K
    BY <1>a, <1>b, <2>1 DEF Kept
  <2> QED  BY <1>b, <2>2, <2>5, <2>6 DEF Kept
<1>1. CASE Program
  BY <1>1, ProgramStep
<1>2. CASE Collect
  BY <1>2 DEF Collect
<1>3. CASE Mark
  BY <1>3 DEF Mark, MarkFrom
<1>4. CASE Sweep
  BY <1>4, SweepKeeps DEF Marked, Sweeping
<1>5. CASE UpdateRoots
  <2> DEFINE K == {Moved(m) : m \in marked}
  <2>1. ~UpdateTraps /\ phase = "update" /\ phase' = "scrap" /\ collection = "second"
        /\ UNCHANGED <<kind, count, space, transplanted, forward, marked>>
    BY <1>5 DEF UpdateRoots, UpdateFieldsOf, chunkVars, flagVars
  <2>2. Marked /\ MarkedIsLeast /\ UNCHANGED Intact
    BY <2>1, IntactStays DEF Marked
  <2>3. K \subseteq Intact \ transplanted /\ IsLeast(K)'
    BY <1>5, <2>1, <2>2, UpdateIsLeast
  <2>4. ASSUME NEW a \in Intact \ transplanted, space[a[1]] \in {"adult", "unkillable"} PROVE a \in K
    <3>1. CASE space[a[1]] = "adult"
      <4>1. PICK m \in transplanted : forward[m] = a
        BY <2>1, <2>4, <3>1 DEF Survivors, InMajor
      <4>2. m \in marked /\ Moved(m) = a
        BY <4>1 DEF CollectionInv, FlagsInv, Moved
      <4> QED  BY <4>2
    <3>2. CASE space[a[1]] = "unkillable"
      <4>1. a[1] \in Swept /\ sweep = {}
        BY <1>a, <2>1, <3>2 DEF Swept, PhaseInv, Sweeping
      <4>2. a \in indefinite
        BY <2>1, <2>4, <4>1 DEF CollectionInv, SweepInv
      <4>3. a \in marked /\ Moved(a) = a
        BY <2>4, <4>2 DEF CollectionInv, FlagsInv, Moved
      <4> QED  BY <4>3
    <3> QED  BY <2>4, <3>1, <3>2
  <2>5. K' = K
    BY <2>1 DEF Moved
  <2>6. PICK J \in SUBSET Addr : J = K
    BY <2>3 DEF Intact
  <2>7. IsLeast(J)'
    <3> HIDE DEF K
    <3> QED  BY <2>3, <2>5, <2>6 DEF IsLeast
  <2>8. J \subseteq Intact' \ transplanted'
    BY <2>1, <2>2, <2>3, <2>6
  <2>9. \A a \in Intact' \ transplanted' : space'[a[1]] \in {"adult", "unkillable"} => a \in J
    BY <2>1, <2>2, <2>4, <2>6
  <2>10. Kept(J)'
    BY <2>7, <2>8, <2>9 DEF Kept
  <2> QED  BY <2>10
<1>6. CASE ResetOrSave
  BY <1>6, <1>a, ResetEffect DEF PhaseInv
<1>7. CASE ScrapGraveyard
  <2>1. /\ UNCHANGED <<transplanted, stack, sp, store, collection>> /\ phase = "scrap"
        /\ Intact' \subseteq Intact
        /\ \A c \in Chunk : space'[c] \in {"adult", "unkillable"} => space'[c] = space[c]
    BY <1>7, EraseEffect DEF ScrapGraveyard, flagVars, rootVars
  <2> QED  BY <1>7, <1>b, <2>1, ScrapKeeps
<1>8. CASE Invalidate
  <2>1. /\ UNCHANGED <<transplanted, stack, sp, store, collection, space, field>> /\ phase = "invalidate"
        /\ Intact' \subseteq Intact /\ Intact \ transplanted \subseteq Intact'
        /\ \A x \in Intact' : kind'[x] = kind[x]
    BY <1>8, InvalidateEffect DEF flagVars, rootVars, chunkVars
  <2> QED  BY <1>b, <2>1
<1>9. CASE ClearFlags
  BY <1>9 DEF ClearFlags, EndWith
<1>10. CASE UNCHANGED vars
  <2>1. /\ UNCHANGED <<transplanted, stack, sp, store, collection, space, field, kind, phase>>
        /\ UNCHANGED Intact
    BY <1>10, IntactStays DEF vars, gcVars, chunkVars, objVars, flagVars, rootVars
  <2> QED  BY <1>b, <2>1
<1> QED
  BY <1>1, <1>2, <1>3, <1>4, <1>5, <1>6, <1>7, <1>8, <1>9, <1>10 DEF Next, Collection

LEMMA LeastNext ==
  HeapInv /\ CollectionInv /\ (Marked => MarkedIsLeast) /\ [Next]_vars => (Marked => MarkedIsLeast)'
<1> SUFFICES ASSUME HeapInv, CollectionInv, Marked => MarkedIsLeast, [Next]_vars, Marked'
             PROVE  MarkedIsLeast'
  OBVIOUS
<1>b. ASSUME Marked, UNCHANGED <<marked, stack, sp, store>>,
             \A a \in marked : /\ (kind[Moved(a)])' = kind[Moved(a)]
                               /\ (field[Moved(a)])' = field[Moved(a)]
      PROVE  MarkedIsLeast'
  <2>1. \A a \in marked : Refers(Moved(a))' = Refers(Moved(a))
    BY <1>b DEF Refers
  <2>2. StackRoots' = StackRoots
    BY <1>b DEF StackRoots
  <2> QED  BY <1>b, <2>1, <2>2 DEF MarkedIsLeast
<1>1. CASE Program
  BY <1>1, ProgramStep DEF Marked, Sweeping
<1>2. CASE Collect
  BY <1>2 DEF Collect, Marked, Sweeping
<1>3. CASE Mark
  BY <1>3, MarkIsLeast
<1>4. CASE Sweep
  BY <1>4, <1>b, SweepKeeps
<1>5. CASE UpdateRoots
  <2>1. UpdateTraps
    BY <1>5 DEF UpdateRoots, UpdateFieldsOf, Marked, Sweeping
  <2>2. UNCHANGED <<kind, field, forward, transplanted, marked, stack, sp, store>> /\ Marked
    BY <1>5, <2>1 DEF UpdateRoots, UpdateFieldsOf, Marked, flagVars
  <2> QED  BY <1>b, <2>2 DEF Moved
<1>6. CASE ResetOrSave \/ ScrapGraveyard \/ Invalidate \/ ClearFlags
  BY <1>6 DEF ResetOrSave, Save, ScrapGraveyard, Invalidate, ClearFlags, EndWith, Marked, Sweeping
<1>7. CASE UNCHANGED vars
  <2>1. UNCHANGED <<kind, field, forward, transplanted, marked, stack, sp, store>> /\ Marked
    BY <1>7 DEF vars, gcVars, objVars, flagVars, rootVars, Marked
  <2> QED  BY <1>b, <2>1 DEF Moved
<1> QED
  BY <1>1, <1>2, <1>3, <1>4, <1>5, <1>6, <1>7 DEF Next, Collection

LEMMA ReclaimNext ==
  HeapInv /\ CollectionInv /\ ReclaimInv /\ [Next]_vars => ReclaimInv'
  BY LeastNext, KeptNext, SurvivorsNext, PinnedHeapsNext DEF ReclaimInv

LEMMA ReclaimInit == Init => ReclaimInv
  BY DEF Init, ReclaimInv, Marked, KeptInv, Survivors, PinnedHeaps, InMajor, Sweeping

\* What is kept is what the roots reach.
LEMMA ReclaimEnough ==
  ASSUME HeapInv, CollectionInv, ReclaimInv PROVE MajorReclaims
<1> SUFFICES ASSUME phase = "clear", collection = "second" PROVE MajorReclaims
  BY DEF MajorReclaims
<1> DEFINE start == {p \in StackRoots \cup {store} : Valid(p)}
<1>1. InMajor
  BY DEF InMajor
<1>2. PICK K \in SUBSET Addr : Kept(K)
  BY DEF ReclaimInv, KeptInv
<1>3. /\ start \subseteq ObjectsIn(Chunk) /\ start \subseteq Closure(start, ValidEdges)
      /\ \A a \in Closure(start, ValidEdges) : ValidEdges[a] \subseteq Closure(start, ValidEdges)
      /\ \A a \in ObjectsIn(Chunk) : ValidEdges[a] = {p \in Refers(a) : Valid(p)}
  <2>1. start \subseteq ObjectsIn(Chunk)
    BY RootsAreAllocated, AllocatedIsIntact, IntactIsValid DEF HeapInv, PointersInv
  <2>2. \A a \in ObjectsIn(Chunk) : /\ ValidEdges[a] = {p \in Refers(a) : Valid(p)}
                                    /\ ValidEdges[a] \subseteq ObjectsIn(Chunk)
    BY RootsAreAllocated, AllocatedIsIntact, IntactIsValid DEF ValidEdges
  <2> HIDE DEF start
  <2> QED  BY <2>1, <2>2, ClosureIsClosed
<1> DEFINE S == K \cap Closure(start, ValidEdges)
<1>4. \A p \in K : Valid(p) /\ p \in ObjectsIn(Chunk)
  BY <1>2, IntactIsValid DEF Kept
<1>5. (StackRoots \cup {store}) \cap K \subseteq S
  BY <1>3, <1>4
<1>6. \A a \in S : Refers(a) \cap K \subseteq S
  BY <1>3, <1>4
<1>7. K \subseteq S
  <2> HIDE DEF S
  <2>1. S \in SUBSET K
    BY DEF S
  <2> QED  BY <1>2, <1>5, <1>6, <2>1 DEF Kept, IsLeast
<1>8. ASSUME NEW a \in ObjectsIn(In("adult") \cup In("unkillable")), kind[a] # "invalid"
      PROVE  a \in Closure(start, ValidEdges)
  <2>1. a \in Addr /\ InUse(a) /\ space[a[1]] \in {"adult", "unkillable"}
    BY <1>8 DEF ObjectsIn, In, InUse
  <2>2. a \in Intact
    BY <1>8, <2>1 DEF Intact, HeapInv, ChunksInv, HeapTypes
  <2>3. a \notin transplanted
    BY <2>2 DEF CollectionInv, ForwardInv
  <2> QED  BY <1>2, <1>7, <2>1, <2>2, <2>3 DEF Kept
<1>9. ASSUME NEW c \in In("unkillable") PROVE \E p \in StackRoots : p[1] = c /\ Valid(p)
  <2>1. num_indefinite[c] > 0 /\ c \in Chunk
    BY <1>1, <1>9 DEF ReclaimInv, PinnedHeaps, In, Sweeping
  <2>2. PICK p \in StackRoots \cap indefinite : p[1] = c
    BY <1>1, <2>1 DEF ReclaimInv, PinnedHeaps
  <2> QED  BY <2>2, IntactIsValid DEF CollectionInv, FlagsInv
<1> QED  BY <1>8, <1>9 DEF MajorReclaims

-----------------------------------------------------------------------------
(***************************************************************************)
(* The refinement of ObjectGraph                                           *)
(***************************************************************************)
LEMMA OldHolds ==
  HeapInv /\ CollectionInv /\ GraphInv =>
    /\ Old \in SUBSET Addr
    /\ HoldsMarked(Old)
    /\ \A S \in SUBSET Addr : HoldsMarked(S) => Old \subseteq S
    /\ Marked => Old \subseteq marked
    /\ ~Marked => Old \subseteq Intact \ transplanted
    /\ \A x \in Old : /\ x \in Intact
                      /\ Moved(x) \in Intact \ transplanted
                      /\ Moved(Moved(x)) = Moved(x)
                      /\ who[Moved(x)] = who[x]
                      /\ who[x] \in made /\ who[x] \in Obj
<1> SUFFICES ASSUME HeapInv, CollectionInv, GraphInv
             PROVE  /\ Old \in SUBSET Addr
                    /\ HoldsMarked(Old)
                    /\ \A S \in SUBSET Addr : HoldsMarked(S) => Old \subseteq S
                    /\ Marked => Old \subseteq marked
                    /\ ~Marked => Old \subseteq Intact \ transplanted
                    /\ \A x \in Old : /\ x \in Intact
                                      /\ Moved(x) \in Intact \ transplanted
                                      /\ Moved(Moved(x)) = Moved(x)
                                      /\ who[Moved(x)] = who[x]
                                      /\ who[x] \in made /\ who[x] \in Obj
  OBVIOUS
<1>1. PICK T \in SUBSET Addr : /\ HoldsMarked(T)
                               /\ Marked => T \subseteq marked
                               /\ ~Marked => T \subseteq Intact \ transplanted
  <2>1. CASE Marked
    <3>1. PICK T \in SUBSET marked : HoldsMarked(T)
      BY <2>1 DEF GraphInv
    <3> QED  BY <2>1, <3>1 DEF HeapInv, HeapTypes
  <2>2. CASE ~Marked
    <3>1. PICK T \in SUBSET Addr : Holds(T)
      BY <2>2 DEF GraphInv
    <3>2. \A a \in T : Moved(a) = a
      BY <3>1 DEF Holds, Moved
    <3> QED  BY <2>2, <3>1, <3>2 DEF Holds, HoldsMarked
  <2> QED  BY <2>1, <2>2
<1>2. Old \subseteq T
  BY <1>1 DEF Old
<1>3. Variables \subseteq Old
  BY <1>1 DEF Old, HoldsMarked
<1>4. ASSUME NEW a \in Old, NEW p \in Refers(Moved(a)) \ {None} PROVE p \in Old
  <2>1. p \in Addr
    BY <1>1, <1>2, <1>4 DEF HoldsMarked
  <2>2. ASSUME NEW S \in SUBSET Addr, HoldsMarked(S) PROVE p \in S
    BY <1>4, <2>2 DEF Old, HoldsMarked
  <2> QED  BY <2>1, <2>2 DEF Old
<1>5. ASSUME NEW x \in Old
      PROVE  /\ x \in Intact
             /\ Moved(x) \in Intact \ transplanted
             /\ Moved(Moved(x)) = Moved(x)
             /\ who[Moved(x)] = who[x]
  <2>1. CASE Marked
    <3>1. x \in marked
      BY <1>1, <1>2, <2>1
    <3> QED  BY <2>1, <3>1, MovedIsIntact DEF Moved, Marked, CollectionInv, ForwardInv
  <2>2. CASE ~Marked
    <3>1. x \in Intact \ transplanted
      BY <1>1, <1>2, <2>2
    <3> QED  BY <3>1 DEF Moved
  <2> QED  BY <2>1, <2>2
<1>6. \A x \in Intact : who[x] \in made /\ who[x] \in Obj
  BY DEF Intact, HeapInv, ChunksInv, HeapTypes
<1>7. \A S \in SUBSET Addr : HoldsMarked(S) => Old \subseteq S
  BY DEF Old
<1>8. Old \in SUBSET Addr
  BY DEF Old
<1>9. HoldsMarked(Old)
  BY <1>3, <1>4 DEF HoldsMarked
<1> QED  BY <1>1, <1>2, <1>5, <1>6, <1>7, <1>8, <1>9

LEMMA OldHoldsNext ==
  HeapInv' /\ CollectionInv' /\ GraphInv' =>
    /\ Old' \in SUBSET Addr
    /\ HoldsMarked(Old)'
    /\ \A S \in SUBSET Addr : HoldsMarked(S)' => Old' \subseteq S
    /\ Marked' => Old' \subseteq marked'
    /\ ~Marked' => Old' \subseteq Intact' \ transplanted'
    /\ \A x \in Old' : /\ x \in Intact'
                      /\ Moved(x)' \in Intact' \ transplanted'
                      /\ (who[Moved(x)])' = who'[x]
                      /\ who'[x] \in made' /\ who'[x] \in Obj
<1>1. (HeapInv /\ CollectionInv /\ GraphInv =>
    /\ Old \in SUBSET Addr
    /\ HoldsMarked(Old)
    /\ \A S \in SUBSET Addr : HoldsMarked(S) => Old \subseteq S
    /\ Marked => Old \subseteq marked
    /\ ~Marked => Old \subseteq Intact \ transplanted
    /\ \A x \in Old : /\ x \in Intact
                      /\ Moved(x) \in Intact \ transplanted
                      /\ Moved(Moved(x)) = Moved(x)
                      /\ who[Moved(x)] = who[x]
                      /\ who[x] \in made /\ who[x] \in Obj)'
  BY OldHolds, PTL
<1> QED  BY <1>1

LEMMA ClosureHas ==
  ASSUME NEW start, NEW edges, NEW a \in ObjectsIn(Chunk),
         ASSUME NEW S, start \subseteq S, \A b \in S : edges[b] \subseteq S PROVE a \in S
  PROVE  a \in Closure(start, edges)
  BY DEF Closure

LEMMA LiveIsMoved ==
  HeapInv /\ CollectionInv /\ GraphInv => Live = {Moved(x) : x \in Old}
<1> SUFFICES ASSUME HeapInv, CollectionInv, GraphInv PROVE Live = {Moved(x) : x \in Old}
  OBVIOUS
<1> DEFINE start == {Moved(p) : p \in Variables}
           edges == [a \in Addr |-> {Moved(p) : p \in Refers(a) \ {None}}]
           M == {Moved(x) : x \in Old}
<1>1. Live = Closure(start, edges)
  BY DEF Live
<1>2. /\ HoldsMarked(Old) /\ Old \in SUBSET Addr
      /\ \A S \in SUBSET Addr : HoldsMarked(S) => Old \subseteq S
      /\ \A x \in Old : Moved(x) \in ObjectsIn(Chunk) /\ Moved(x) \in Addr
  BY OldHolds, IntactIsValid
<1>3. M \subseteq ObjectsIn(Chunk) /\ start \subseteq M
  BY <1>2 DEF HoldsMarked
<1>4. ASSUME NEW b \in M PROVE edges[b] \subseteq M
  <2>1. PICK x \in Old : b = Moved(x)
    OBVIOUS
  <2>2. Refers(b) \ {None} \subseteq Old /\ b \in Addr
    BY <1>2, <2>1 DEF HoldsMarked
  <2> QED  BY <2>2
<1>5. ASSUME NEW x \in Old, NEW S, start \subseteq S, \A b \in S : edges[b] \subseteq S
      PROVE  Moved(x) \in S
  <2> DEFINE T == {y \in Old : Moved(y) \in S}
  <2>1. Variables \subseteq T
    BY <1>2, <1>5 DEF HoldsMarked
  <2>2. ASSUME NEW a \in T, NEW p \in Refers(Moved(a)) \ {None} PROVE p \in T
    <3>1. p \in Old /\ Moved(a) \in Addr
      BY <1>2, <2>2 DEF HoldsMarked
    <3>2. Moved(p) \in edges[Moved(a)]
      BY <2>2, <3>1
    <3> QED  BY <1>5, <2>2, <3>1, <3>2
  <2>3. T \in SUBSET Addr
    BY <1>2
  <2> HIDE DEF T
  <2>4. HoldsMarked(T)
    BY <2>1, <2>2 DEF HoldsMarked
  <2> QED  BY <1>2, <2>3, <2>4 DEF T
<1> HIDE DEF start, edges
<1>6. Live \subseteq M
  <2> HIDE DEF M
  <2> QED  BY <1>1, <1>3, <1>4, ClosureIsLeast
<1>7. ASSUME NEW x \in Old PROVE Moved(x) \in Live
  <2>1. \A S : start \subseteq S /\ (\A b \in S : edges[b] \subseteq S) => Moved(x) \in S
    BY <1>5
  <2>2. PICK a \in ObjectsIn(Chunk) : a = Moved(x)
    BY <1>2
  <2>3. a \in Closure(start, edges)
    BY <2>1, <2>2, ClosureHas
  <2> QED  BY <1>1, <2>2, <2>3
<1> QED  BY <1>6, <1>7

LEMMA EdgesAre ==
  HeapInv /\ CollectionInv /\ GraphInv =>
    \A e : e \in Edges <=> \E x \in Old, f \in Field : HasEdge(x, f) /\ e = Edge(x, f)
<1> SUFFICES ASSUME HeapInv, CollectionInv, GraphInv, NEW e
             PROVE  e \in Edges <=> \E x \in Old, f \in Field : HasEdge(x, f) /\ e = Edge(x, f)
  OBVIOUS
<1>1. Live = {Moved(x) : x \in Old}
  BY LiveIsMoved
<1>2. /\ HoldsMarked(Old)
      /\ \A x \in Old : who[Moved(x)] = who[x]
  BY OldHolds
<1>3. e \in Edges <=> \E a \in Live, f \in Field :
         /\ kind[a] = "object" /\ field[a][f] # None
         /\ e = <<who[a], f, who[Moved(field[a][f])]>>
  <2> DEFINE Has(a, f) == kind[a] = "object" /\ field[a][f] # None
             Pair(a, f) == <<who[a], f, who[Moved(field[a][f])]>>
             H == {x \in Live \X Field : Has(x[1], x[2])}
  <2>1. e \in Edges <=> \E x \in H : e = Pair(x[1], x[2])
    BY DEF Edges
  <2>2. \A x \in H : x[1] \in Live /\ x[2] \in Field /\ Has(x[1], x[2])
    OBVIOUS
  <2>3. ASSUME NEW a \in Live, NEW f \in Field, Has(a, f)
        PROVE  \E x \in H : x[1] = a /\ x[2] = f
    <3> DEFINE y == <<a, f>>
    <3>1. y \in Live \X Field /\ y[1] = a /\ y[2] = f
      OBVIOUS
    <3> HIDE DEF y, Has
    <3> QED  BY <2>3, <3>1
  <2>4. \A a \in Live, f \in Field : Has(a, f) => \E x \in H : x[1] = a /\ x[2] = f
    BY <2>3
  <2>5. e \in Edges <=> \E a \in Live, f \in Field : Has(a, f) /\ e = Pair(a, f)
    <3> HIDE DEF H, Has, Pair
    <3> QED  BY <2>1, <2>2, <2>4
  <2> QED  BY <2>5
<1>4. \A x \in Old, f \in Field : HasEdge(x, f) =>
         Edge(x, f) = <<who[Moved(x)], f, who[Moved(field[Moved(x)][f])]>>
  <2> SUFFICES ASSUME NEW x \in Old, NEW f \in Field, HasEdge(x, f)
               PROVE  Edge(x, f) = <<who[Moved(x)], f, who[Moved(field[Moved(x)][f])]>>
    OBVIOUS
  <2>1. field[Moved(x)][f] \in Old
    BY <1>2 DEF HasEdge, HoldsMarked, Refers
  <2> QED  BY <1>2, <2>1 DEF Edge
<1> QED  BY <1>1, <1>3, <1>4 DEF HasEdge

LEMMA EdgesAreNext ==
  HeapInv' /\ CollectionInv' /\ GraphInv' =>
    \A e : e \in Edges' <=> \E x \in Old', f \in Field : HasEdge(x, f)' /\ e = Edge(x, f)'
<1>1. (HeapInv /\ CollectionInv /\ GraphInv =>
         \A e : e \in Edges <=> \E x \in Old, f \in Field : HasEdge(x, f) /\ e = Edge(x, f))'
  BY EdgesAre, PTL
<1> QED  BY <1>1

\* What the graph reaches is what the program reaches.
LEMMA ReachableIs ==
  HeapInv /\ CollectionInv /\ GraphInv =>
    LET R == {who[x] : x \in Old} IN
      /\ Graph!ReachableIn(Binding, Edges) = R
      /\ \A v \in 0 .. MaxSlots : Binding[v] # None => Binding[v] \in R
      /\ \A e \in Edges : e[1] \in R /\ e[3] \in R
<1> SUFFICES ASSUME HeapInv, CollectionInv, GraphInv
             PROVE  LET R == {who[x] : x \in Old} IN
                      /\ Graph!ReachableIn(Binding, Edges) = R
                      /\ \A v \in 0 .. MaxSlots : Binding[v] # None => Binding[v] \in R
                      /\ \A e \in Edges : e[1] \in R /\ e[3] \in R
  OBVIOUS
<1> DEFINE Name == 0 .. MaxSlots
           R == {who[x] : x \in Old}
           Closed(S) == /\ \A v \in Name : Binding[v] # None => Binding[v] \in S
                        /\ \A e \in Edges : e[1] \in S => e[3] \in S
<1>1. Graph!ReachableIn(Binding, Edges) = {o \in Obj : \A S \in SUBSET Obj : Closed(S) => o \in S}
  BY DEF Graph!ReachableIn
<1>2. /\ HoldsMarked(Old) /\ Old \in SUBSET Addr
      /\ \A S \in SUBSET Addr : HoldsMarked(S) => Old \subseteq S
      /\ \A x \in Old : who[x] \in Obj
  BY OldHolds
<1>3. \A e : e \in Edges <=> \E x \in Old, f \in Field : HasEdge(x, f) /\ e = Edge(x, f)
  BY EdgesAre
<1>4. \A v \in Name : Binding[v] # None => \E x \in Variables : Binding[v] = who[x]
  BY DEF Binding, Who, Variables
<1>5. \A x \in Variables : \E v \in Name : Binding[v] = who[x]
  <2>1. written \subseteq Name /\ 0 \in Name /\ 0 \notin written
    BY CollectorAssumption DEF HeapInv, HeapTypes
  <2>2. \A i \in written : stack[i] # None => Binding[i] = who[stack[i]]
    BY <2>1 DEF Binding, Who
  <2>3. store # None => Binding[0] = who[store]
    BY <2>1 DEF Binding, Who
  <2> QED  BY <2>1, <2>2, <2>3 DEF Variables
<1>6. \A x \in Old, f \in Field : HasEdge(x, f) =>
        /\ field[Moved(x)][f] \in Old
        /\ Edge(x, f)[1] = who[x] /\ Edge(x, f)[3] = who[field[Moved(x)][f]]
  BY <1>2 DEF HasEdge, Edge, HoldsMarked, Refers
<1>7. R \subseteq Obj /\ Closed(R)
  <2>1. \A v \in Name : Binding[v] # None => Binding[v] \in R
    BY <1>2, <1>4 DEF HoldsMarked
  <2>2. \A e \in Edges : e[1] \in R => e[3] \in R
    BY <1>3, <1>6
  <2> QED  BY <1>2, <2>1, <2>2
<1>8. \A e \in Edges : e[1] \in R
  BY <1>3, <1>6
<1>9. ASSUME NEW S \in SUBSET Obj, Closed(S) PROVE R \subseteq S
  <2> DEFINE T == {x \in Old : who[x] \in S}
  <2>1. Variables \subseteq T
    <3> SUFFICES ASSUME NEW x \in Variables PROVE who[x] \in S
      BY <1>2 DEF HoldsMarked
    <3>1. PICK v \in Name : Binding[v] = who[x]
      BY <1>5
    <3>2. who[x] # None
      BY <1>2, NoneIsNothing DEF HoldsMarked
    <3> QED  BY <1>9, <3>1, <3>2
  <2>2. ASSUME NEW a \in T, NEW p \in Refers(Moved(a)) \ {None} PROVE p \in T
    <3>1. PICK f \in Field : HasEdge(a, f) /\ p = field[Moved(a)][f]
      BY <2>2 DEF Refers, HasEdge
    <3>2. Edge(a, f) \in Edges
      BY <1>3, <2>2, <3>1
    <3> QED  BY <1>6, <1>9, <2>2, <3>1, <3>2
  <2>3. T \in SUBSET Addr
    BY <1>2
  <2> HIDE DEF T
  <2>4. HoldsMarked(T)
    BY <2>1, <2>2 DEF HoldsMarked
  <2> QED  BY <1>2, <2>3, <2>4 DEF T
<1>10. Graph!ReachableIn(Binding, Edges) = R
  <2> HIDE DEF R, Closed
  <2> QED  BY <1>1, <1>7, <1>9
<1> HIDE DEF R
<1> QED  BY <1>7, <1>8, <1>10 DEF R

LEMMA ReachableIsNext ==
  HeapInv' /\ CollectionInv' /\ GraphInv' =>
    LET R == {who[x] : x \in Old}' IN
      /\ Graph!ReachableIn(Binding, Edges)' = R
      /\ \A v \in 0 .. MaxSlots : Binding'[v] # None => Binding'[v] \in R
      /\ \A e \in Edges' : e[1] \in R /\ e[3] \in R
<1>1. (HeapInv /\ CollectionInv /\ GraphInv =>
    LET R == {who[x] : x \in Old} IN
      /\ Graph!ReachableIn(Binding, Edges) = R
      /\ \A v \in 0 .. MaxSlots : Binding[v] # None => Binding[v] \in R
      /\ \A e \in Edges : e[1] \in R /\ e[3] \in R)'
  BY ReachableIs, PTL
<1> QED  BY <1>1

\* What the program reaches changes with its variables and with the references
\* of what it reaches, only.
LEMMA OldStays ==
  ASSUME HeapInv, CollectionInv, GraphInv, HeapInv', CollectionInv', GraphInv',
         Variables' = Variables,
         \A x \in Old : /\ (kind[Moved(x)])' = kind[Moved(x)]
                        /\ (field[Moved(x)])' = field[Moved(x)]
  PROVE  Old' = Old
<1>1. \A x \in Old : Refers(Moved(x))' = Refers(Moved(x))
  BY DEF Refers
<1>2. /\ HoldsMarked(Old) /\ Old \in SUBSET Addr
      /\ \A S \in SUBSET Addr : HoldsMarked(S) => Old \subseteq S
  BY OldHolds
<1>3. /\ HoldsMarked(Old)' /\ Old' \in SUBSET Addr
      /\ \A S \in SUBSET Addr : HoldsMarked(S)' => Old' \subseteq S
  BY OldHoldsNext
<1>4. \A S : S \subseteq Old => (HoldsMarked(S)' <=> HoldsMarked(S))
  BY <1>1 DEF HoldsMarked
<1>5. PICK J \in SUBSET Addr : J = Old
  BY <1>2
<1>6. HoldsMarked(J)'
  BY <1>2, <1>4, <1>5
<1>7. Old' \subseteq Old
  BY <1>3, <1>5, <1>6
<1>8. PICK K \in SUBSET Addr : K = Old'
  BY <1>3
<1>9. HoldsMarked(K)'
  BY <1>3, <1>8 DEF HoldsMarked
<1>10. HoldsMarked(K)
  BY <1>4, <1>7, <1>8, <1>9
<1> QED  BY <1>2, <1>7, <1>8, <1>10

LEMMA EdgesStay ==
  ASSUME HeapInv, CollectionInv, GraphInv, HeapInv', CollectionInv', GraphInv',
         Variables' = Variables,
         \A x \in Old : /\ (kind[Moved(x)])' = kind[Moved(x)]
                        /\ (field[Moved(x)])' = field[Moved(x)]
                        /\ who'[x] = who[x]
  PROVE  Edges' = Edges /\ Old' = Old
<1>1. Old' = Old
  BY OldStays
<1>2. \A x \in Old, f \in Field : HasEdge(x, f) => field[Moved(x)][f] \in Old
  BY OldHolds DEF HasEdge, HoldsMarked, Refers
<1>3. \A x \in Old, f \in Field : HasEdge(x, f)' <=> HasEdge(x, f)
  BY DEF HasEdge
<1>4. \A x \in Old, f \in Field : HasEdge(x, f) => Edge(x, f)' = Edge(x, f)
  <2> SUFFICES ASSUME NEW x \in Old, NEW f \in Field, HasEdge(x, f)
               PROVE  Edge(x, f)' = Edge(x, f)
    OBVIOUS
  <2>1. PICK p \in Old : p = field[Moved(x)][f]
    BY <1>2
  <2>2. (field[Moved(x)])'[f] = p
    BY <2>1
  <2> QED  BY <2>1, <2>2 DEF Edge
<1> QED  BY <1>1, <1>3, <1>4, EdgesAre, EdgesAreNext

\* Variables are the same.
LEMMA BindingStays ==
  ASSUME HeapInv, CollectionInv, GraphInv, UNCHANGED <<stack, written, store>>,
         \A x \in Old : who'[x] = who[x]
  PROVE  Binding' = Binding /\ Variables' = Variables
<1>1. Variables \subseteq Old
  BY OldHolds DEF HoldsMarked
<1>2. \A i \in written : Who(stack[i])' = Who(stack[i])
  BY <1>1 DEF Who, Variables
<1>3. Who(store)' = Who(store)
  BY <1>1 DEF Who, Variables
<1> QED  BY <1>2, <1>3 DEF Binding, Variables

\* A graph D in which all is reachable is what is left of E.
LEMMA WhatIsLeft ==
  ASSUME NEW b, NEW D, NEW E, D \subseteq E, NEW R, R = Graph!ReachableIn(b, D),
         \A v \in 0 .. MaxSlots : b[v] # None => b[v] \in R,
         \A e \in D : e[1] \in R /\ e[3] \in R,
         \A e \in E : e[1] \in R => e \in D
  PROVE  D = {e \in E : e[1] \in Graph!ReachableIn(b, E)}
<1>1. Graph!ReachableIn(b, D) \subseteq Graph!ReachableIn(b, E)
  BY DEF Graph!ReachableIn
<1>2. R \in SUBSET Obj
  BY DEF Graph!ReachableIn
<1>3. Graph!ReachableIn(b, E) \subseteq R
  BY <1>2 DEF Graph!ReachableIn
<1> QED  BY <1>1, <1>3

\* The graph after a step of the program: what it had, with these changes, less
\* what has become garbage.
LEMMA GraphChanges ==
  ASSUME HeapInv', CollectionInv', GraphInv', NEW E,
         Edges' \subseteq E,
         \A e \in E : e[1] \in {who[x] : x \in Old}' => e \in Edges'
  PROVE  Edges' = {e \in E : e[1] \in Graph!ReachableIn(Binding', E)}
<1> DEFINE R == {who[x] : x \in Old}'
<1>1. /\ R = Graph!ReachableIn(Binding, Edges)'
      /\ \A v \in 0 .. MaxSlots : Binding'[v] # None => Binding'[v] \in R
      /\ \A e \in Edges' : e[1] \in R /\ e[3] \in R
  BY ReachableIsNext
<1>2. R = Graph!ReachableIn(Binding', Edges')
  BY <1>1 DEF Graph!ReachableIn
<1>3. \A e \in E : e[1] \in R => e \in Edges'
  OBVIOUS
<1>4. PICK b, D, S : b = Binding' /\ D = Edges' /\ S = R
  OBVIOUS
<1> HIDE DEF R
<1>5. D = {e \in E : e[1] \in Graph!ReachableIn(b, E)}
  BY <1>1, <1>2, <1>3, <1>4, WhatIsLeft
<1> QED  BY <1>4, <1>5

\* While the program runs, nothing has been left behind.
LEMMA NothingMoved ==
  ASSUME HeapInv, CollectionInv, GraphInv, Program
  PROVE  /\ \A p : Moved(p) = p /\ Moved(p)' = p
         /\ Old \subseteq Intact
         /\ \A x, y \in Old : who[x] = who[y] => x = y
         /\ \A p \in Values : p = None \/ p \in Old
         /\ \A i \in written : stack[i] # None => stack[i] \in Old
         /\ store # None => store \in Old
         /\ Variables \subseteq Old
         /\ ~Marked /\ ~Marked'
<1>1. transplanted = {} /\ transplanted' = {} /\ ~Marked /\ ~Marked'
  BY ProgramStep DEF CollectionInv, FlagsInv, BeforeMark, flagVars, Marked, Sweeping
<1>2. \A p : Moved(p) = p /\ Moved(p)' = p
  BY <1>1 DEF Moved
<1>3. Old \subseteq Intact /\ Variables \subseteq Old /\ \A a \in Old : Refers(a) \ {None} \subseteq Old
  BY <1>2, OldHolds DEF HoldsMarked
<1>4. \A x, y \in Old : who[x] = who[y] => x = y
  BY <1>1, <1>3 DEF CollectionInv, OneCopy
<1>5. \A p \in Values : p = None \/ p \in Old
  <2> DEFINE own == {stack[i] : i \in written} \cup {store, None}
  <2>1. \A p \in own : p = None \/ p \in Old
    BY <1>3 DEF Variables
  <2>2. \A p \in own \ {None} : \A q \in Refers(p) : q = None \/ q \in Old
    BY <1>3, <2>1
  <2>3. Values = own \cup UNION {Refers(p) : p \in own \ {None}}
    BY DEF Values
  <2> HIDE DEF own
  <2> QED
    BY <2>1, <2>2, <2>3
<1> QED  BY <1>1, <1>2, <1>3, <1>4, <1>5 DEF Variables

\* A step that allocates N, or nothing, and changes no reference but in variables.
LEMMA GraphShrinks ==
  ASSUME HeapInv, CollectionInv, GraphInv, HeapInv', CollectionInv', GraphInv', Program,
         NEW N \in SUBSET Addr, Variables' \subseteq Old \cup N,
         \A a \in Old : kind'[a] = kind[a] /\ field'[a] = field[a] /\ who'[a] = who[a],
         \A a \in N : field'[a] = NoFields /\ who'[a] \notin made
  PROVE  Edges' = {e \in Edges : e[1] \in Graph!ReachableIn(Binding', Edges)}
<1>1. /\ \A p : Moved(p) = p /\ Moved(p)' = p
      /\ \A x, y \in Old : who[x] = who[y] => x = y
  BY NothingMoved
<1>2. /\ HoldsMarked(Old) /\ Old \in SUBSET Addr
      /\ \A x \in Old : who[x] \in made
  BY OldHolds
<1>3. Old' \subseteq Old \cup N
  <2>1. PICK J \in SUBSET Addr : J = Old \cup N
    BY <1>2
  <2>2. Variables' \subseteq J
    BY <2>1
  <2>3. ASSUME NEW a \in Old PROVE Refers(Moved(a))' = Refers(a)
    <3>1. Refers(a)' = Refers(a)
      BY DEF Refers
    <3>2. Moved(a)' = a
      BY <1>1
    <3> QED  BY <3>1, <3>2 DEF Refers
  <2>4. \A a \in N : Refers(Moved(a))' \ {None} = {}
    BY <1>1, NoFieldsAreNone DEF Refers
  <2>5. \A a \in J : Refers(Moved(a))' \ {None} \subseteq J
    BY <1>1, <1>2, <2>1, <2>3, <2>4 DEF HoldsMarked
  <2>6. HoldsMarked(J)'
    BY <2>2, <2>5 DEF HoldsMarked
  <2> QED  BY <2>1, <2>6, OldHoldsNext
<1>4. \A x \in Old, f \in Field : HasEdge(x, f)' <=> HasEdge(x, f)
  BY <1>1 DEF HasEdge
<1>5. \A x \in N, f \in Field : ~HasEdge(x, f)'
  BY <1>1, NoFieldsAreNone DEF HasEdge
<1>6. \A x \in Old, f \in Field : HasEdge(x, f) => Edge(x, f)' = Edge(x, f)
  <2> SUFFICES ASSUME NEW x \in Old, NEW f \in Field, HasEdge(x, f)
               PROVE  Edge(x, f)' = Edge(x, f)
    OBVIOUS
  <2>1. PICK p \in Old : p = field[x][f]
    BY <1>1, <1>2 DEF HasEdge, HoldsMarked, Refers
  <2>2. field'[x][f] = p
    BY <2>1
  <2> QED  BY <1>1, <2>1, <2>2 DEF Edge
<1>7. Edges' \subseteq Edges
  <2> SUFFICES ASSUME NEW e \in Edges' PROVE e \in Edges
    OBVIOUS
  <2>1. PICK x \in Old', f \in Field : HasEdge(x, f)' /\ e = Edge(x, f)'
    BY EdgesAreNext
  <2>2. x \in Old
    BY <1>3, <1>5, <2>1
  <2> QED  BY <1>4, <1>6, <2>1, <2>2, EdgesAre
<1>8. ASSUME NEW e \in Edges, e[1] \in {who[x] : x \in Old}' PROVE e \in Edges'
  <2>1. PICK x \in Old, f \in Field : HasEdge(x, f) /\ e = Edge(x, f)
    BY EdgesAre
  <2>2. e[1] = who[x]
    BY <2>1 DEF Edge
  <2>3. PICK y \in Old' : who[x] = who'[y]
    BY <1>8, <2>2
  <2>4. y \in Old
    BY <1>2, <1>3, <2>3
  <2>5. x = y
    BY <1>1, <2>3, <2>4
  <2> QED  BY <1>4, <1>6, <2>1, <2>3, <2>5, EdgesAreNext
<1> QED  BY <1>7, <1>8, GraphChanges

LEMMA BindingIs ==
  HeapInv =>
    /\ Binding = [v \in 0 .. MaxSlots |-> Binding[v]]
    /\ \A v \in 0 .. MaxSlots : Binding[v] = IF v = 0 THEN Who(store)
                                           ELSE IF v \in written THEN Who(stack[v]) ELSE None
<1> SUFFICES ASSUME HeapInv
             PROVE  /\ Binding = [v \in 0 .. MaxSlots |-> Binding[v]]
                    /\ \A v \in 0 .. MaxSlots : Binding[v] =
                          IF v = 0 THEN Who(store)
                          ELSE IF v \in written THEN Who(stack[v]) ELSE None
  OBVIOUS
<1>1. 0 \notin written
  BY CollectorAssumption DEF HeapInv, HeapTypes
<1> QED  BY <1>1 DEF Binding

LEMMA BindingIsNext ==
  HeapInv' =>
    /\ Binding' = [v \in 0 .. MaxSlots |-> Binding'[v]]
    /\ \A v \in 0 .. MaxSlots : Binding'[v] = IF v = 0 THEN Who(store)'
                                            ELSE IF v \in written' THEN Who(stack[v])' ELSE None
<1>1. (HeapInv =>
         /\ Binding = [v \in 0 .. MaxSlots |-> Binding[v]]
         /\ \A v \in 0 .. MaxSlots : Binding[v] = IF v = 0 THEN Who(store)
                                           ELSE IF v \in written THEN Who(stack[v]) ELSE None)'
  BY BindingIs, PTL
<1> QED  BY <1>1

LEMMA OneVariableChanges ==
  ASSUME NEW D, NEW b, NEW c, b = [w \in D |-> b[w]], c = [w \in D |-> c[w]],
         NEW v \in D, \A w \in D \ {v} : c[w] = b[w]
  PROVE  c = [b EXCEPT ![v] = c[v]]
  OBVIOUS

\* What the program does to the heap, it does to the graph.
LEMMA ProgramImplements ==
  ASSUME HeapInv, CollectionInv, GraphInv, HeapInv', CollectionInv', GraphInv', Program
  PROVE  [Graph!Next]_(Graph!graphVars)
<1> DEFINE R == Graph!ReachableIn(Binding, Edges)
           Left(E) == {e \in E : e[1] \in Graph!ReachableIn(Binding', E)}
           called == {o \in Obj : calls[o] > 0}
<1>a. /\ phase = "mutator" /\ phase' = "mutator"
      /\ MaxSlots \in Nat /\ sp \in 0 .. MaxSlots /\ written \subseteq 1 .. sp
      /\ stack \in [Slot -> Pointer] /\ Slot = 1 .. MaxSlots
  BY ProgramStep, CollectorAssumption DEF HeapInv, HeapTypes, Slot
<1>b. /\ \A p : Moved(p) = p /\ Moved(p)' = p
      /\ Old \subseteq Intact
      /\ \A x, y \in Old : who[x] = who[y] => x = y
      /\ \A p \in Values : p = None \/ p \in Old
      /\ \A i \in written : stack[i] # None => stack[i] \in Old
      /\ store # None => store \in Old
      /\ Variables \subseteq Old
  BY NothingMoved
<1>c. R = {who[x] : x \in Old} /\ \A x \in Old : who[x] \in Obj /\ who[x] \in made
  BY ReachableIs, OldHolds
<1>d. \A p \in Values : Who(p) \in R \cup {None}
  BY <1>b, <1>c DEF Who
<1>e. ASSUME NEW v \in 0 .. MaxSlots, NEW o \in R \cup {None},
             Binding' = [Binding EXCEPT ![v] = o], Edges' = Left(Edges),
             UNCHANGED <<made, calls>>
      PROVE  Graph!Next
  <2>1. Graph!Assign(v, o)
    BY <1>a, <1>e DEF Graph!Assign, Graph!Change
  <2> QED  BY <2>1, <1>e DEF Graph!Next, Graph!Reachable
<1>f. ASSUME NEW v \in 0 .. MaxSlots, NEW o \in Obj \ made,
             Binding' = [Binding EXCEPT ![v] = o], Edges' = Left(Edges),
             made' = made \cup {o}, UNCHANGED calls
      PROVE  Graph!Next
  <2>1. Graph!New(v, o)
    BY <1>a, <1>f DEF Graph!New, Graph!Change
  <2> QED  BY <2>1 DEF Graph!Next
<1>g. ASSUME UNCHANGED <<kind, field, who>>, Variables' \subseteq Old PROVE Edges' = Left(Edges)
  <2>1. {} \in SUBSET Addr
    OBVIOUS
  <2>2. \A a \in {} : field'[a] = NoFields /\ who'[a] \notin made
    OBVIOUS
  <2>3. Variables' \subseteq Old \cup {}
    BY <1>g
  <2>4. \A a \in Old : kind'[a] = kind[a] /\ field'[a] = field[a] /\ who'[a] = who[a]
    BY <1>g
  <2> QED  BY <2>1, <2>2, <2>3, <2>4, GraphShrinks
<1>h. ASSUME UNCHANGED <<kind, field, who, stack, written, store, made, calls>>
      PROVE  UNCHANGED Graph!graphVars
  <2>1. Binding' = Binding /\ Variables' = Variables
    BY <1>h, BindingStays
  <2>2. Edges' = Edges
    BY <1>b, <1>h, <2>1, EdgesStay
  <2> QED  BY <1>a, <1>h, <2>1, <2>2 DEF Graph!graphVars
<1>j. ASSUME NEW v \in 0 .. MaxSlots, NEW o, Binding'[v] = o,
             \A w \in (0 .. MaxSlots) \ {v} : Binding'[w] = Binding[w]
      PROVE  Binding' = [Binding EXCEPT ![v] = o]
  <2>1. PICK D, b, c : D = 0 .. MaxSlots /\ b = Binding /\ c = Binding'
    OBVIOUS
  <2>2. b = [w \in D |-> b[w]] /\ c = [w \in D |-> c[w]]
    BY <2>1, BindingIs, BindingIsNext
  <2>3. c = [b EXCEPT ![v] = c[v]]
    BY <1>j, <2>1, <2>2, OneVariableChanges
  <2> QED  BY <1>j, <2>1, <2>3
<1>k. /\ \A v \in 0 .. MaxSlots : Binding[v] = IF v = 0 THEN Who(store)
                                              ELSE IF v \in written THEN Who(stack[v]) ELSE None
      /\ \A v \in 0 .. MaxSlots : Binding'[v] = IF v = 0 THEN Who(store)'
                                              ELSE IF v \in written' THEN Who(stack[v])' ELSE None
  BY BindingIs, BindingIsNext
\* A new object has no references, and is no allocation there was.
<1>i. ASSUME NEW b \in Addr, NEW o \in NextObj, NEW c \in Chunk, NEW list, NEW n,
             PlaceIn(b, c, list, n), InitAllocation(b, o), NEW i \in 1 .. sp, Keep(i, b)
      PROVE  Graph!Next
  <2>1. /\ ~InUse(b) /\ b \notin Intact
        /\ o \in Obj \ made /\ who' = [who EXCEPT ![b] = o]
        /\ kind' = [kind EXCEPT ![b] = Kind] /\ field' = field
    BY <1>i, AllocEffect
  <2>2. /\ stack' = [stack EXCEPT ![i] = b] /\ written' = written \cup {i} /\ store' = store
        /\ made' = made \cup {o} /\ calls' = calls /\ i \in Slot
    BY <1>a, <1>i DEF Keep, InitAllocation
  <2>3. /\ who'[b] = o /\ field'[b] = NoFields
        /\ \A a \in Old : kind'[a] = kind[a] /\ field'[a] = field[a] /\ who'[a] = who[a] /\ a # b
    BY <1>b, <2>1 DEF HeapInv, ChunksInv, HeapTypes, Intact
  <2>4. \A j \in written' : stack'[j] = IF j = i THEN b ELSE stack[j]
    BY <1>a, <2>2
  <2>5. Variables' \subseteq Old \cup {b}
    BY <1>b, <2>2, <2>4 DEF Variables
  <2>6. Edges' = Left(Edges)
    <3>1. PICK N \in SUBSET Addr : N = {b}
      OBVIOUS
    <3>2. \A a \in N : field'[a] = NoFields /\ who'[a] \notin made
      BY <2>1, <2>3, <3>1
    <3> QED  BY <2>3, <2>5, <3>1, <3>2, GraphShrinks
  <2>7. Binding' = [Binding EXCEPT ![i] = o]
    <3>1. \A j \in written \ {i} : Who(stack[j])' = Who(stack[j])
      BY <1>b, <2>3, <2>4, <2>2 DEF Who
    <3>2. Who(store)' = Who(store)
      BY <1>b, <2>2, <2>3 DEF Who
    <3>3. Who(stack[i])' = o /\ i # 0 /\ i \in 0 .. MaxSlots /\ i \in written'
      BY <1>a, <2>2, <2>3, <2>4, NoneIsNothing DEF Who
    <3>4. Binding'[i] = o
      BY <1>k, <3>3
    <3>5. \A w \in (0 .. MaxSlots) \ {i} : Binding'[w] = Binding[w]
      BY <1>k, <2>2, <3>1, <3>2
    <3> QED  BY <1>j, <3>3, <3>4, <3>5
  <2>8. i \in 0 .. MaxSlots
    BY <1>a
  <2> QED  BY <1>f, <2>1, <2>2, <2>6, <2>7, <2>8
<1>1. ASSUME NEW t \in Thread, NEW c \in Chunk, NEW i \in 1 .. sp, Alloc(t, c, i)
      PROVE  Graph!Next
  <2>1. PICK b \in Addr, o \in NextObj, n \in Garbage \cup {num_indefinite[c]} :
          PlaceIn(b, c, "nursery", n) /\ InitAllocation(b, o) /\ Keep(i, b)
    BY <1>1 DEF Alloc
  <2> QED  BY <1>i, <2>1
<1>2. ASSUME NEW c \in Chunk, NEW i \in 1 .. sp, AllocBig(c, i) PROVE Graph!Next
  <2>1. PICK b \in Addr, o \in NextObj :
          PlaceIn(b, c, "big", 0) /\ InitAllocation(b, o) /\ Keep(i, b)
    BY <1>2 DEF AllocBig
  <2> QED  BY <1>i, <2>1
<1>3. ASSUME NEW i \in 1 .. sp, SetFreeFunc(i) PROVE UNCHANGED Graph!graphVars
  BY <1>3, <1>h DEF SetFreeFunc, rootVars
<1>4. ASSUME NEW i \in 1 .. sp, NEW p \in Pointer, Load(i, p) PROVE Graph!Next
  <2>1. /\ p \in Values /\ stack' = [stack EXCEPT ![i] = p] /\ written' = written \cup {i}
        /\ UNCHANGED <<kind, field, who, store, made, calls>> /\ i \in Slot /\ i \in 0 .. MaxSlots
        /\ i # 0
    BY <1>4, <1>a DEF Load, Keep, objVars, ghostVars
  <2>2. \A j \in written' : stack'[j] = IF j = i THEN p ELSE stack[j]
    BY <1>a, <2>1
  <2>3. Variables' \subseteq Old
    BY <1>b, <2>1, <2>2 DEF Variables
  <2>4. Binding' = [Binding EXCEPT ![i] = Who(p)]
    <3>1. Binding'[i] = Who(p)
      BY <1>k, <2>1, <2>2 DEF Who
    <3>2. \A w \in (0 .. MaxSlots) \ {i} : Binding'[w] = Binding[w]
      BY <1>k, <2>1, <2>2 DEF Who
    <3> QED  BY <1>j, <2>1, <3>1, <3>2
  <2> QED  BY <1>d, <1>e, <1>g, <2>1, <2>3, <2>4
<1>6. ASSUME NEW p \in Pointer, SetStore(p) PROVE Graph!Next
  <2>1. /\ p \in Values /\ store' = p /\ 0 \in 0 .. MaxSlots
        /\ UNCHANGED <<kind, field, who, stack, written, made, calls>>
    BY <1>6, <1>a DEF SetStore, objVars, ghostVars
  <2>2. Variables' \subseteq Old
    BY <1>b, <2>1 DEF Variables
  <2>3. Binding' = [Binding EXCEPT ![0] = Who(p)]
    <3>1. Binding'[0] = Who(p)
      BY <1>k, <2>1 DEF Who
    <3>2. \A w \in (0 .. MaxSlots) \ {0} : Binding'[w] = Binding[w]
      BY <1>k, <2>1 DEF Who
    <3> QED  BY <1>j, <2>1, <3>1, <3>2
  <2> QED  BY <1>d, <1>e, <1>g, <2>1, <2>2, <2>3
<1>7. CASE Push
  <2>1. UNCHANGED <<kind, field, who, store, made, calls>> /\ sp + 1 \in Slot /\ sp + 1 \notin written
    BY <1>7, <1>a DEF Push, objVars, ghostVars
  <2>2. CASE UNCHANGED <<stack, written>>
    BY <1>h, <2>1, <2>2
  <2>3. CASE stack' = [stack EXCEPT ![sp + 1] = None] /\ written' = written \cup {sp + 1}
    <3>1. \A j \in written' : stack'[j] = IF j = sp + 1 THEN None ELSE stack[j]
      BY <1>a, <2>1, <2>3
    <3>2. Variables' \subseteq Old
      BY <1>b, <2>1, <3>1, <2>3 DEF Variables
    <3>3. Binding' = [Binding EXCEPT ![sp + 1] = None]
      BY <1>a, <2>1, <2>3, <3>1 DEF Binding, Who
    <3>4. sp + 1 \in 0 .. MaxSlots
      BY <1>a, <2>1
    <3> QED  BY <1>e, <1>g, <2>1, <3>2, <3>3, <3>4
  <2> QED  BY <1>7, <2>2, <2>3 DEF Push
<1>8. CASE Pop
  <2>1. /\ UNCHANGED <<kind, field, who, store, made, calls, stack>> /\ written' = written \ {sp}
        /\ sp \in 0 .. MaxSlots /\ sp # 0
    BY <1>8, <1>a DEF Pop, objVars, ghostVars
  <2>2. Variables' \subseteq Old
    BY <1>b, <2>1 DEF Variables
  <2>3. Binding' = [Binding EXCEPT ![sp] = None]
    <3>1. Binding'[sp] = None
      BY <1>k, <2>1
    <3>2. \A w \in (0 .. MaxSlots) \ {sp} : Binding'[w] = Binding[w]
      BY <1>k, <2>1 DEF Who
    <3> QED  BY <1>j, <2>1, <3>1, <3>2
  <2> QED  BY <1>e, <1>g, <2>1, <2>2, <2>3
<1>9. ASSUME NEW t \in Thread, Exit(t) PROVE UNCHANGED Graph!graphVars
  BY <1>9, <1>h DEF Exit, objVars, rootVars, ghostVars
<1>5. ASSUME NEW i \in 1 .. sp, NEW f \in Field, NEW p \in Pointer, StoreField(i, f, p)
      PROVE  Graph!Next
  <2> DEFINE a == stack[i]
             o == who[a]
             E == {e \in Edges : e[1] # o \/ e[2] # f} \cup {<<o, f, q>> : q \in {Who(p)} \ {None}}
  <2>1. /\ field' = [field EXCEPT ![a][f] = p] /\ kind[a] = "object" /\ a \in Old /\ a \in Addr
        /\ UNCHANGED <<kind, who, stack, written, store, made, calls>> /\ (p = None \/ p \in Old)
        /\ p \in Values
    BY <1>5, <1>b DEF StoreField, rootVars, ghostVars, Intact
  <2>2. Binding' = Binding /\ Variables' = Variables
    BY <2>1, BindingStays
  <2>6. \A x \in Old, g \in Field : (x = a /\ g = f) \/ field'[x][g] = field[x][g]
    BY <1>b, <2>1 DEF HeapInv, HeapTypes, Intact
  <2>7. field'[a][f] = p
    BY <2>1 DEF HeapInv, HeapTypes
  <2>8. Old' \subseteq Old
    <3>1. PICK J \in SUBSET Addr : J = Old
      BY <1>b DEF Intact
    <3>2. ASSUME NEW x \in J PROVE Refers(Moved(x))' \ {None} \subseteq J
      <4>1. \A g \in Field : field'[x][g] \in Old \/ field'[x][g] = None \/ field'[x][g] = field[x][g]
        BY <2>1, <2>6, <2>7, <3>1, <3>2
      <4>2. kind[x] = "object" => \A g \in Field : field[x][g] \in Old \/ field[x][g] = None
        BY <1>b, <3>1, <3>2, OldHolds DEF HoldsMarked, Refers
      <4>3. Moved(x)' = x /\ kind'[x] = kind[x]
        BY <1>b, <2>1
      <4> QED  BY <3>1, <4>1, <4>2, <4>3 DEF Refers
    <3>3. HoldsMarked(J)'
      BY <1>b, <2>2, <3>1, <3>2 DEF HoldsMarked
    <3> QED  BY <3>1, <3>3, OldHoldsNext
  <2>9. ASSUME NEW x \in Old, NEW g \in Field
        PROVE  IF x = a /\ g = f
               THEN (HasEdge(x, g)' <=> p # None) /\ (p # None => Edge(x, g)' = <<o, f, Who(p)>>)
               ELSE (HasEdge(x, g)' <=> HasEdge(x, g)) /\ (HasEdge(x, g) => Edge(x, g)' = Edge(x, g))
    <3>1. Moved(x)' = x /\ Moved(x) = x /\ kind' = kind /\ who' = who
      BY <1>b, <2>1
    <3>2. CASE x = a /\ g = f
      BY <2>1, <2>7, <3>1, <3>2 DEF HasEdge, Edge, Who
    <3>3. CASE ~(x = a /\ g = f)
      <4>1. field'[x][g] = field[x][g]
        BY <2>6, <3>3
      <4> QED  BY <3>1, <3>3, <4>1 DEF HasEdge, Edge
    <3> QED  BY <3>2, <3>3
  <2>10. p # None => Who(p) # None
    BY <1>c, <2>1, NoneIsNothing DEF Who
  <2>11. \A x, g : Edge(x, g)[1] = who[x] /\ Edge(x, g)[2] = g
    BY DEF Edge
  <2>12. \A q : <<o, f, q>>[1] = o
    OBVIOUS
  <2>13. p # None => <<o, f, Who(p)>> \in E
    BY <2>10
  <2>14. \A e : (e \in Edges /\ (e[1] # o \/ e[2] # f)) => e \in E
    OBVIOUS
  <2>15. ASSUME NEW e \in E
         PROVE  (e \in Edges /\ (e[1] # o \/ e[2] # f)) \/ (p # None /\ e = <<o, f, Who(p)>>)
    <3>1. CASE ~(e \in Edges /\ (e[1] # o \/ e[2] # f))
      <4>1. PICK q \in {Who(p)} \ {None} : e = <<o, f, q>>
        BY <3>1
      <4>2. q = Who(p) /\ p # None
        BY DEF Who
      <4>3. e = <<o, f, Who(p)>>
        BY <4>1, <4>2
      <4> QED  BY <4>2, <4>3, Zenon
    <3> QED  BY <3>1, Zenon
  <2>16. ASSUME NEW e \in Edges' PROVE e \in E
    <3>1. PICK x \in Old', g \in Field : HasEdge(x, g)' /\ e = Edge(x, g)'
      BY EdgesAreNext
    <3> HIDE DEF E, o, a
    <3>2. CASE x = a /\ g = f
      BY <2>8, <2>9, <2>13, <3>1, <3>2
    <3>3. CASE ~(x = a /\ g = f)
      <4>1. HasEdge(x, g) /\ e = Edge(x, g)
        BY <2>8, <2>9, <3>1, <3>3
      <4>2. e[1] # o \/ e[2] # f
        BY <1>b, <2>1, <2>8, <2>11, <3>1, <3>3, <4>1 DEF o
      <4> QED  BY <2>8, <2>14, <3>1, <4>1, <4>2, EdgesAre
    <3> QED  BY <3>2, <3>3
  <2>17. ASSUME NEW e \in E, e[1] \in {who[x] : x \in Old}' PROVE e \in Edges'
    <3>1. PICK y \in Old' : e[1] = who[y]
      BY <2>1, <2>17
    <3>2. CASE e \in Edges /\ (e[1] # o \/ e[2] # f)
      <4>1. PICK x \in Old, g \in Field : HasEdge(x, g) /\ e = Edge(x, g)
        BY <3>2, EdgesAre
      <4>2. x = y /\ ~(x = a /\ g = f)
        BY <1>b, <2>8, <2>11, <3>1, <3>2, <4>1
      <4> QED  BY <2>9, <3>1, <4>1, <4>2, EdgesAreNext
    <3>3. CASE p # None /\ e = <<o, f, Who(p)>>
      <4>1. y = a
        BY <1>b, <2>1, <2>8, <2>12, <3>1, <3>3
      <4> QED  BY <2>9, <2>1, <3>1, <3>3, <4>1, EdgesAreNext
    <3> QED  BY <2>15, <2>17, <3>2, <3>3
  <2>3. Edges' = Left(E)
    <3>1. PICK D : D = E
      OBVIOUS
    <3> HIDE DEF E
    <3>2. Edges' \subseteq D /\ \A e \in D : e[1] \in {who[x] : x \in Old}' => e \in Edges'
      BY <2>16, <2>17, <3>1
    <3>3. Edges' = Left(D)
      BY <3>2, GraphChanges
    <3> QED  BY <3>1, <3>3
  <2>4. Graph!Store(o, f, Who(p))
    BY <1>a, <2>1, <2>2, <2>3 DEF Graph!Store, Graph!Change
  <2>5. o \in R /\ Who(p) \in R \cup {None}
    BY <1>c, <1>d, <2>1
  <2> QED  BY <2>4, <2>5 DEF Graph!Next, Graph!Reachable
<1> QED
  BY <1>1, <1>2, <1>3, <1>4, <1>5, <1>6, <1>7, <1>8, <1>9 DEF Program

\* To the program, no step of a collection but a finalization is visible.
LEMMA CollectionIsInvisible ==
  ASSUME HeapInv, CollectionInv, GraphInv, HeapInv', CollectionInv', GraphInv',
         Collection
  PROVE  Binding' = Binding /\ Edges' = Edges
<1>a. /\ HoldsMarked(Old) /\ Old \in SUBSET Addr
      /\ Marked => Old \subseteq marked
      /\ ~Marked => Old \subseteq Intact \ transplanted
      /\ \A x \in Old : /\ x \in Intact
                        /\ Moved(x) \in Intact \ transplanted
                        /\ Moved(Moved(x)) = Moved(x)
                        /\ who[Moved(x)] = who[x]
  BY OldHolds
<1>b. ASSUME UNCHANGED <<stack, written, store>>,
             \A x \in Old : /\ (kind[Moved(x)])' = kind[Moved(x)]
                            /\ (field[Moved(x)])' = field[Moved(x)]
                            /\ who'[x] = who[x]
      PROVE  Binding' = Binding /\ Edges' = Edges
  BY <1>b, BindingStays, EdgesStay
<1>c. ASSUME ~Marked, transplanted' = transplanted, UNCHANGED <<stack, written, store>>,
             \A x \in Intact \ transplanted :
               kind'[x] = kind[x] /\ field'[x] = field[x] /\ who'[x] = who[x]
      PROVE  Binding' = Binding /\ Edges' = Edges
  <2>1. \A x \in Old : Moved(x) = x /\ Moved(x)' = x
    BY <1>a, <1>c DEF Moved
  <2> QED  BY <1>a, <1>b, <1>c, <2>1
<1>1. CASE Collect
  BY <1>1, <1>c DEF Collect, Marked, Sweeping, objVars, flagVars, rootVars
<1>2. CASE Mark
  BY <1>2, <1>c DEF Mark, MarkFrom, Marked, Sweeping, objVars, rootVars
<1>3. CASE Sweep
  BY <1>3, <1>a, <1>b, SweepKeeps
<1>4. CASE UpdateRoots /\ UpdateTraps
  <2>1. UNCHANGED <<kind, field, who, forward, transplanted, stack, written, store>>
    BY <1>4 DEF UpdateRoots, UpdateFieldsOf, flagVars
  <2> QED  BY <1>b, <2>1 DEF Moved
<1>5. CASE UpdateRoots /\ ~UpdateTraps
  <2>1. /\ phase = "update" /\ Marked /\ ~Marked'
        /\ UNCHANGED <<kind, who, forward, transplanted, marked, stack, sp, written>>
        /\ store' = Moved(store)
        /\ field' = [a \in Addr |-> IF a \in Updated /\ kind[a] = "object"
                                    THEN [f \in Field |-> Moved(field[a][f])] ELSE field[a]]
    BY <1>5 DEF UpdateRoots, UpdateFieldsOf, Marked, Sweeping, flagVars
  <2>2. \A p : Moved(p)' = Moved(p)
    BY <2>1 DEF Moved
  <2>3. \A p \in StackRoots : Moved(p) = p
    BY DEF Moved, CollectionInv, FlagsInv
  <2>4. Moved(None) = None /\ None \notin Addr
    BY NoneIsNothing DEF Moved, HeapInv, HeapTypes
  <2>5. \A p \in Variables : p \in Old /\ (p \in StackRoots \/ p = store)
    BY <1>a DEF HoldsMarked, Variables, StackRoots, HeapInv, HeapTypes
  <2>6. \A x \in Old : Found(x) /\ x \in Addr /\ Moved(x) \in Addr /\ Moved(x) # None
    BY <1>a, <2>4, IntactIsValid DEF Intact
  <2>7. \A x \in Old : Moved(x) \in Updated
    <3> DEFINE T == {x \in Old : Moved(x) \in Updated}
    <3>1. Variables \subseteq T
      BY <2>1, <2>5, <2>6, UpdatedIsClosed
    <3>2. ASSUME NEW a \in T, NEW p \in Refers(Moved(a)) \ {None} PROVE p \in T
      <4>1. p \in Old /\ Moved(a) \in Updated
        BY <1>a, <3>2 DEF HoldsMarked
      <4> QED  BY <2>1, <2>6, <3>2, <4>1, UpdatedIsClosed
    <3>3. T \in SUBSET Addr
      BY <2>6
    <3> HIDE DEF T
    <3>4. HoldsMarked(T)
      BY <3>1, <3>2 DEF HoldsMarked
    <3>5. Old \subseteq T
      BY <3>3, <3>4, OldHolds
    <3> QED  BY <3>5 DEF T
  <2>8. \A x \in Old, f \in Field :
          HasEdge(x, f) => /\ field[Moved(x)][f] \in Old
                           /\ field'[Moved(x)][f] = Moved(field[Moved(x)][f])
    BY <1>a, <2>1, <2>6, <2>7 DEF HasEdge, HoldsMarked, Refers
  <2>9. \A i \in written : stack[i] # None => Moved(stack[i]) = stack[i] /\ stack[i] \in Old
    BY <2>3, <2>5 DEF Variables, StackRoots, HeapInv, HeapTypes
  <2>10. store # None => store \in Old
    BY <2>5 DEF Variables
  <2>11. Binding' = Binding
    <3>1. Who(store)' = Who(store)
      BY <1>a, <2>1, <2>4, <2>6, <2>10 DEF Who
    <3>2. \A i \in written : Who(stack[i])' = Who(stack[i])
      BY <2>1 DEF Who
    <3> QED  BY <2>1, <3>1, <3>2 DEF Binding
  \* After updating, the program reaches the same objects, where they are now.
  <2>12. \A x \in Old, f \in Field : field[Moved(x)][f] = None => field'[Moved(x)][f] = None
    BY <2>1, <2>4, <2>6
  <2>13. Old' \subseteq {Moved(x) : x \in Old}
    <3>1. PICK J \in SUBSET Addr : J = {Moved(x) : x \in Old}
      BY <2>6
    <3>2. Variables' \subseteq J
      <4>1. \A i \in written' : stack'[i] # None => stack'[i] \in J
        BY <2>1, <2>9, <3>1
      <4>2. store' # None => store' \in J
        BY <2>1, <2>4, <2>10, <3>1
      <4> QED  BY <4>1, <4>2 DEF Variables
    <3>3. ASSUME NEW a \in J, NEW q \in Refers(Moved(a))' \ {None} PROVE q \in J
      <4>1. PICK x \in Old : a = Moved(x)
        BY <3>1
      <4>2. Moved(a)' = a
        BY <1>a, <2>2, <4>1
      <4>3. PICK f \in Field : q = field'[a][f] /\ kind'[a] = "object"
        BY <3>3, <4>2 DEF Refers
      <4>4. HasEdge(x, f)
        BY <2>1, <2>12, <3>3, <4>1, <4>3 DEF HasEdge
      <4> QED  BY <2>8, <3>1, <4>1, <4>3, <4>4
    <3>4. HoldsMarked(J)'
      BY <3>2, <3>3 DEF HoldsMarked
    <3> QED  BY <3>1, <3>4, OldHoldsNext
  <2>14. \A x \in Old : Moved(x) \in Old'
    <3> DEFINE T == {x \in Old : Moved(x) \in Old'}
    <3>a. HoldsMarked(Old)'
      BY OldHoldsNext
    <3>1. Variables \subseteq T
      <4>1. ASSUME NEW p \in Variables PROVE Moved(p) \in Variables'
        <5>1. CASE p = store
          <6>1. store' # None
            BY <2>1, <2>5, <2>6, <4>1, <5>1
          <6> QED  BY <2>1, <5>1, <6>1 DEF Variables
        <5>2. CASE p # store
          <6>1. Moved(p) = p
            BY <2>3, <2>5, <5>2
          <6> QED  BY <2>1, <5>2, <6>1 DEF Variables
        <5> QED  BY <5>1, <5>2
      <4> QED  BY <2>5, <3>a, <4>1 DEF HoldsMarked
    <3>2. ASSUME NEW a \in T, NEW p \in Refers(Moved(a)) \ {None} PROVE p \in T
      <4>1. PICK f \in Field : p = field[Moved(a)][f] /\ HasEdge(a, f)
        BY <3>2 DEF Refers, HasEdge
      <4>2. PICK b \in Old' : b = Moved(a)
        BY <3>2
      <4>3. Moved(b)' = b /\ kind'[b] = "object"
        BY <1>a, <2>1, <2>2, <3>2, <4>1, <4>2 DEF HasEdge
      <4>4. p \in Old /\ field'[b][f] = Moved(p) /\ Moved(p) # None
        BY <2>6, <2>8, <3>2, <4>1, <4>2
      <4>5. Moved(p) \in Refers(Moved(b))'
        BY <4>3, <4>4 DEF Refers
      <4> QED  BY <3>a, <4>2, <4>4, <4>5 DEF HoldsMarked
    <3>3. T \in SUBSET Addr
      BY <2>6
    <3> HIDE DEF T
    <3>4. HoldsMarked(T)
      BY <3>1, <3>2 DEF HoldsMarked
    <3>5. Old \subseteq T
      BY <3>3, <3>4, OldHolds
    <3> QED  BY <3>5 DEF T
  <2>15. ASSUME NEW x \in Old, NEW f \in Field, NEW b, b = Moved(x)
         PROVE  /\ HasEdge(b, f)' <=> HasEdge(x, f)
                /\ HasEdge(x, f) => Edge(b, f)' = Edge(x, f)
    <3>1. Moved(b)' = b /\ kind'[b] = kind[b] /\ who' = who /\ who[b] = who[x]
      BY <1>a, <2>1, <2>2, <2>15
    <3>2. HasEdge(x, f) => LET p == field[b][f] IN
             p \in Old /\ field'[b][f] = Moved(p) /\ who[Moved(p)] = who[p] /\ Moved(p) # None
      BY <1>a, <2>6, <2>8, <2>15
    <3>3. field[b][f] = None => field'[b][f] = None
      BY <2>12, <2>15
    <3>4. HasEdge(b, f)' <=> HasEdge(x, f)
      BY <2>15, <3>1, <3>2, <3>3 DEF HasEdge
    <3> QED  BY <2>15, <3>1, <3>2, <3>4 DEF Edge
  <2>16. Edges' \subseteq Edges
    <3> SUFFICES ASSUME NEW e \in Edges' PROVE e \in Edges
      OBVIOUS
    <3>1. PICK b \in Old', f \in Field : HasEdge(b, f)' /\ e = Edge(b, f)'
      BY EdgesAreNext
    <3>2. PICK x \in Old : b = Moved(x)
      BY <2>13, <3>1
    <3> QED  BY <2>15, <3>1, <3>2, EdgesAre
  <2>17. Edges \subseteq Edges'
    <3> SUFFICES ASSUME NEW e \in Edges PROVE e \in Edges'
      OBVIOUS
    <3>1. PICK x \in Old, f \in Field : HasEdge(x, f) /\ e = Edge(x, f)
      BY EdgesAre
    <3>2. PICK b \in Old' : b = Moved(x)
      BY <2>14, <3>1
    <3> QED  BY <2>15, <3>1, <3>2, EdgesAreNext
  <2> QED  BY <2>11, <2>16, <2>17
<1>6. CASE ResetOrSave
  <2>1. phase = "reset" /\ UNCHANGED <<transplanted, stack, written, store>>
    BY <1>6 DEF ResetOrSave, Save, flagVars, rootVars
  <2> QED  BY <1>6, <1>c, <2>1, ResetKeeps DEF Marked, Sweeping
<1>7. CASE ScrapGraveyard
  <2>1. phase = "scrap" /\ UNCHANGED <<transplanted, stack, written, store>>
    BY <1>7 DEF ScrapGraveyard, flagVars, rootVars
  <2> QED  BY <1>7, <1>c, <2>1, ScrapKeeps DEF Marked, Sweeping
<1>8. CASE Invalidate
  <2>1. /\ phase = "invalidate"
        /\ UNCHANGED <<who, field, transplanted, stack, written, store>>
        /\ \A x \in Intact \ transplanted : kind'[x] = kind[x]
    BY <1>8, InvalidateEffect DEF flagVars, rootVars
  <2> QED  BY <1>c, <2>1 DEF Marked, Sweeping
<1>9. CASE ClearFlags
  <2>1. /\ phase = "clear" /\ transplanted' = {}
        /\ UNCHANGED <<kind, who, field, stack, written, store>>
    BY <1>9 DEF ClearFlags, EndWith, objVars, rootVars
  <2>2. \A x \in Old : Moved(x) = x /\ Moved(x)' = x
    BY <1>a, <2>1 DEF Moved, Marked, Sweeping
  <2> QED  BY <1>b, <2>1, <2>2
<1> QED
  BY <1>1, <1>2, <1>3, <1>4, <1>5, <1>6, <1>7, <1>8, <1>9 DEF Collection

\* A finalization is one of the graph, the first time.
LEMMA FinalizeImplements ==
  ASSUME FreeFuncsEndEarly, HeapInv, CollectionInv, GraphInv, OnceInv,
         NEW a \in Addr, Finalize(a), Binding' = Binding, Edges' = Edges
  PROVE  [Graph!Next]_(Graph!graphVars)
<1> DEFINE called == {o \in Obj : calls[o] > 0}
<1>1. /\ a \in sweep /\ a \notin marked /\ phase \in Sweeping
      /\ UNCHANGED <<phase, collection, made>>
      /\ calls' = [o \in Obj |-> IF o = who[a] /\ a \in free_func /\ calls[o] < 2
                                 THEN calls[o] + 1 ELSE calls[o]]
  BY DEF Finalize, Visit
<1>2. \A o \in Obj : calls[o] \in 0 .. 2
  BY DEF HeapInv, HeapTypes
<1>3. who[a] \in made /\ who[a] \in Obj
  BY <1>1, NoneIsNothing DEF HeapInv, ChunksInv, HeapTypes
<1>5. CASE a \notin free_func \/ calls[who[a]] > 0
  <2>1. \A o \in Obj : calls'[o] > 0 <=> calls[o] > 0
    BY <1>1, <1>2, <1>5
  <2>2. called' = called
    BY <2>1
  <2> QED  BY <1>1, <2>2 DEF Graph!graphVars
<1>6. CASE a \in free_func /\ calls[who[a]] = 0
  <2>1. called' = called \cup {who[a]} /\ who[a] \notin called
    BY <1>1, <1>2, <1>3, <1>6
  <2>2. "free" \in regime /\ "major" \notin regime
    BY <1>6 DEF OnceInv, FreeFuncsEndEarly, HeapInv, HeapTypes
  <2>3. phase = "sweep_nurseries" /\ InUse(a) /\ space[a[1]] = "nursery"
    BY <1>1, <2>2 DEF HeapInv, PhaseInv, ChunksInv, Sweeping, CollectionInv, SweepInv
  <2>4. a \in Intact /\ a \notin transplanted
    BY <1>1, <2>3 DEF OnceInv, CollectionInv, SweepInv
  <2>5. \A x \in Old : who[x] # who[a]
    <3> SUFFICES ASSUME NEW x \in Old, who[x] = who[a] PROVE FALSE
      OBVIOUS
    <3>1. x \in marked /\ Moved(x) \in Intact \ transplanted /\ who[Moved(x)] = who[x]
      BY <1>1, OldHolds DEF Marked
    <3>2. a = Moved(x)
      BY <2>4, <3>1 DEF CollectionInv, OneCopy
    <3>3. x \in transplanted /\ forward[x] = a
      BY <1>1, <3>1, <3>2 DEF Moved
    <3> QED  BY <2>3, <3>3 DEF CollectionInv, ForwardInv, Sweeping
  <2>6. who[a] \notin Graph!Reachable
    BY <2>5, ReachableIs DEF Graph!Reachable
  <2>7. PICK o \in Obj : o = who[a]
    BY <1>3
  <2>8. Graph!Finalize(o)
    BY <1>1, <1>3, <2>1, <2>6, <2>7 DEF Graph!Finalize, Sweeping
  <2> QED  BY <2>8 DEF Graph!Next
<1> QED  BY <1>2, <1>3, <1>5, <1>6

LEMMA CollectionImplements ==
  ASSUME FreeFuncsEndEarly, HeapInv, CollectionInv, GraphInv, HeapInv', CollectionInv', GraphInv',
         OnceInv, Collection
  PROVE  [Graph!Next]_(Graph!graphVars)
<1>1. Binding' = Binding /\ Edges' = Edges
  BY CollectionIsInvisible
<1>2. CASE \E a \in Addr : Finalize(a)
  BY <1>1, <1>2, FinalizeImplements
<1>3. CASE UNCHANGED <<made, calls>>
  <2>1. CASE (phase' # "mutator") = (phase # "mutator")
    BY <1>1, <1>3, <2>1 DEF Graph!graphVars
  <2>2. CASE (phase' # "mutator") # (phase # "mutator")
    <3>1. Graph!Collect
      BY <1>1, <1>3, <2>2 DEF Graph!Collect
    <3> QED  BY <3>1 DEF Graph!Next
  <2> QED  BY <2>1, <2>2
<1>4. ASSUME NEW a \in Addr, NEW c \in Chunk, Transplant(a, c) PROVE UNCHANGED <<made, calls>>
  BY <1>4, CopyRest
<1>5. CASE Sweep
  BY <1>2, <1>3, <1>4, <1>5
  DEF Sweep, Leave, SweptNurseries, SweptAdults, SweptUnkillables, ghostVars
<1>6. CASE Collect \/ Mark \/ UpdateRoots
  BY <1>3, <1>6 DEF Collect, Mark, MarkFrom, UpdateRoots, UpdateFieldsOf, ghostVars
<1>7. CASE ResetOrSave \/ ScrapGraveyard \/ Invalidate \/ ClearFlags
  BY <1>3, <1>7 DEF ResetOrSave, Save, ScrapGraveyard, Invalidate, ClearFlags, EndWith, ghostVars
<1> QED  BY <1>5, <1>6, <1>7 DEF Collection

LEMMA GraphImplemented ==
  FreeFuncsEndEarly /\ HeapInv /\ CollectionInv /\ GraphInv
    /\ HeapInv' /\ CollectionInv' /\ GraphInv' /\ OnceInv /\ [Next]_vars
  => [Graph!Next]_(Graph!graphVars)
<1> SUFFICES ASSUME FreeFuncsEndEarly, HeapInv, CollectionInv, GraphInv, HeapInv', CollectionInv',
                    GraphInv', OnceInv, [Next]_vars
             PROVE  [Graph!Next]_(Graph!graphVars)
  OBVIOUS
<1>1. CASE UNCHANGED vars
  <2>1. UNCHANGED <<kind, field, who, forward, transplanted, stack, written, store, made, calls, phase>>
    BY <1>1 DEF vars, gcVars, objVars, flagVars, rootVars, ghostVars
  <2>2. \A x \in Old : /\ (kind[Moved(x)])' = kind[Moved(x)]
                       /\ (field[Moved(x)])' = field[Moved(x)]
                       /\ who'[x] = who[x]
    BY <2>1 DEF Moved
  <2>3. Binding' = Binding /\ Variables' = Variables
    BY <2>1, <2>2, BindingStays
  <2>4. Edges' = Edges
    BY <2>2, <2>3, EdgesStay
  <2> QED  BY <2>1, <2>3, <2>4 DEF Graph!graphVars
<1> QED  BY <1>1, ProgramImplements, CollectionImplements DEF Next

LEMMA GraphStarts == Init => Graph!Init
<1> SUFFICES ASSUME Init PROVE Graph!Init
  OBVIOUS
<1>1. HeapInv /\ CollectionInv /\ GraphInv
  BY HeapInvInit, CollectionInit, GraphInit
<1>2. Variables = {}
  BY DEF Init, Variables
<1>3. Old = {}
  <2>1. HoldsMarked({})
    BY <1>2 DEF HoldsMarked
  <2> QED  BY <1>1, <2>1, OldHolds
<1>4. Edges = {}
  BY <1>1, <1>3, EdgesAre
<1>5. Binding = [v \in 0 .. MaxSlots |-> None]
  BY DEF Init, Binding, Who
<1>6. {o \in Obj : calls[o] > 0} = {}
  BY DEF Init
<1>7. made = {} /\ phase = "mutator"
  BY DEF Init
<1> QED  BY <1>4, <1>5, <1>6, <1>7 DEF Graph!Init

-----------------------------------------------------------------------------
(***************************************************************************)
(* The theorems                                                            *)
(***************************************************************************)
\* What the program reaches is among the objects that were not left behind.
LEMMA LiveIsIntact ==
  ASSUME HeapInv, CollectionInv, GraphInv
  PROVE  Live \subseteq Intact \ transplanted
  BY LiveIsMoved, OldHolds

LEMMA Always == ASSUME CountersFit PROVE Spec => [](HeapInv /\ CollectionInv /\ GraphInv)
<1>1. Init => HeapInv /\ CollectionInv /\ GraphInv
  BY HeapInvInit, CollectionInit, GraphInit
<1>2. HeapInv /\ CollectionInv /\ GraphInv /\ [Next]_vars
        => HeapInv' /\ CollectionInv' /\ GraphInv'
  BY HeapInvNext, CollectionNext, GraphNext
<1> QED
  BY <1>1, <1>2, PTL DEF Spec

\* Every flag, list and address that gc.c computes is one there is, in every
\* phase of a collection, and what snow_gc_set_free_func is given is an object
\* (gc.c:325-332).
THEOREM Types == ASSUME CountersFit PROVE Spec => []TypeOK
<1>1. Init => LostInv
  BY LostInit
<1>2. HeapInv /\ CollectionInv /\ GraphInv /\ LostInv /\ [Next]_vars => LostInv'
  BY LostNext
<1>3. HeapInv /\ LostInv => TypeOK
  BY DEF HeapInv, LostInv, TypeOK
<1> QED
  BY <1>1, <1>2, <1>3, Always, PTL DEF Spec

\* Whatever the program can reach survives every phase of every collection, as
\* one object: gc_transplant, gc_update_root, gc_reset_or_save_nurseries and
\* gc_clear_flags agree on what is alive, for every program, stale words and
\* free functions included.
THEOREM NothingReachableIsLost == ASSUME CountersFit PROVE Spec => []ReachableIsIntact
<1>1. HeapInv /\ CollectionInv /\ GraphInv => ReachableIsIntact
  BY LiveIsIntact, IntactIsValid DEF ReachableIsIntact, CollectionInv, OneCopy
<1> QED
  BY <1>1, Always, PTL

\* What a word of a stack may refer to never moves, and its heap outlives the
\* collection: the counters that gc_mark_root increments (gc.c:768) are what
\* gc_reset_or_save_nurseries and the sweep of a major collection go by.
THEOREM PinsHold == ASSUME CountersFit PROVE Spec => []PinnedStaysPut
<1>1. HeapInv /\ CollectionInv => PinnedStaysPut
  <2> SUFFICES ASSUME HeapInv, CollectionInv, NEW p \in StackRoots
               PROVE  p \notin transplanted /\ (p \in indefinite => Valid(p))
    BY DEF PinnedStaysPut
  <2> QED
    BY IntactIsValid DEF CollectionInv, FlagsInv
<1> QED
  BY <1>1, Always, PTL

\* No collection meets a stale definite reference (the ASSERTs of
\* gc_update_root), if words that earlier frames left behind refer to nothing
\* that has references.
THEOREM NoStaleReference ==
  ASSUME CountersFit, StaleWordsAreAtomic PROVE Spec => []NoStaleRoot
<1>1. Init => PreciseInv
  BY PreciseInit
<1>2. HeapInv /\ CollectionInv /\ GraphInv /\ PreciseInv /\ [Next]_vars => PreciseInv'
  BY PreciseNext
<1>3. PreciseInv => NoStaleRoot
  BY DEF PreciseInv, NoStaleRoot
<1> QED
  BY <1>1, <1>2, <1>3, Always, PTL DEF Spec

\* gc_transplant takes the free function along (gc.c:740), and no heap is
\* given back with one in it: it is called, or still waits with its object.
THEOREM FreeFuncIsKept == ASSUME CountersFit PROVE Spec => []FreeFuncIsNotLost
<1>1. Init => LostInv
  BY LostInit
<1>2. HeapInv /\ CollectionInv /\ GraphInv /\ LostInv /\ [Next]_vars => LostInv'
  BY LostNext
<1>3. HeapInv /\ LostInv => FreeFuncIsNotLost
  <2> SUFFICES ASSUME HeapInv, LostInv, NEW o \in registered
               PROVE  calls[o] > 0 \/ \E a \in free_func : who[a] = o /\ Valid(a)
    BY DEF FreeFuncIsNotLost
  <2> QED
    BY IntactIsValid DEF LostInv
<1> QED
  BY <1>1, <1>2, <1>3, Always, PTL DEF Spec

\* gc_finalize_object calls the free function of an allocation once, and not
\* while the program can reach it, if the program ends before the first major
\* collection.
THEOREM FreeFuncIsCalledOnce ==
  ASSUME CountersFit, FreeFuncsEndEarly PROVE Spec => []FreeFuncRunsOnce
<1>1. Init => OnceInv
  BY OnceInit
<1>2. HeapInv /\ CollectionInv /\ GraphInv /\ OnceInv /\ [Next]_vars => OnceInv'
  BY OnceNext
<1>3. HeapInv /\ CollectionInv /\ GraphInv /\ OnceInv => FreeFuncRunsOnce
  BY LiveIsIntact DEF OnceInv, FreeFuncRunsOnce
<1> QED
  BY <1>1, <1>2, <1>3, Always, PTL DEF Spec

\* A major collection (gc_major, gc.c) leaves no garbage but in the allocations
\* that it does not sweep: what it keeps is what it marked, that is what the
\* roots reach, and it keeps an unkillable heap only for what a stack refers to.
THEOREM MajorLeavesNoGarbage == ASSUME CountersFit PROVE Spec => []MajorReclaims
<1>1. Init => ReclaimInv
  BY ReclaimInit
<1>2. HeapInv /\ CollectionInv /\ ReclaimInv /\ [Next]_vars => ReclaimInv'
  BY ReclaimNext
<1>3. HeapInv /\ CollectionInv /\ ReclaimInv => MajorReclaims
  BY ReclaimEnough
<1> QED
  BY <1>1, <1>2, <1>3, Always, PTL DEF Spec

\* To the program a collection is invisible: variables and fields refer to the
\* allocations that it made them refer to, whatever gc_transplant moves and
\* gc_update_root rewrites, and free functions are called on what it cannot
\* reach (gc.h:54-55).
THEOREM CollectorIsInvisible ==
  ASSUME CountersFit, FreeFuncsEndEarly PROVE Spec => ImplementsObjectGraph
<1>1. Init => Graph!Init
  BY GraphStarts
<1>2. Init => OnceInv
  BY OnceInit
<1>3. HeapInv /\ CollectionInv /\ GraphInv /\ OnceInv /\ [Next]_vars => OnceInv'
  BY OnceNext
<1>4. HeapInv /\ CollectionInv /\ GraphInv
        /\ HeapInv' /\ CollectionInv' /\ GraphInv' /\ OnceInv /\ [Next]_vars
      => [Graph!Next]_(Graph!graphVars)
  BY GraphImplemented
<1> QED
  BY <1>1, <1>2, <1>3, <1>4, Always, PTL DEF Spec, ImplementsObjectGraph, Graph!Spec
=============================================================================
