------------------------------- MODULE Arrays -------------------------------
(***************************************************************************)
(* One array (struct array_t, array-intern.h) that several threads use at  *)
(* the same time, without a lock ("TODO: mutex lock", array.c:52): each of *)
(* its members is read and written by a step of its own.                   *)
(*                                                                         *)
(* In the program "store" the array is the store (snow.c): compiled code   *)
(* gets its literals from it while one thread compiles and adds to it.  In *)
(* the program "map" it is the result of map_parallel, made with room for  *)
(* every element, where each task sets the elements of its iterations.     *)
(***************************************************************************)
EXTENDS Naturals, FiniteSets, Sequences

CONSTANTS
  Worker, Adder,
  Nil, Null, Unwritten,
  ArrayPrograms, \* subset of {"store", "map"}
  InitialRoom,   \* room of a new array: 1024 for the store
  MaxSize        \* bound: elements that are added, or mapped

VARIABLES
  array_program,
  size, alloc_size, data, \* the members of the array; data is the number of a blob
  blobs,                  \* what the garbage collector keeps: a sequence of words each
  pc, idx, val,           \* of each thread: its place, index and value
  new_data, bound, i,     \* of each thread: locals of array_grow, or what it read
  begun,                  \* how many values were added, or iterations begun
  given                   \* ghost: the keys that snow_store_add returned

array_vars ==
  <<array_program, size, alloc_size, data, blobs, pc, idx, val, new_data, bound, i, begun, given>>
array == <<size, alloc_size, data, blobs>>
locals == <<idx, val, new_data, bound, i>>
ghosts == <<array_program, begun, given>>

\* snow_gc_alloc_blob does not clear what it returns.
Blob(n) == [k \in 1 .. n |-> Unwritten]

\* array_init_with_size
ArraysInit ==
  /\ array_program \in ArrayPrograms
  /\ size = 0
  /\ alloc_size = IF array_program = "map" THEN MaxSize ELSE InitialRoom
  /\ blobs = <<Blob(alloc_size)>> /\ data = 1
  /\ pc = [t \in Worker |-> "idle"]
  /\ idx = [t \in Worker |-> 0] /\ val = [t \in Worker |-> Null]
  /\ new_data = [t \in Worker |-> 0] /\ bound = [t \in Worker |-> 0]
  /\ i = [t \in Worker |-> 0]
  /\ begun = 0
  /\ given = {}

At(t, place) == pc[t] = place
Goto(t, place) == pc' = [pc EXCEPT ![t] = place]
Set(f, t, value) == [f EXCEPT ![t] = value]

(***************************************************************************)
(* array_set, from snow_store_add (array_push) and the callback of         *)
(* map_parallel.                                                           *)
(***************************************************************************)
\* The key is the size before.
StoreAdd(t) ==
  /\ array_program = "store" /\ t = Adder
  /\ At(t, "idle") /\ begun < MaxSize
  /\ begun' = begun + 1
  /\ idx' = Set(idx, t, size) /\ val' = Set(val, t, begun)
  /\ Goto(t, "set")
  /\ UNCHANGED <<array_program, array, new_data, bound, i, given>>

\* An iteration of snow_parallel_for_each: any thread takes the next one.
MapNext(t) ==
  /\ array_program = "map"
  /\ At(t, "idle") /\ begun < MaxSize
  /\ begun' = begun + 1
  /\ idx' = Set(idx, t, begun) /\ val' = Set(val, t, begun)
  /\ Goto(t, "set")
  /\ UNCHANGED <<array_program, array, new_data, bound, i, given>>

SetElement(t) ==
  /\ At(t, "set")
  /\ Goto(t, IF idx[t] >= size THEN "grow" ELSE "write")
  /\ UNCHANGED <<array, locals, ghosts>>

\* array_grow to idx + 1
Grow(t) ==
  /\ At(t, "grow")
  /\ IF idx[t] + 1 > alloc_size
     THEN /\ blobs' = Append(blobs, Blob(idx[t] + 1))
          /\ new_data' = Set(new_data, t, Len(blobs) + 1)
          /\ Goto(t, "copy")
     ELSE Goto(t, "fill") /\ UNCHANGED <<blobs, new_data>>
  /\ UNCHANGED <<size, alloc_size, data, idx, val, bound, i, ghosts>>

\* memcpy
CopyData(t) ==
  /\ At(t, "copy")
  /\ blobs' = [blobs EXCEPT ![new_data[t]] =
                 [k \in DOMAIN @ |-> IF k <= size THEN blobs[data][k] ELSE @[k]]]
  /\ Goto(t, "publish")
  /\ UNCHANGED <<size, alloc_size, data, locals, ghosts>>

\* Mutant: the size counts the new element before the new data is in place.
PublishSizeFirst(t) ==
  /\ At(t, "publish")
  /\ IF size < idx[t] + 1
     THEN size' = idx[t] + 1 /\ UNCHANGED <<data, pc>>
     ELSE data' = new_data[t] /\ Goto(t, "publish_alloc_size") /\ UNCHANGED size
  /\ UNCHANGED <<alloc_size, blobs, locals, ghosts>>

Publish(t) ==
  /\ At(t, "publish")
  /\ data' = new_data[t]
  /\ Goto(t, "publish_alloc_size")
  /\ UNCHANGED <<size, alloc_size, blobs, locals, ghosts>>

PublishAllocSize(t) ==
  /\ At(t, "publish_alloc_size")
  /\ alloc_size' = idx[t] + 1
  /\ Goto(t, "fill")
  /\ UNCHANGED <<size, data, blobs, locals, ghosts>>

FillStart(t) ==
  /\ At(t, "fill")
  /\ i' = Set(i, t, size)
  /\ Goto(t, IF idx[t] + 1 > size THEN "filling" ELSE "write")
  /\ UNCHANGED <<array, idx, val, new_data, bound, ghosts>>

FillNil(t) ==
  /\ At(t, "filling") /\ i[t] < idx[t] + 1
  /\ blobs' = [blobs EXCEPT ![data][i[t] + 1] = Nil]
  /\ i' = Set(i, t, i[t] + 1)
  /\ UNCHANGED <<size, alloc_size, data, pc, idx, val, new_data, bound, ghosts>>

SetSize(t) ==
  /\ At(t, "filling") /\ i[t] = idx[t] + 1
  /\ size' = idx[t] + 1
  /\ Goto(t, "write")
  /\ UNCHANGED <<alloc_size, data, blobs, locals, ghosts>>

\* Mutant: the key is given out before the value is in its place.
WriteAfterReturn(t) ==
  /\ At(t, "write")
  /\ IF <<idx[t], val[t]>> \notin given
     THEN given' = given \cup {<<idx[t], val[t]>>} /\ UNCHANGED <<blobs, pc>>
     ELSE blobs' = [blobs EXCEPT ![data][idx[t] + 1] = val[t]] /\ Goto(t, "idle")
          /\ UNCHANGED given
  /\ UNCHANGED <<array_program, begun, size, alloc_size, data, locals>>

\* The value is in its place, and the caller returns.
Write(t) ==
  /\ At(t, "write")
  /\ blobs' = [blobs EXCEPT ![data][idx[t] + 1] = val[t]]
  /\ given' = given \cup {<<idx[t], val[t]>>}
  /\ Goto(t, "idle")
  /\ UNCHANGED <<array_program, begun, size, alloc_size, data, locals>>

(***************************************************************************)
(* array_get, from snow_store_get, with a key that was given out           *)
(***************************************************************************)
StoreGet(t, g) ==
  /\ array_program = "store" /\ t # Adder
  /\ At(t, "idle")
  /\ idx' = Set(idx, t, g[1]) /\ val' = Set(val, t, g[2])
  /\ bound' = Set(bound, t, size)
  /\ Goto(t, "get")
  /\ UNCHANGED <<array, new_data, i, ghosts>>

\* The data may be another blob by now than when the size was read, and again
\* when the element is.
GetData(t) ==
  /\ At(t, "get")
  /\ IF idx[t] >= bound[t] THEN Goto(t, "got_null") /\ UNCHANGED new_data
     ELSE Goto(t, "read") /\ new_data' = Set(new_data, t, data)
  /\ UNCHANGED <<array, idx, val, bound, i, ghosts>>

ReadElement(t) ==
  /\ At(t, "read")
  /\ Goto(t, IF blobs[new_data[t]][idx[t] + 1] = val[t] THEN "idle" ELSE "got_another")
  /\ new_data' = Set(new_data, t, 0) /\ bound' = Set(bound, t, 0)
  /\ idx' = Set(idx, t, 0) /\ val' = Set(val, t, Null)
  /\ UNCHANGED <<array, i, ghosts>>

ArraysNext ==
  \E t \in Worker :
    \/ StoreAdd(t)
    \/ MapNext(t)
    \/ SetElement(t)
    \/ Grow(t)
    \/ CopyData(t)
    \/ Publish(t)
    \/ PublishAllocSize(t)
    \/ FillStart(t)
    \/ FillNil(t)
    \/ SetSize(t)
    \/ Write(t)
    \/ \E g \in given : StoreGet(t, g)
    \/ GetData(t)
    \/ ReadElement(t)

ArraysSpec == ArraysInit /\ [][ArraysNext]_array_vars

(***************************************************************************)
(* Properties                                                              *)
(***************************************************************************)
\* Whatever the others do between its steps, no thread reads or writes beyond
\* the end of the blob that it has in hand, and the size never promises more
\* than the data can hold (array-intern.h:29-69): with one thread that adds
\* and many that get, and in map_parallel.
InBounds ==
  /\ size <= Len(blobs[data])
  /\ \A t \in Worker :
       /\ At(t, "filling") /\ i[t] <= idx[t] => i[t] < Len(blobs[data])
       /\ At(t, "write") => idx[t] < Len(blobs[data])
       /\ At(t, "read") => idx[t] < Len(blobs[new_data[t]])

\* With one thread that adds, a key that snow_store_add returned gets its value
\* at any time, also while the store grows (snow.c:608-622).
StoreGetsWhatWasAdded == \A t \in Worker : pc[t] \notin {"got_null", "got_another"}
=============================================================================
