------------------------------- MODULE MCMemory -------------------------------
(***************************************************************************)
(* The heap, the objects and arrays that live on it, the link buffers      *)
(* beside it and the stacks of continuations, for TLC.  They share no      *)
(* state: a behaviour is one of one of them ("part"), while the others     *)
(* stay as they started.                                                   *)
(***************************************************************************)
EXTENDS Collector, Continuations, Arrays, Objects, LinkBuffer, TLC

CONSTANTS x, b0, b1

\* The heap: without "stale" beside "fields", or "major" beside "free", see
\* the runs heap_stale and heap_finalizer.
HeapRegimes == {{"fields", "major"}, {"fields", "free"}, {"stale", "major"},
                {"fields", "threads", "exit"}, {"fields", "big"}}

\* Objects: properties and members of an object and its prototype, which it may
\* include as well; the same with member_missing; with modules; modules of
\* modules; classes, their instances and names.
ObjectProgram(prototypes, operations, names, length) ==
  [prototypes |-> prototypes, operations |-> operations, names |-> names, length |-> length]

ObjectPrograms == {
  ObjectProgram(<<NULL, 5>>, {"include", "define", "set", "get"}, {x}, 4),
  ObjectProgram(<<NULL, 5>>, {"define", "set", "fallback"}, {x, "member_missing"}, 3),
  ObjectProgram(<<NULL, 5, NULL>>, {"include", "define", "set", "get"}, {x}, 3),
  ObjectProgram(<<NULL, 5, NULL>>, {"include", "set", "get"}, {x}, 4),
  ObjectProgram(<<NULL, NULL, 5>>, {"include"}, {}, 6),
  ObjectProgram(<<>>, {"class", "assign", "get"}, {x, "__name__"}, 4),
  ObjectProgram(<<NULL>>, {"class", "create", "include"}, {}, 4)}

\* Continuations: a throw that no try catches has a run of its own.
CatchingPrograms == {{"call", "collect"}, {"call", "try", "throw"}, {"try", "throw", "abort"}}

VARIABLE part

heap_vars == vars

\* The parts that do not run make the first of their choices.
HeapStays == regime = CHOOSE r \in HeapRegimes : TRUE
ObjectsStay == program = CHOOSE p \in ObjectPrograms : TRUE
TaskStays == task_program = CHOOSE p \in CatchingPrograms : TRUE
ArrayStays == array_program = "map"

MemoryInit ==
  /\ part \in {"heap", "objects", "task", "array", "buffer"}
  /\ part # "heap" => HeapStays
  /\ part # "objects" => ObjectsStay
  /\ part # "task" => TaskStays
  /\ part # "array" => ArrayStays
  /\ Init /\ ObjectsInit /\ ContinuationsInit /\ ArraysInit /\ BufferInit

MemoryNext ==
  \/ /\ part = "heap" /\ Next
     /\ UNCHANGED <<part, object_vars, continuation_vars, array_vars, buffer_vars>>
  \/ /\ part = "objects" /\ ObjectsNext
     /\ UNCHANGED <<part, heap_vars, continuation_vars, array_vars, buffer_vars>>
  \/ /\ part = "task" /\ ContinuationsNext
     /\ UNCHANGED <<part, heap_vars, object_vars, array_vars, buffer_vars>>
  \/ /\ part = "array" /\ ArraysNext
     /\ UNCHANGED <<part, heap_vars, object_vars, continuation_vars, buffer_vars>>
  \/ /\ part = "buffer" /\ BufferNext
     /\ UNCHANGED <<part, heap_vars, object_vars, continuation_vars, array_vars>>

MemorySpec ==
  MemoryInit
  /\ [][MemoryNext]_<<part, heap_vars, object_vars, continuation_vars, array_vars, buffer_vars>>
=============================================================================
