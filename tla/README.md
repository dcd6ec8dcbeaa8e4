# Formal models of the Snow runtime

Snow is a small dynamic language with a compiler to x86-64, a moving
generational garbage collector, exceptions built on saved machine states, and
tasks that run in parallel on Grand Central Dispatch (GCD). This directory
holds TLA+ models of its runtime and its code generator, the TLC runs that check
them on small instances, and proofs, checked by TLAPS, for instances of every
size: of the protocol that the collector relies on, of the collector itself, of
compiled names and their contexts, of continuations, shared arrays, symbols, and
of `require`.

Contents: [the system](#the-system), [the plan](#the-plan), [the runs](#the-runs),
[task dispatch](#task-dispatch), [the collector](#the-collector),
[exceptions](#exceptions), [names and contexts](#names-and-contexts),
[objects and classes](#objects-and-classes), [compiled code](#compiled-code),
[continuations](#continuations), [arrays](#arrays), [link buffers](#link-buffers),
[symbols](#symbols), [requiring files](#requiring-files),
[what is proved](#what-is-proved), [what is not modelled](#what-is-not-modelled),
[noticed on the way](#noticed-on-the-way), [running](#running).

## The system

| Component | State | Operations | Hard behaviour |
|---|---|---|---|
| Tasks, GCD build (`task-dispatch.c`, `task-intern.h`) | list of thread states; per thread a chain of tasks and a semaphore `gc_barrier`; `state_lock` | `init_thread`, `finalize_thread`, `perform_task`, `snow_parallel_for_each`, `snow_deferred_call`, `_wait`, finalize, pause and resume, the four barrier functions | threads start, go idle and exit while a collector walks their list |
| Entering a collection (`gc.c:382-423`, `gc.h:78-87`) | `gc_lock`, `_snow_gc_is_collecting` | `gc_alloc`, `snow_gc`, `snow_gc_barrier` | two collectors at once; waiting for a thread that waits for you |
| Collector (`gc.c`, `gcheap.h`) | nurseries, adults, unkillables, biggies; flags and counters per heap; address bounds | allocation, free functions, minor and major collection, thread exit | objects that move and objects that must not; order of the phases; what an earlier collection left |
| Exceptions (`exception.c`, `task.c`, `codegen-x86_64.c`) | chain of handlers per task; a phase per try; exceptions per parallel loop | begin, end and resumption of a try, throw, try/catch/ensure with callbacks, compiled try, collection of exceptions of a loop | three kinds of try share one chain; throws from any phase, out of any nesting |
| Symbols (`symbol.c`) | table, lock | `snow_symbol` | allocation, hence collection, under the lock; lazy initialization |
| Continuations (`continuation.c`, `fixed-alloc.c`) | stack, saved state, `running`, `return_to`, `please_clean`; free list of stacks | call, yield, return, resume, clean-up | a stack is freed by the next one; throws leave continuations; free list without its lock |
| Arrays, maps (`array.c`, `array-intern.h`, `map.c`) | size, capacity, data | get, set, erase, push, parallel map | an inlined read without bounds; growth by several tasks |
| Contexts, arguments, functions (`context.c`, `arguments.c`, `function.c`, `codegen.c`) | lists of local names and references per description; locals, self and arguments per context | compile a name, create a closure, call, read and write a variable | indices found in one tree, while it grows, are used in another; merge of named arguments |
| Objects, classes (`object.c`, `class.c`) | members, properties, included modules, prototypes; a class's instance prototype | get, set, define, include, uninclude, new, `is_a?`, assignment of names | cycles of includes; two entries per property; getters that return NULL |
| Code generator, assembler (`codegen-x86_64.c`, `asm-x86_64.h`) | instructions, temporaries, labels | compile a node; link | temporaries and registers of nested code; jumps linked late |
| Link buffers (`linkbuffer.c`) | pages of bytes | push, copy, modify | data across pages |
| Loading (`snow.c:127-282`) | load paths, loaded files | `require`, `load` | circles of files, exceptions half-way |
| The store (`snow.c:602-622`) | an array | add, get | read by threads while one grows it |
| Parser, scanner, syntax trees | none between parses | parse | none |
| Strings, numbers, booleans, nil, pointers | immutable values | conversions, arithmetic | integer width |
| Libraries file, socket, regex; `main.c`, module loading | file descriptors | system calls | I/O only |
| Serial build (`task-serial.c`) | one task chain | as the GCD build, in order | none |

How they interact: every allocation calls the collector (a *barrier* at least,
a collection if the nursery is full). A collection needs every other thread to
have *hibernated* its current task, that is, to have recorded where its stack
ends; it then scans the stacks of all tasks and the *store* (a root for C
variables), moves objects and calls the free functions of dead ones.
`perform_task` gives every task a handler chain of its own, catches what the
task throws and hands it to the caller of a parallel loop. A compiled `try` and
the two C interfaces push handlers on that chain.

What makes the modelled ones correct:

* *Tasks and barriers*: no task runs while a collection does; collections do not
  overlap; the collector knows every thread; no signal is left over that would
  let a later collector pass a running thread; calls return.
* *Collector*: what the program reaches survives and there is one copy of it;
  what a stack seems to reach does not move; free functions run once, late
  enough, and do run; major collections reclaim garbage; the program cannot tell.
* *Exceptions*: each exception lands in the innermost open try; each ensure block
  runs; the chain of handlers is what it was when a try has ended; no exception
  is lost between tasks.
* *Contexts*: a name stands for the variable of the innermost function that
  declares it, in the activation that created the closure; a parameter gets its
  argument.
* *Objects*: lookup ends, and finds what the object model says; an instance is one
  of its class.
* *Compiled code*: it makes the calls its text says, in order, with the operands the
  text says.
* *Continuations*: a stack has one owner; a function returns to who called it; an
  abort ends the task.
* *Arrays*: no access out of bounds, also when shared; a key of the store keeps its
  value; methods work on elements, whatever their closures do.
* *Link buffers*: one sequence of bytes. *Symbols*: one per name, for ever.
  *Loading*: a file once, a name one file.

`PROJECT.json` lists the hazards behind these, each at its line.

## The plan

Each stage adds modules that stand alone; the abstract specification of a stage
is what later stages may assume of it. Order: what everything else relies on
comes first.

| Stage | Modules | Abstract specification | Checked | Proved |
|---|---|---|---|---|
| 1 | `TaskDispatch` | `StopTheWorld` | yes | safety, in `TaskDispatchProofs` |
| 2 | `Collector` (assumes `StopTheWorld`) | `ObjectGraph` | yes | all, with the refinement, in `CollectorProofs` |
| 3 | `Exceptions` | `TryCatchEnsure` | yes | all, with the refinement, in `ExceptionsProofs` |
| 4 | `Contexts` | `LexicalScope` | yes | all invariants, in `ContextsProofs` |
| 5 | `Objects` | `ObjectModel` | yes | both invariants and the refinement, in `ContainersProofs` |
| 6 | `CompiledCode` | `CompiledText` (a walk of the tree) | yes | no: recursive operators |
| 7 | `Continuations` | | yes | all invariants, in `PagesProofs` |
| 8 | `Arrays`, `ArrayMethods` | | yes | all invariants of both, in `ContainersProofs` |
| 9 | `LinkBuffer` | `ByteSequence` | yes | the refinement, in `PagesProofs` |
| 10 | `Symbols` | | yes | types, uniqueness and permanence, in `NamesProofs` |
| 11 | `Loading` | | yes | all invariants, in `NamesProofs` |

Left: the proof of the refinement of stage 4; `yield`; two tasks that
share an object; operators for the widths of numbers and map keys.

## The runs

| Run | Module | Shows | Size |
|---|---|---|---|
| `dispatch_all`, `dispatch_stop`, `dispatch_live` | `MCTaskDispatch` | see [task dispatch](#task-dispatch) | |
| `memory` | `MCMemory` | the heap, objects, continuations, a shared array, link buffers | 980,000 states, 3 minutes |
| `language` | `MCLanguage` | symbols, names and contexts, trys, compiled code, array methods, `require` | 2,300,000 states, 3 minutes |
| `dispatch_late`, `dispatch_retire`, `dispatch_poll` | `MCTaskDispatch` | violations, see [task dispatch](#task-dispatch) | |
| `heap_finalizer`, `heap_stale` | `MCCollector` | violations, see [the collector](#the-collector) | |
| `exceptions_return` | `MCExceptions` | violation, see [exceptions](#exceptions) | |
| `continuation_abort` | `MCContinuations` | violation, see [continuations](#continuations) | |

`memory` and `language` hold several modules that share no state. A variable `part`
is chosen in the initial state; only that part takes steps, and the others make the first
of their initial choices and stay there. So the reachable states of the run are
those of each part, side by side and not multiplied, and a property of a part is what
it would be in a run of its own, since it also holds of the initial state in which
the part stays while another runs. Modules with theorems are extended, or instantiated
without a name (`ArrayMethods`), so that the
run checks the very definitions that the theorems state; this is why their `Init`,
`Next` and constants have names of their own (`ArraysInit`, `ContextsNext`,
`TryPrograms`). The others are named instances, and their properties are restated in the
composite module under `part = ...`. Nothing is interleaved between parts, because
nothing in one part reads what another writes; where components do share state
(thread states and the collector's locks, handlers and tasks, the store and the
heap) one module has both sides.

## Task dispatch

`TaskDispatch.tla` models `task-dispatch.c`, and the parts of `gc.c` and `gc.h`
that enter, lock and leave a collection. Each thread has a program counter; an
action is what a thread does between two points where others can see or stop
it. Every lock, semaphore operation and write to `_snow_gc_is_collecting` is a
step of its own, and so is each thread that `with_each_thread_do` meets.

| State | Code |
|---|---|
| `pc` | the position of a thread in one of the functions above |
| `depth`, `hibernated` | the chain `current_task`, `->previous`, ...; the tasks with `stack_bottom` set |
| `job`, `todo`, `block`, `awaiting` | GCD's queue, `dispatch_apply`, the group of a deferred task |
| `gc_barrier` | the value of the semaphore of the thread state |
| `state`, `next`, `prev` | the list of thread states |
| `state_lock`, `gc_lock`, `symbol_table_lock` | their holders |
| `cursor` | the loop variable of `with_each_thread_do` |
| `is_collecting` | `_snow_gc_is_collecting` |

GCD is external and modelled by its documentation as the code uses it: any idle
worker may be given a queued block or an iteration; `dispatch_apply` returns
when all iterations have; an idle worker may be terminated, which runs
`finalize_thread`. The action `Trap` is an `ASSERT` that fails: the process stops.
Asserts are compiled into every build. Only the two that can fail in this
module have that action; that of `pause` and `resume` is the property
`HibernationMatchesControl`.

The constant `Feature` says what the program and GCD do in an instance. Two
features describe behaviour that the protocol does not withstand, and two
violation runs show it:

* `late` (run `dispatch_late`): `snow_set_gc_barriers` skips a thread without a
  task, and nothing stops that thread from starting one during the collection.
  The same race leaves semaphores off by one.
* `retire` (run `dispatch_retire`): `finalize_thread` makes the successor of the
  thread the head of the list, wherever the thread was, and so drops the
  threads before it.

| Run | Instance | Shows |
|---|---|---|
| `dispatch_all` | 3 threads, 2 blocks, 2 tasks deep, all features, pending signals at most 2 | what holds whatever GCD does: `HibernationMatchesControl`, `CollectionsDoNotOverlap`, `ListIsDoublyLinked` |
| `dispatch_stop` | 3 threads, 1 block, 3 tasks deep, loops of up to 2 iterations, without `late`, `retire` | `WorldIsStopped`, `SignalsBalance`, `EveryThreadIsListed`, `LeaveWaitsForCollection`, and that the protocol implements `StopTheWorld` |
| `dispatch_live` | 2 threads, 2 blocks, tasks that allocate or end, workers that exit | `GCReturns` under fairness |
| `dispatch_late`, `dispatch_retire` | smallest instance with the event | asserts of the code that fail |
| `dispatch_poll` | 2 threads, one busy loop | what `gc.h:73-77` says of `snow_gc_barrier` and it does not do |

*Bounds.* Three threads are a collector, a thread in its barrier and a third that
comes and goes: every clause of the properties relates at most two threads to
the collector. Depth 3 has a parent of a parent, depth 2 is where
`dispatch_apply` turns to inline iterations. `MaxSignal` only limits how far a
semaphore that is already off by one may drift. Workers are symmetric.

*Fairness* (`FairSpec`). Threads execute the code of the protocol (weak fairness:
the operating system runs them). Locks and semaphores are obtained in the end
(strong fairness: pthread mutexes and GCD semaphores wake a waiter). GCD
terminates a worker that stays idle, and a block that was given to a thread starts. Every task calls `snow_gc`
in the end or ends, an assumption about programs: a task that computes without
allocating holds up the collector for ever. GCD's choice when to hand out a block is not
fair. `GCReturns` does not hold with the features `await`, `parallel`, `drop` and
`symbol`: a task that waits, for a deferred task, for `dispatch_apply` or for
`symbol_table_lock`, is not in a barrier, so that it and the collector can wait
for each other. Those deadlocks are among the hazards. `dispatch_poll` uses
`BusyLoopSpec`, where tasks poll for ever instead.

`CHECK_DEADLOCK FALSE`: a state where every task has ended, or where a task of
the program waits for another, is not an error of the runtime, and a failed
assertion stops the process.

## The collector

`Collector.tla` models `gc.c` and `gcheap.h` at the level of objects and heaps.
A heap is a chunk with `Size` slots, an address is a chunk and an index. Words of the
stack are roots that cannot be updated: the object that such a word seems to
refer to is *indefinite*. The phases of `gc_minor` and `gc_major` are actions in
their order, and each object that a sweep meets is one; the order of chunks in a
sweep is arbitrary, that of objects in a chunk is the code's.

| State | Code |
|---|---|
| `nursery`, `nodes` | the nursery of each thread, the list of `SnGCNursery` |
| `space` | the list each chunk is on; `graveyard` and `released` are chunks about to be, and given back |
| `count`, `num_indefinite` | `num_objects` and `num_indefinite` of each heap, the latter modulo `Wrap` and with the value that malloc left |
| `kind`, `field`, `forward`, `free_func` | headers and contents |
| `marked`, `indefinite`, `transplanted` | flags |
| `stack`, `sp`, `written`, `store` | the words of stacks that are scanned; which of them hold a variable; `*_snow_store_ptr()` |
| `who`, `made`, `registered`, `calls` | ghosts: which allocation an object is, and what happened to it |

`phase`, `collection` and `minors` are the position in `snow_gc` and the counter
that makes a collection a major one after more than `MajorAfter` minor ones (10
in the code, 0 in the runs).

What a program does is a choice of regime, made in `Init`, so that one run covers
several: fields with major collections, fields with free functions, words that
earlier frames left on the stack with major collections, threads that exit, and
big allocations. Two combinations are left out of `memory` because they break what
it checks, each with a run that shows how:

* free functions and major collections (`heap_finalizer`): a transplanted object
  leaves its free function in the heap it left, and a later sweep calls it;
* references and left-over words of the stack (`heap_stale`): a dead object comes
  back with a reference to an object that moved while it was dead.

Its part of `memory` has 2 threads, 4 chunks of 2 objects, 2 objects that the program allocates
(each may have several copies over time), 1 word of stack and the store. Two objects in one
nursery, one pinned and one not, and a reference between
them, are what the phases have to agree on. `heap_stale` needs a third object.
Four chunks suffice for a nursery, an adult heap, and the new heaps of a major
collection; behaviours that would need a fifth end there. The counter is
modulo 4 rather than 2^32, and starts from 0 or 1; started from `Wrap - 1` it
wraps to zero and frees a pinned nursery, which is a hazard of the code
(`gcheap.h:22` leaves it unset).

`MajorReclaims` is exact in a program without stale words: after a major collection
there is nothing but what the program can reach.

`ObjectGraph.tla` is what a program knows: variables, references between reachable
objects, finalized objects. `ImplementsObjectGraph` maps each object to the
allocation it is a copy of.

Simplifications: a chunk given back to malloc is not returned again, so that
headers of its earlier life cannot be mistaken for objects; a word that looks
like an address but is not is covered by the regime with left-over words only;
the address bounds are left out, since nothing orders their unlocked updates;
thread exit happens between collections.

## Exceptions

`Exceptions.tla` models one thread: the trys and parallel loops on its stack
(`frames`), the handler chains of its tasks (`chains`) and the exception being
thrown (`inflight`). Three kinds of try are interpreted, each with the phases its
code has:

* `resume`: `snow_begin_try` returns once per phase into a switch, and
  `snow_end_try` prepares the next phase (`exception.c:76-148`);
* `callback`: `snow_try_catch_ensure` (`exception.c:39-70`);
* `compiled`: what `codegen-x86_64.c:585-717` emits, with conditions on catch
  blocks and the second handler that guards them.

A handler is its frame, its role and its exception. A throw sets the exception of
the handler on top and continues in the frame that pushed it, at the saved
point: one action from there to the next user code or throw. Tasks of a parallel
loop have chains of their own and give their exception to the loop, which
throws it, or all of them as an array (`Many`).

`TryCatchEnsure.tla` is the statement as programmers know it: the innermost open
try gets the exception, ensure blocks run, what a catch block did not take goes
on. `ImplementsTryCatchEnsure` says that the three implementations, in any
nesting, do that and never crash.

Its part of run `language` nests three deep, with two exceptions and loops of up to two
tasks. Three deep is one try within the catch or ensure block of another within
a third or a task. Its programs leave out three things:

* a nested try together with a condition: the end of the inner try clears the
  exception of the current handler (`codegen-x86_64.c:704`), and a condition that
  contains a try and then declines propagates NULL, that is, loses the
  exception;
* a compiled try as the outermost of a task (`task`): it reads `->previous` of a
  chain that is empty (`codegen-x86_64.c:686-690`) and stops the process;
* `return` within try or catch (run `exceptions_return`): the handler stays on
  the chain and refers to a stack frame that is gone.

## Names and contexts

`Contexts.tla` models a program from its compilation to its run. Compilation
walks the text: `cg` is the function whose code is being generated, and
`desc` holds, for each function, what `SnFunctionDescription` and its codegen keep
(names of locals, references to enclosing functions as a level and an index) and
the instructions emitted for the names in its text. When the outermost function
ends, the program runs: closures are created, contexts set up for calls and
for the parts of parallel expressions, and any context may execute any
instruction of its function at any time, because conditions, loops and closures
that outlive their caller are left open. A context keeps the data of its
arguments, which a parallel part shares.

| State | Code |
|---|---|
| `cg`, `desc` | `SnCodegen`, `SnFunctionDescription`, `variable_reference_names` |
| `closures` | `SnFunction`: description, `declaration_context`, `variable_references` |
| `contexts` | `SnContext`: function, locals, self, args; the first is the global context |
| `global_names` | `local_names` of the global context; elsewhere it is `defined_locals` |
| `result` | RAX; `Trap` is an assertion or access that stops the process |

`LexicalScope.tla` says the same without indices, levels and arrays: variables have
names, scopes are linked to the scope their closure was created in, and each
parameter takes the argument of its name, else the next unnamed one.
`ImplementsLexicalScope` is the refinement. What the code leaves undefined is
explicit there: a variable of the running function that is not yet assigned
reads as anything (compiled code has `array_get` inlined without its check,
`codegen-x86_64.c:99`), one of an enclosing function stops the process
(`function.c:110`), and so does a call without any argument list of a function
with parameters (`function.c:146`). An assignment may also turn other unassigned
variables into nil, as arrays do when they grow.

Run `language` checks `ContextsTypeOK`, `ReferencesNameTheirVariable` (the level and index
that were compiled lead to the variable of that name in every run) and
`ImplementsLexicalScope`. Its instance is a set of programs, `ContextPrograms`, one of
which is chosen at the start:

* three functions, with parameters `y, x` or none, called with unnamed arguments,
  with a named one, or with no list; two places that mention a name, one that writes
  and one that reads;
* three functions called with an object as self that has a member of the name of a
  global;
* four functions, each with a parameter `x` or none, and one place that mentions
  a name: references across two levels, and variables that hide others.

*Bounds.* The fields of a program count the text outside of functions and the
global context too, so that four is a function in a function in a function, with
an activation of each; with three, a function is called twice with different arguments, or
once and a closure in it once. An `occurrence` is an instruction that reads or writes a name.
Functions that mention no name and enclose no function are left out (`NotEmpty`): they have
no instructions that concern a variable. Assignments store
one value (`Assigned`), which is also an argument.

`TopLevelIt` is FALSE: outside of functions, `it` compiles to index 0 of the locals
(`codegen-x86_64.c:304`), but the program runs in the global context, where
index 0 is the first global class. With `TopLevelIt = TRUE` the refinement fails for this reason.

Simplifications: `snow_set_object_assigned`, which names an object after the first
variable it is assigned to, is left out; callable objects (`__call__`) end in the
same call with another self; instructions are atomic; the race of
parallel parts that store to one array is that of module `Arrays`.
`CHECK_DEADLOCK FALSE`, here and in both composite runs: programs end, and bounds are
reached.

## Objects and classes

`Objects.tla` models `object.c`, `class.c` and the member access of `snow.c`. An object has
what `SnObject` has: members (a map), `property_names` and `property_data` (getter and
setter of the property with index i at 2i and 2i + 1), `included_modules`, a
prototype, and the flag that says it has a name; a class has the prototype of
its instances besides. An operation of the program is one step; `program` chooses
which operations and names a behaviour uses.

`ObjectModel.tla` says what objects mean without arrays and indices: each object has a
getter, a setter and a member for each name. A lookup asks the object, then its modules
depth first, then its prototype; an assignment asks the setters of the object and its explicit
prototypes, and otherwise sets a member. `ImplementsObjectModel` says that each operation
of the code is the operation of the model on the same object, with the same name and value:
the request is an argument of the model's actions. It compares the answers, and
which functions were called for them, in which order: a getter
that returns NULL is called and the search goes on (`object.c:53`, `65`, `74`).
`IncludesAreAcyclic` is what makes every lookup end. `InstancesAreOfTheirClasses` is `is_a?`.

The part of `memory` has seven programs: an object and its prototype, which it may
include as well, with getters, setters and members (4 steps); the same with `member_missing`; with a
module; include and
uninclude of three objects in any order (6 steps, enough for a cycle through a third
object after an uninclude); classes, derived classes and instances; names.
A getter, setter or `initialize` is a function that is called and returns a value or
NULL; that it changes objects meanwhile is another step of the program.

## Compiled code

`CompiledCode.tla` is the code generator as operators: `Compile` takes what was
generated so far and a node, and returns it with the node's instructions added.
An instruction is what one or several `ASM` lines do (move an immediate or
register, save or load a temporary, test for truth, compare, jump, call), at the
granularity that registers and temporaries need. Temporaries come from
`codegen_reserve_tmp` with its free list; a label is a number until it is bound,
and `Link` replaces it by the distance to jump. The actions are a machine that runs the
result: registers other than RAX and RBX are lost in each call, RBX where
compiled code may run (it uses it without saving it); each call into the runtime
is an event, and answers any of `Words`.

`CompiledText.tla` walks the tree instead, given the same answers.
`CompiledCodeMeansItsText` says that at every point the calls made so far are the first that the
walk makes, with the same operands, and that at the end the result is the same.
The part of `language` compiles every form of expression with every other form
in place of each of its operands, and runs each with up to six calls, each
answered by a false word or one of two true ones. An `xor` is what the code makes of it:
it compares what the truth test leaves of the two words, where the comment says that it
compares truthiness (`codegen-x86_64.c:786`), so that it is the left one of two true words
that differ in more than the two bits that the test masks (`SameTruth`).

Excluded: `xor` together with other temporaries, which the compiler refuses
with an assertion; an `if` without else and with an empty body, whose value is the
masked truth word and nothing that a program can have meant. Not in this
module: try (see [exceptions](#exceptions)), where variables live (see
[names](#names-and-contexts)), `break` and `continue` (traps in the code), the
bytes of instructions.

## Continuations

`Continuations.tla` models the continuations of one task: `running`, `return_to`, `please_clean` and the
stack of each, the registers that a call saved (`saved`: on which stack, and in the call of
which continuation), the free list of `fixed-alloc.c`, and the chain of exception
handlers as the stacks that hold them. `at` is the stack that executes, which a
throw changes without changing the task's current continuation (`exception.c:14-23`). The
ghost `live` is the nesting of calls that a reader of the program would expect.

`StacksHaveOneOwner` and `ReturnsReachTheirCaller` hold in the programs of `memory`: calls
and collections; calls, trys and throws; trys, throws and aborts. The second
needed an argument in the code that no comment gives: after a throw has left continuation
c for the stack of b, a call from b saves b's registers *in c*, the current one,
and returns through c, which is consistent as long as nobody resumes b by name. Up to five
continuations and three open trys: a throw over two levels and two calls after it.

An abort does resume by name, and run `continuation_abort` shows what happens:
the registers in the base continuation are those of the last call from it, not
those `perform_task` saved to end the task.

Left out, because the code stops or is undefined there: `yield` (a continuation
that yielded and is called again meets the TRAP at `continuation.c:89`); throws together with
collections (a continuation that a throw left is still `running`, and its
collection fails the assertion at `continuation.c:41`); several tasks at the free list, whose
lock is commented out. In the repository only native code uses continuations.

## Arrays

`Arrays.tla` takes `array_set`, `array_grow` and `array_get` apart into the reads and writes of
the members `size`, `alloc_size` and `data`, for threads that share an array without a lock. Two
programs: `store`, where one thread adds to the store while others read what was
added before, and `map`, the tasks of `map_parallel`. `InBounds` holds in both: an
access never leaves the blob that the thread has in hand, because data is
replaced before size grows. `StoreGetsWhatWasAdded` holds for one thread that
adds, which is what the compiler is while compiled code runs elsewhere; with two, keys
collide. In `map`, results can be lost (a task fills with nil up to its own
index what another has written meanwhile, or sets a smaller size), which no doc or test excludes.
Three threads, up to four elements from room for one: two growths, and one thread
in each of copy, publish and read. The machine is sequentially consistent, as x86-64 is but for
store buffers.

`ArrayMethods.tla` models the methods that call a closure per element (`each`,
`map`, `select`, `reject`, `inject`, `detect`) with closures that push, pop and set elements
of the array being walked, at most twice, on arrays of up to three elements with
and without spare room. `ClosuresGetElements`: never a word that nobody wrote.
`ResultsFollowTheAnswers`: what the methods mean when the closures leave the array alone.

## Link buffers

`LinkBuffer.tla` has every operation of `linkbuffer.c`; `ByteSequence.tla` is one sequence of
bytes, whose actions take what each operation is asked to do. `ImplementsByteSequence` says
that, with the pages concatenated, each operation of the code is the one of the sequence
with the same data, length and offset: a patch goes to the offset of its placeholder
and nowhere else. Pages hold 4 bytes, patches 3, buffers up to 8: placeholders lie anywhere on one
page, or on two with one or two bytes on the first, with and without room
behind them, and data starts, ends or crosses a boundary in each way.

Of a patch that lies on two pages, `snow_linkbuffer_modify` copies up to `len` bytes to
the second rather than what is left (`linkbuffer.c:100`), so that bytes of the next
instruction are overwritten with what lies behind the patch in memory. `Beyond` says how
many: as many as went to the first page, as far as there are bytes. `asm_link`
(`asm-x86_64.h:249`) does not avoid it, and the code in memory is wrong then;
the property says that nothing else is.

## Symbols

`Symbols.tla` interleaves `snow_symbol` and `snow_symbol_to_string` of several threads: the check of
`symbol_table_lock_init`, the initialization of the mutex, each comparison of the
scan, the allocation and the push. `SymbolsAreUnique`: no name twice, which equality of symbols
relies on everywhere. `SymbolsKeepTheirNames`: a symbol that was given out is that
of its name for every thread that asks. `Initialized` says that symbols were
interned before threads start, as `snow_init` does. With FALSE the first is violated: a
thread initializes the mutex again while another holds it. Three threads and
three names: two that want the same name and one that wants another.

## Requiring files

`Loading.tla` models `snow_require` and `snow_load`: the directories in which a name is
looked for, in their order (the working directory, then the load paths), the candidates
in each (the name as it is, with `.sn`, `.so`, `.dylib`), the map of loaded files, and the files whose evaluation is under way. Those require others, within a
try or not, throw, and add load paths. `FilesLoadOnce` and `NamesMeanOneFile` hold for one
task, in circles too, because the map is marked before the file is loaded. File systems of two to
four files with names that hide each other; five requires, three deep.

## What is proved

`TaskDispatchProofs.tla` proves, for any set of threads, blocks and bounds:

| Theorem | For | Says |
|---|---|---|
| `TypeCorrect` | every `Feature` | types |
| `NoOverlap` | every `Feature` | `CollectionsDoNotOverlap` |
| `PauseResumeSound` | every `Feature` | `HibernationMatchesControl` |
| `LinksMatch` | every `Feature` | `ListIsDoublyLinked` |
| `StopsTheWorld` | `Punctual` | `WorldIsStopped` |
| `BarriersBalance` | `Punctual` | `SignalsBalance` |
| `ListIsComplete` | `Punctual` | `EveryThreadIsListed` |
| `LeaveWaits` | `Punctual` | `LeaveWaitsForCollection` |
| `Refinement` | `Punctual` | `ImplementsStopTheWorld` |

`Punctual` is an explicit hypothesis of the last five theorems: neither `late` nor
`retire` is in `Feature`. Without it they are false, as the violation runs show.

The argument goes in layers, each an inductive invariant relative to the one
before it.

1. `LockInv`: types, and who is where holds which lock. This gives mutual
   exclusion of the walk over the threads.
2. `StackInv`: a thread hibernates exactly the parents of its current task, and
   the task itself while it is at certain points.
3. `LinkInv`: `next` and `prev` of two neighbours agree, whoever was linked or
   unlinked. This needs no hypothesis: `finalize_thread` may drop threads from the
   list, but what is left of it stays well linked.
4. `ListInv`: the list reaches every thread state, each once, which is stated
   without recursion: `t` is reachable from `h` when every set that holds `h` and
   is closed under `next` holds `t`. `ListPrepend` shows that `init_thread` keeps
   it, also while a collector is in the middle of its walk.
5. `BarrierInv`, which is what makes stopping the world inductive: behind the
   cursor of the scan every thread is *quiet*, that is, it has no task, or is in a
   barrier and its signal was taken; all are quiet during the collection; and
   those that wait to be released are ahead of the cursor of the release. So a
   quiet thread cannot leave: its semaphore is zero, and only the walk of the
   release adds to it.

The constants need only `TaskDispatchAssumption`, which TLC evaluates in each
run of the module.

`NamesProofs.tla` proves of `Symbols`, for any set of threads and names:

| Theorem | For | Says |
|---|---|---|
| `SymbolTypes` | every `Initialized` | types |
| `UniqueSymbols` | `Initialized` | `SymbolsAreUnique` |
| `LastingSymbols` | `Initialized` | `SymbolsKeepTheirNames` |

Uniqueness is not inductive: that a push adds no name twice needs to know that
the thread has scanned the whole table and that nobody added to it since. The
inductive invariant `TableInv` says so: a thread between `Lock` and `Unlock` holds the
lock; no entry before the index of a thread in the scan is its name; and a thread
about to push has seen the table to its end, that is, its name is not in it. `Initialized` enters
where it must: without it, `InitLock` takes the lock from its holder.

It proves of `Loading`, for any file systems, names and load paths:

| Theorem | Says |
|---|---|
| `EachFileIsLoadedOnce` | `FilesLoadOnce` |
| `EachNameMeansOneFile` | `NamesMeanOneFile` |

`MainIsNoFile` says that `main.c`, which requires the first file, cannot be required itself.
`MeantInv` strengthens the second: what a name was found to mean is what it would be found to mean *now*,
which is kept since load paths are only added behind the others (`FoundStays`).
An exception keeps a part of the frames in their order, of files that are all in
the map.

`CollectorProofs.tla` proves, for any number of threads, chunks, objects, references
per object and words of stack:

| Theorem | For | Says |
|---|---|---|
| `Types` | `CountersFit` | `TypeOK` |
| `NothingReachableIsLost` | `CountersFit` | `ReachableIsIntact` |
| `PinsHold` | `CountersFit` | `PinnedStaysPut` |
| `FreeFuncIsKept` | `CountersFit` | `FreeFuncIsNotLost` |
| `NoStaleReference` | and `StaleWordsAreAtomic` | `NoStaleRoot` |
| `FreeFuncIsCalledOnce` | and `FreeFuncsEndEarly` | `FreeFuncRunsOnce` |
| `MajorLeavesNoGarbage` | `CountersFit` | `MajorReclaims` |
| `CollectorIsInvisible` | and `FreeFuncsEndEarly` | `ImplementsObjectGraph` |

Each hypothesis is a restriction of the code, and the runs meet all of them.
`CountersFit` says that a counter of indefinite objects does not wrap around from
what malloc left in it; with 2^32 values and a count that malloc may have left near
the end, it can (`gcheap.h:22`). `StaleWordsAreAtomic` and `FreeFuncsEndEarly` leave out the two
combinations of features that the runs `heap_stale` and `heap_finalizer` show to
break the properties.

None of the properties is inductive: that an object survives depends on what
every phase before has done. The invariant has three layers.

1. `HeapInv`: types; which lists have heaps in which phase; pointers lead to what
   was handed out.
2. `CollectionInv`: what is pinned is marked, counted in its heap, and stays; what was
   transplanted is marked and not pinned, and its `forward` leads to a new copy of the same
   allocation in a heap that the sweep does not visit again; what the sweep has
   passed and left is pinned; of each allocation there is one copy, but for those left behind.
3. `GraphInv`: some set of intact objects holds the roots and is closed under references.
   While objects have moved and references have not, it is closed under references
   of where they moved. That there is *some* such set is enough: the least one,
   which is what is reachable, lies within it (`ClosureIsLeast`). So the proof follows one
   set through mark, sweep, update and clear, and needs no induction along paths.

On them rest `PreciseInv` (without stale words, marking finds exactly what the program
reaches), `LostInv` (a free function not yet called is with the current copy of its
object) and `OnceInv` (what was finalized has no copy).

That a major collection leaves no garbage needs the converse of `GraphInv`: not *some*
closed set that holds the roots, but the least one. `ReclaimInv` says so at each
phase. What was marked is the least set that has the roots and whatever a member refers
to (`MarkedIsLeast`); after the update that is still so of where its members are now
(`KeptInv`); the heaps that the adults survive in have only what moved there
(`Survivors`); and a heap that stays because of its counter has a pinned object
(`PinnedHeaps`).

The refinement uses the same least set, of the objects where they were when they
were marked (`Old`): the allocations that the abstract graph reaches are those of its members. A step
of the program changes both alike, with what became unreachable dropped at
once; a step of a collection changes neither, since moving an object and rewriting the
reference to it leave the allocation that is referred to; and a free function is called
on an allocation that the graph cannot reach, once.

`ContextsProofs.tla` proves, for any program text, names, arguments and bounds, under
`ContextsAssumption` alone:

| Theorem | Says |
|---|---|
| `IndicesAreInBounds` | `ContextsTypeOK` |
| `ReferencesAreRight` | `ReferencesNameTheirVariable` |

Two layers. `TextInv`: while the text is compiled, each instruction has the index of
its name, and each reference of a function counts levels out to a codegen that has the
name at that index; descriptions only grow at their ends, which keeps every
index good. `RunInv`: a closure was created in a context whose function is the
parent of its description, so that the chain of contexts runs along the chain of codegens, and a level
leads in both to the same function. That `snow_function_description_define_local` adds a name once, and at the end,
is where the two meet: contexts may be shorter than the list of names, never longer.
Levels, locals and arguments are recursive functions over numbers. The
library's induction theorems take an operator as a parameter and cannot be
used; instead `UpTo` and `Folded` of `SequenceLemmas` say of a *set* of numbers that it has all up to n when
it has 0 and each successor, from the well-foundedness of `<` (`NatIsWellFounded`).

`PagesProofs.tla` proves, of `Continuations`, for any number of continuations, stacks and trys:

| Theorem | For | Says |
|---|---|---|
| `EachStackHasOneOwner` | any programs | `StacksHaveOneOwner` |
| `EachReturnReachesItsCaller` | `ProgramsBehave` | `ReturnsReachTheirCaller` |

`NamesAreNoNumbers` only says that the names of the model differ. `ProgramsBehave` excludes
throws with collections, which end in the assertion of `continuation.c:41`, and
calls with aborts: run `continuation_abort` shows what comes of them. Without it the second
theorem is false. The invariant is the argument that no comment gives: the functions
that are live, callers first, each wait for their callee in the continuation it returns to, and none
of them waits in the current one, where the next call saves its registers
(`WaitInv`). A throw unwinds `live` to a prefix and leaves `current` where it was, and a
prefix of functions that wait for each other still does.

`ContainersProofs.tla` proves, of `Arrays` and `ArrayMethods`, for any number of threads and
elements, any arrays, closures and changes that closures make:

| Theorem | For | Says |
|---|---|---|
| `ArraysStayInBounds` | `ArraysAreUsed` | `InBounds` |
| `StoreKeepsItsPromise` | `ArraysAreUsed` | `StoreGetsWhatWasAdded` |
| `ClosuresAreGivenElements` | `ArraysAreWalked` | `ClosuresGetElements` |
| `MethodsMeanWhatTheySay` | `ArraysAreWalked` | `ResultsFollowTheAnswers` |

`ArraysAreUsed` says that the bounds are numbers and the two programs are those of the code. `SizesFit`
(size, capacity and length of the blob, in this order) holds at every step because
of the order in which `array_grow` publishes. `StoreInv` says of the thread that adds, at each
of its steps, what it has copied and published so far, and of each reader that the word it
is after is in the blob that it has in hand, be it the old or the new one.

`ArraysAreWalked` says that NULL and an unwritten word are no elements, and that
arrays start with elements. `WalkInv`: the words that a method may still ask for were
written, those below the size, and for `inject`, which reads the size once, all below
what it was, although a closure has popped since (`GrowWrites` for those that push).
`AnswersInv`: as long as the array is left alone, what the method has so far is what it means for the
elements it has asked about.

`ExceptionsProofs.tla` proves, for any depth of nesting and number of tasks:

| Theorem | For | Says |
|---|---|---|
| `ExceptionsKeepTheirTypes` | `NoReturns` | `ExceptionsTypeOK` |
| `HandlersMatch` | `NoReturns` | `HandlersMatchFrames` |
| `FirstHandlerIsRestored` | `NoReturns` | `StartingHandlerIsRestored` |
| `EachThrowUnwinds` | `NoReturns` | `ThrowsUnwind` |
| `TrysKeepTheirPromise` | `Promising` | `ImplementsTryCatchEnsure` |

`ExceptionsAssumption` gives the bounds their types and keeps NULL apart from the
exceptions. `NoReturns` excludes the feature that run `exceptions_return` shows to break all of
this; the other features, `nested` with `condition` and `task` among them, are allowed, so the
handlers match in programs that the run `language` leaves out. `HandlersMatchFrames`
alone is not inductive: it speaks of all chains one after the other, while a throw
restores a handler deep within the last one, and has to find there what the frame of
that handler left. `TryInv` remembers it: there is a tale `g` with `g[k]` the chains that the first k
frames ask for, each frame adding to the last chain what its phase owns, or a chain for a task.
A throw to frame k passes frames that own nothing (`Above`), so the chains it finds
are `g[k]`, and the step cuts them back to `g[k - 1]` and what the new phase owns
(`Grown`), or to `g[k - 1]` alone (`Shrunk`). Last, `OneTale` shows, by induction over the
frames, that a tale is what `HandlersMatchFrames` says with `FlattenSeq`.

`Promising` is what the run `language` is restricted to, with more in each program: no
`task`, no `return`, and not both `nested` and `condition`. The refinement needs two more
things remembered (`Recorded`). Each compiled try has a handler below its own in
the chain, which its end may write to, and which is not the one that guards the
catch block of a frame whose condition is being evaluated; and that guard still
has the exception that was caught, because that is what a declined condition throws on. Nothing but
the end of a compiled try clears an exception, so the second follows from the
first. With it each action is accounted for (`Accounted`): a throw lands at, abandons or fails the try that
the abstract one does, the end of a block leaves, declines, finishes or returns, and the rest
starts trys, throws and tasks, or changes nothing that a program sees.

`ContainersProofs.tla` proves, of `Objects`, for any programs, names, values and functions:

| Theorem | For | Says |
|---|---|---|
| `IncludesStayAcyclic` | no hypothesis | `IncludesAreAcyclic` |
| `InstancesStayOfTheirClasses` | no hypothesis | `InstancesAreOfTheirClasses` |
| `ObjectsKeepTheirPromise` | no hypothesis | `ImplementsObjectModel` |

`ObjectsAssumption`: `ProgramsAreOrdered` says that NULL is no object, and that the prototype of an object that
a program starts with is older than the object, as `snow_create_object` demands; `NamesDiffer`,
that NULL, `nil` and functions are different things. The
lookups of the code are recursive functions, of which TLA+ only knows that they solve
their equation if there is a solution. That there is one is shown with
the least set closed against the edges that the recursion follows (`Reaches`), which
solves it (`IncludedIs`, `ChainContainsIs`, `SuperclassesAre`). Acyclic is not
inductive by paths, which an include joins; `ModulesInv` says instead that *some* rank falls
along every include. `snow_object_include` refuses a module that reaches the object; so
whatever reaches the object, and not the module, can be raised above the module (`IncludeKeeps`). For
classes, `CreatedInv`: the prototype of the instances of a derived class is that of the
instances of the class above it, whatever is created later; then `is_a?` holds by induction
over the age of classes, which are younger than those they are derived from.
For the refinement, the recursions of the model are shown to end in the same way, by the rank
of modules and the age of prototypes (`PlacesSeen`, `LineageEnds`), and the loops of the code
to find what is the first in the model's list of places (`GetIsSeen`, `MemberIsSeen`, `LookupIs`,
`WriterIs`). `LookupInv` is what the code relies on besides: an entry of
`property_data` for each name of `property_names` (`PropertiesFit`), and that the prototypes of
classes and objects, where every lookup ends, stay what they are.

`PagesProofs.tla` proves, of `LinkBuffer`, for pages, patches and buffers of any size:

| Theorem | For | Says |
|---|---|---|
| `BufferIsOneSequence` | no hypothesis | `ImplementsByteSequence` |

`LinkBufferAssumption` says that a patch is no longer than a page. `BufferInv`: all pages
but the last are full, and a placeholder ends before the buffer does. So an offset has one
page and one place there (`PagesAreLaid`), and a patch lies on that page or on it and
the next (`PatchLies`), with as much on the second as `Beyond` says. The loops of the code
are recursive functions over
pages or bytes, and each is shown to be what it computes: `PushAllIs`, that a push
appends to the concatenation; `BytesOfIs`, that a copy of n bytes has the first n, wherever pages
end; `ModifyIs` and `PatchIs`, that a patch leaves the pages before and after alone, and of its
own changes the bytes it was given and those beyond.

`SequenceLemmas.tla` has what these proofs share: `UpTo` and `Folded`, and facts on
concatenation, prefixes and `FlattenSeq`.

The proofs corrected a definition of the models: `Save` of `Collector` had cases that
overlap, of which TLC takes the first and a proof may take any. `OwnedBy` of `Exceptions` had
the same flaw. Both are nested conditions now.

Only model-checked:

* `GCReturns`, because liveness is out of the prover's reach;
* the refinement `ImplementsLexicalScope`: not attempted. It needs, besides
  `ReferencesAreRight`, that arguments are bound alike;
* `CompiledCodeMeansItsText`: compiler and walk are recursive operators over trees, and
  that one means the other is an induction over data, which the prover cannot take.

## What is not modelled

See the components of `PROJECT.json` for each reason. In short: the encoding of
instructions, parsing and I/O have no state to check; strings and numbers are pure. Within the
modelled parts: `snow_gc_realloc`, chunk bounds and chunk reuse, a reachable
deferred task (`gc_with_object_do` has no case for it
and stops the process at `gc.c:558`), `yield`, races of tasks on one object or at
the free list of stacks, forks, the methods of maps, `join` and `inspect` of arrays, and the
serial build.

## Noticed on the way

Seven violation runs show disagreements of the code with its own comments,
assertions and tests; they are the findings of `PROJECT.json`. These were met
while modelling, and have no run because nothing in the repository says
otherwise or because the models keep to programs without them:

* an `xor` never frees its temporaries: with any other temporary in the function the
  compiler stops at its own assertion (`codegen-x86_64.c:774`, `200`);
* compiled functions use RBX without saving it (`codegen-x86_64.c:244`, `782`);
* `xor` of two true words that differ, such as two integers, is the left one and not
  false: it compares words where the comment says truthiness (`codegen-x86_64.c:786`);
* a patch on two pages of a link buffer overwrites what follows (`linkbuffer.c:100`);
* `snow_array_join` sizes its buffer for the strings and separators alone and writes
  a terminating zero behind them (`array.c:85`, `96`);
* `is_a?(Object)` is false for instances of classes without a superclass: NULL
  as prototype stands for Object in lookup but not in `snow_prototype_chain_contains`
  (`class.c:24`, `snow.c:554`);
* `snow_create_object_with_extra_data` adds the size of the extra data rather than
  that of the object to find it (`object.c:31`);
* map keys that differ by a multiple of 2^32 are equal (`map.c:75`);
* a required file with a syntax error is ignored, and `require` answers true
  (`snow.c:121`, `168`);
* results of `map_parallel` can be lost, and two threads that add to the store
  can get one key (`array.c:263`, `snow.c:610`);
* yielding to a continuation's caller and calling it again meets a TRAP
  (`continuation.c:89`), and one that a throw has left cannot be collected (`:41`).

## Running

    tlc -workers 2 -config dispatch_stop.cfg MCTaskDispatch.tla
    tlc -workers 2 -config memory.cfg MCMemory.tla
    tlc -workers 2 -config language.cfg MCLanguage.tla
    tlapm TaskDispatchProofs.tla
    tlapm CollectorProofs.tla
    tlapm ContextsProofs.tla
    tlapm PagesProofs.tla
    tlapm ContainersProofs.tla
    tlapm SequenceLemmas.tla
    tlapm NamesProofs.tla
    tlapm ExceptionsProofs.tla

A configuration's name is that of the run; its module is in `PROJECT.json`. The
definitions marked *Mutant* in the modules are plausible mistakes in the code;
each property of a passing run is violated by the one that `PROJECT.json` pairs
with it.
