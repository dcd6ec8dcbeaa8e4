---------------------------- MODULE TaskDispatch ----------------------------
(***************************************************************************)
(* The tasks of the GCD build (task-dispatch.c) and the protocol by which  *)
(* snow_gc (gc.c) stops them.  A thread that has run a task owns a thread  *)
(* state: a node of the doubly linked list `state', a stack of tasks (the  *)
(* chain current_task, ->previous, ...) and a semaphore, its gc_barrier.   *)
(* A task is hibernated while its stack_bottom is set: only then may a     *)
(* collector scan its stack.                                               *)
(*                                                                         *)
(* GCD itself (worker threads, queues, dispatch_apply, groups) is external *)
(* and modelled from how the code uses it.                                 *)
(***************************************************************************)
EXTENDS Naturals, FiniteSets

CONSTANTS
  Thread,    \* the OS threads of the process
  Main,      \* the thread that calls snow_init
  Block,     \* the closures handed to snow_deferred_call
  None,      \* the NULL pointer
  MaxTasks,  \* bound: tasks stacked on one thread
  MaxWidth,  \* bound: elements of one snow_parallel_for_each
  MaxSignal, \* bound: a thread with more pending signals starts no late task
  Feature    \* what the program and GCD do in this instance, see Features

(***************************************************************************)
(* "collect"   tasks call snow_gc (directly, or from a full nursery)       *)
(* "poll"      tasks call snow_gc_barrier (every allocation does)          *)
(* "finish"    tasks end                                                   *)
(* "defer"     snow_deferred_call         "await"  snow_deferred_task_wait *)
(* "drop"      deferred tasks become garbage and are finalized             *)
(* "parallel"  snow_parallel_for_each                                      *)
(* "symbol"    snow_symbol: allocates under symbol_table_lock              *)
(* "late"      GCD starts a block on a thread that a collector has passed  *)
(* "retire"    GCD terminates idle worker threads                          *)
(***************************************************************************)
Features == {"collect", "poll", "finish", "defer", "await", "drop",
             "parallel", "symbol", "late", "retire"}

ASSUME TaskDispatchAssumption ==
  /\ Main \in Thread
  /\ None \notin Thread \cup Block
  /\ Thread \cap Block = {}
  /\ MaxTasks \in Nat \ {0}
  /\ MaxWidth \in Nat
  /\ MaxSignal \in Nat
  /\ Feature \subseteq Features

VARIABLES
  pc,                \* where each thread is
  depth,             \* number of tasks on the chain; 0: current_task = NULL
  hibernated,        \* the levels of the chain whose stack_bottom is set
  job,               \* the deferred block, or the dispatch_apply caller, served
  todo,              \* iterations of a thread's dispatch_apply nobody took yet
  awaiting,          \* the deferred block a thread waits for
  block,             \* the life of each deferred block
  gc_barrier,        \* value of each thread state's semaphore
  state, next, prev, \* the list of thread states
  state_lock, gc_lock, symbol_table_lock, \* the holder of each lock
  cursor,            \* the loop variable of with_each_thread_do
  is_collecting      \* _snow_gc_is_collecting

listVars == <<state, next, prev>>
gcdVars  == <<job, todo, awaiting, block>>
lockVars == <<state_lock, gc_lock, symbol_table_lock>>
vars == <<pc, depth, hibernated, gcdVars, gc_barrier, listVars, lockVars,
          cursor, is_collecting>>

\* Between snow_gc_barrier_enter and snow_gc_barrier_leave.
InBarrier == {"submit", "gc_wait", "barrier_leave"}
\* From set_gc_barriers' last wait to the resume at the end of snow_gc.
Collecting == {"collect", "finalize"}
Releasing  == {"unlock", "unset"}
Hibernating == InBarrier \cup Collecting \cup Releasing \cup {"resume"}
\* A thread in one of these has a current_task that is not hibernated.
Running == {"run", "barrier_enter", "set_barriers", "scan", "scan_wait",
            "apply", "await", "symbol"}
\* A thread in one of these has no current_task.
Taskless == {"unborn", "init", "idle", "starting", "retiring"}
\* A thread in one of these has no thread state.
Stateless == {"unborn", "init"}
PC == Hibernating \cup Running \cup Taskless \cup {"trapped"}

TypeOK ==
  /\ pc \in [Thread -> PC]
  /\ depth \in [Thread -> Nat]
  /\ hibernated \in [Thread -> SUBSET Nat]
  /\ job \in [Thread -> Block \cup Thread \cup {None}]
  /\ todo \in [Thread -> Nat]
  /\ awaiting \in [Thread -> Block \cup {None}]
  /\ block \in [Block -> {"free", "queued", "running", "done"}]
  /\ gc_barrier \in [Thread -> Nat]
  /\ state \in Thread \cup {None}
  /\ next \in [Thread -> Thread \cup {None}]
  /\ prev \in [Thread -> Thread \cup {None}]
  /\ state_lock \in Thread \cup {None}
  /\ gc_lock \in Thread \cup {None}
  /\ symbol_table_lock \in Thread \cup {None}
  /\ cursor \in Thread \cup {None}
  /\ is_collecting \in BOOLEAN

(***************************************************************************)
(* snow_init_parallel: the main thread owns the only thread state and runs *)
(* main_task.                                                              *)
(***************************************************************************)
Init ==
  /\ pc = [t \in Thread |-> IF t = Main THEN "run" ELSE "unborn"]
  /\ depth = [t \in Thread |-> IF t = Main THEN 1 ELSE 0]
  /\ hibernated = [t \in Thread |-> {}]
  /\ job = [t \in Thread |-> None]
  /\ todo = [t \in Thread |-> 0]
  /\ awaiting = [t \in Thread |-> None]
  /\ block = [b \in Block |-> "free"]
  /\ gc_barrier = [t \in Thread |-> 0]
  /\ state = Main
  /\ next = [t \in Thread |-> None]
  /\ prev = [t \in Thread |-> None]
  /\ state_lock = None
  /\ gc_lock = None
  /\ symbol_table_lock = None
  /\ cursor = None
  /\ is_collecting = FALSE

Goto(t, l) == pc' = [pc EXCEPT ![t] = l]

\* snow_task_pause, snow_task_resume on the thread's current task.
Pause(t)  == hibernated' = [hibernated EXCEPT ![t] = @ \cup {depth[t]}]
Resume(t) == hibernated' = [hibernated EXCEPT ![t] = @ \ {depth[t]}]

\* dispatch_semaphore_signal, and the decrement of a wait that succeeds.
Signal(t)  == gc_barrier' = [gc_barrier EXCEPT ![t] = @ + 1]
Consume(t) == gc_barrier[t] > 0 /\ gc_barrier' = [gc_barrier EXCEPT ![t] = @ - 1]

\* snow_gc_barrier_enter.
BarrierEnter(t) == Pause(t) /\ Signal(t)

\* with_each_thread_do, started at h, meets s.
Closed(nxt, S) == \A u \in S : nxt[u] # None => nxt[u] \in S
ReachesBy(nxt, h, s) ==
  h # None /\ \A S \in SUBSET Thread : h \in S /\ Closed(nxt, S) => s \in S
Reaches(h, s) == ReachesBy(next, h, s)
Listed == {t \in Thread : Reaches(state, t)}

\* A collector holds state_lock and its walk of the list has left t behind.
Passed(t) ==
  state_lock # None /\ ~(pc[state_lock] \in {"scan", "scan_wait"} /\ Reaches(cursor, t))

\* A running task may do something new unless it is inside snow_symbol.
AtLiberty(t) == pc[t] = "run" /\ symbol_table_lock # t

-----------------------------------------------------------------------------
(* The safepoints of a task: snow_gc_barrier and snow_gc, 382-390.         *)

\* snow_gc_barrier does nothing unless a collection is under way.
Poll(t) ==
  /\ "poll" \in Feature /\ pc[t] = "run" /\ is_collecting
  /\ BarrierEnter(t)
  /\ Goto(t, "barrier_leave")
  /\ UNCHANGED <<depth, gcdVars, listVars, lockVars, cursor, is_collecting>>

TryLockGC(t) ==
  /\ "collect" \in Feature /\ pc[t] = "run"
  /\ \/ gc_lock = None /\ gc_lock' = t /\ Goto(t, "set_barriers")
     \/ gc_lock # None /\ UNCHANGED gc_lock /\ Goto(t, "barrier_enter")
  /\ UNCHANGED <<depth, hibernated, gcdVars, gc_barrier, listVars, state_lock,
                 symbol_table_lock, cursor, is_collecting>>

EnterGCWait(t) ==
  /\ pc[t] = "barrier_enter"
  /\ BarrierEnter(t)
  /\ Goto(t, "gc_wait")
  /\ UNCHANGED <<depth, gcdVars, listVars, lockVars, cursor, is_collecting>>

\* pthread_mutex_lock followed at once by pthread_mutex_unlock.
AwaitGCLock(t) ==
  /\ pc[t] = "gc_wait" /\ gc_lock = None
  /\ Goto(t, "barrier_leave")
  /\ UNCHANGED <<depth, hibernated, gcdVars, gc_barrier, listVars, lockVars,
                 cursor, is_collecting>>

\* Mutant: leaves without waiting for the collector.
BarrierLeaveAtOnce(t) ==
  /\ pc[t] = "barrier_leave"
  /\ Resume(t)
  /\ Goto(t, "run")
  /\ UNCHANGED <<depth, gcdVars, gc_barrier, listVars, lockVars, cursor, is_collecting>>

BarrierLeave(t) ==
  /\ pc[t] = "barrier_leave"
  /\ Consume(t)
  /\ Resume(t)
  /\ Goto(t, "run")
  /\ UNCHANGED <<depth, gcdVars, listVars, lockVars, cursor, is_collecting>>

-----------------------------------------------------------------------------
(* The collector: snow_gc, 392-422.                                        *)

\* Mutant: walks the list without taking state_lock first.
SetBarriersUnlocked(t) ==
  /\ pc[t] = "set_barriers"
  /\ state_lock' = t
  /\ cursor' = state
  /\ Goto(t, "scan")
  /\ UNCHANGED <<depth, hibernated, gcdVars, gc_barrier, listVars, gc_lock,
                 symbol_table_lock, is_collecting>>

\* Mutant: starts the walk behind the head.
SetBarriersSkipsHead(t) ==
  /\ pc[t] = "set_barriers" /\ state_lock = None
  /\ state_lock' = t
  /\ cursor' = next[state]
  /\ Goto(t, "scan")
  /\ UNCHANGED <<depth, hibernated, gcdVars, gc_barrier, listVars, gc_lock,
                 symbol_table_lock, is_collecting>>

SetBarriers(t) ==
  /\ pc[t] = "set_barriers" /\ state_lock = None
  /\ state_lock' = t
  /\ cursor' = state
  /\ Goto(t, "scan")
  /\ UNCHANGED <<depth, hibernated, gcdVars, gc_barrier, listVars, gc_lock,
                 symbol_table_lock, is_collecting>>

\* The threads whose barrier set and unset act on: `s != me && s->current_task'.
HasTask(s, me) == s # me /\ depth[s] > 0

\* The list walk reads s->current_task without synchronisation, and waits after.
ScanCheck(t) ==
  /\ pc[t] = "scan" /\ cursor # None
  /\ \/ HasTask(cursor, t) /\ Goto(t, "scan_wait") /\ UNCHANGED cursor
     \/ ~HasTask(cursor, t) /\ cursor' = next[cursor] /\ UNCHANGED pc
  /\ UNCHANGED <<depth, hibernated, gcdVars, gc_barrier, listVars, lockVars,
                 is_collecting>>

\* Mutant: the wait for a thread's barrier times out.
ScanWaitTimedOut(t) ==
  /\ pc[t] = "scan_wait"
  /\ cursor' = next[cursor]
  /\ Goto(t, "scan")
  /\ UNCHANGED <<depth, hibernated, gcdVars, gc_barrier, listVars, lockVars,
                 is_collecting>>

ScanWait(t) ==
  /\ pc[t] = "scan_wait"
  /\ Consume(cursor)
  /\ cursor' = next[cursor]
  /\ Goto(t, "scan")
  /\ UNCHANGED <<depth, hibernated, gcdVars, listVars, lockVars, is_collecting>>

BeginCollection(t) ==
  /\ pc[t] = "scan" /\ cursor = None
  /\ Pause(t)
  /\ is_collecting' = TRUE
  /\ Goto(t, "collect")
  /\ UNCHANGED <<depth, gcdVars, gc_barrier, listVars, lockVars, cursor>>

\* A garbage SnDeferredTask is finalized.  The task of its block keeps it alive
\* once it runs ("root for gc"), and so does a thread that waits for it.
CollectDeferred(t, b) ==
  /\ "drop" \in Feature /\ pc[t] = "collect"
  /\ block[b] # "free"
  /\ \A u \in Thread : awaiting[u] # b /\ (job[u] = b => depth[u] = 0)
  /\ awaiting' = [awaiting EXCEPT ![t] = b]
  /\ Goto(t, "finalize")
  /\ UNCHANGED <<depth, hibernated, job, todo, block, gc_barrier, listVars,
                 lockVars, cursor, is_collecting>>

\* deferred_task_finalize: wait for the group, then free it.
FinalizeDeferred(t) ==
  /\ pc[t] = "finalize" /\ block[awaiting[t]] = "done"
  /\ block' = [block EXCEPT ![awaiting[t]] = "free"]
  /\ awaiting' = [awaiting EXCEPT ![t] = None]
  /\ Goto(t, "collect")
  /\ UNCHANGED <<depth, hibernated, job, todo, gc_barrier, listVars, lockVars,
                 cursor, is_collecting>>

EndCollection(t) ==
  /\ pc[t] = "collect"
  /\ is_collecting' = FALSE
  /\ Goto(t, "unlock")
  /\ UNCHANGED <<depth, hibernated, gcdVars, gc_barrier, listVars, lockVars, cursor>>

UnlockGC(t) ==
  /\ pc[t] = "unlock"
  /\ gc_lock' = None
  /\ cursor' = state
  /\ Goto(t, "unset")
  /\ UNCHANGED <<depth, hibernated, gcdVars, gc_barrier, listVars, state_lock,
                 symbol_table_lock, is_collecting>>

\* Mutant: signals every other thread, with a task or not.
UnsetEveryBarrier(t) ==
  /\ pc[t] = "unset" /\ cursor # None
  /\ \/ cursor # t /\ Signal(cursor)
     \/ cursor = t /\ UNCHANGED gc_barrier
  /\ cursor' = next[cursor]
  /\ UNCHANGED <<pc, depth, hibernated, gcdVars, listVars, lockVars, is_collecting>>

UnsetBarrier(t) ==
  /\ pc[t] = "unset" /\ cursor # None
  /\ \/ HasTask(cursor, t) /\ Signal(cursor)
     \/ ~HasTask(cursor, t) /\ UNCHANGED gc_barrier
  /\ cursor' = next[cursor]
  /\ UNCHANGED <<pc, depth, hibernated, gcdVars, listVars, lockVars, is_collecting>>

ReleaseState(t) ==
  /\ pc[t] = "unset" /\ cursor = None
  /\ state_lock' = None
  /\ Goto(t, "resume")
  /\ UNCHANGED <<depth, hibernated, gcdVars, gc_barrier, listVars, gc_lock,
                 symbol_table_lock, cursor, is_collecting>>

ResumeCollector(t) ==
  /\ pc[t] = "resume"
  /\ Resume(t)
  /\ Goto(t, "run")
  /\ UNCHANGED <<depth, gcdVars, gc_barrier, listVars, lockVars, cursor, is_collecting>>

-----------------------------------------------------------------------------
(* Worker threads.                                                         *)

\* GCD gives worker t a queued block, or an iteration of o's dispatch_apply.
Take(t, j) ==
  /\ t # Main /\ pc[t] \in {"unborn", "idle"}
  /\ job' = [job EXCEPT ![t] = j]
  /\ Goto(t, IF pc[t] = "unborn" THEN "init" ELSE "starting")

TakeBlock(t, b) ==
  /\ block[b] = "queued"
  /\ Take(t, b)
  /\ block' = [block EXCEPT ![b] = "running"]
  /\ UNCHANGED <<depth, hibernated, todo, awaiting, gc_barrier, listVars,
                 lockVars, cursor, is_collecting>>

TakeIteration(t, o) ==
  /\ todo[o] > 0
  /\ Take(t, o)
  /\ todo' = [todo EXCEPT ![o] = @ - 1]
  /\ UNCHANGED <<depth, hibernated, awaiting, block, gc_barrier, listVars,
                 lockVars, cursor, is_collecting>>

HeadHasPrevious == state # None /\ prev[state] # None

\* Mutant: forgets to make the new state the head.
InitThreadKeepsHead(t) ==
  /\ pc[t] = "init" /\ state_lock = None
  /\ ~HeadHasPrevious
  /\ next' = [next EXCEPT ![t] = state]
  /\ prev' = [prev EXCEPT ![state] = t]
  /\ gc_barrier' = [gc_barrier EXCEPT ![t] = 0]
  /\ Goto(t, "starting")
  /\ UNCHANGED <<state, depth, hibernated, gcdVars, lockVars, cursor, is_collecting>>

\* init_thread: prepend the thread's new state, under state_lock.
InitThread(t) ==
  /\ pc[t] = "init" /\ state_lock = None
  /\ ~HeadHasPrevious
  /\ next' = [next EXCEPT ![t] = state]
  /\ prev' = [u \in Thread |-> IF u = t THEN None
                               ELSE IF u = state THEN t ELSE prev[u]]
  /\ state' = t
  /\ gc_barrier' = [gc_barrier EXCEPT ![t] = 0]
  /\ Goto(t, "starting")
  /\ UNCHANGED <<depth, hibernated, gcdVars, lockVars, cursor, is_collecting>>

\* perform_task, 89-99, on a thread without a task: publish current_task.
StartTask(t) ==
  /\ pc[t] = "starting"
  /\ Passed(t) => "late" \in Feature /\ gc_barrier[t] <= MaxSignal
  /\ depth' = [depth EXCEPT ![t] = 1]
  /\ hibernated' = [hibernated EXCEPT ![t] = {}]
  /\ Goto(t, "run")
  /\ UNCHANGED <<gcdVars, gc_barrier, listVars, lockVars, cursor, is_collecting>>

\* perform_task, 106: the outermost task of a worker ends, and with it the block.
FinishJob(t) ==
  /\ "finish" \in Feature /\ AtLiberty(t) /\ t # Main /\ depth[t] = 1
  /\ depth' = [depth EXCEPT ![t] = 0]
  /\ job' = [job EXCEPT ![t] = None]
  /\ block' = [b \in Block |-> IF b = job[t] THEN "done" ELSE block[b]]
  /\ Goto(t, "idle")
  /\ UNCHANGED <<hibernated, todo, awaiting, gc_barrier, listVars, lockVars,
                 cursor, is_collecting>>

\* Mutant: the destructor does not signal the barrier first.
RetireSilently(t) ==
  /\ "retire" \in Feature /\ t # Main /\ pc[t] = "idle"
  /\ Goto(t, "retiring")
  /\ UNCHANGED <<depth, hibernated, gcdVars, gc_barrier, listVars, lockVars, cursor,
                 is_collecting>>

\* finalize_thread, 46: the destructor of an idle worker's thread state.
Retire(t) ==
  /\ "retire" \in Feature /\ t # Main /\ pc[t] = "idle"
  /\ Signal(t)
  /\ Goto(t, "retiring")
  /\ UNCHANGED <<depth, hibernated, gcdVars, listVars, lockVars, cursor, is_collecting>>

\* Mutant: the successor keeps its link to the freed state.
UnlinkForwardOnly(t) ==
  /\ pc[t] = "retiring" /\ state_lock = None
  /\ next' = [u \in Thread |-> IF u = prev[t] THEN next[t]
                               ELSE IF u = t THEN None ELSE next[u]]
  /\ state' = next[t]
  /\ gc_barrier' = [gc_barrier EXCEPT ![t] = 0]
  /\ Goto(t, "unborn")
  /\ UNCHANGED <<prev, depth, hibernated, gcdVars, lockVars, cursor, is_collecting>>

\* finalize_thread, 47-53: unlink the state, and make its successor the head.
Unlink(t) ==
  /\ pc[t] = "retiring" /\ state_lock = None
  /\ prev' = [u \in Thread |-> IF u = next[t] THEN prev[t]
                               ELSE IF u = t THEN None ELSE prev[u]]
  /\ next' = [u \in Thread |-> IF u = prev[t] THEN next[t]
                               ELSE IF u = t THEN None ELSE next[u]]
  /\ state' = next[t]
  /\ gc_barrier' = [gc_barrier EXCEPT ![t] = 0]
  /\ Goto(t, "unborn")
  /\ UNCHANGED <<depth, hibernated, gcdVars, lockVars, cursor, is_collecting>>

-----------------------------------------------------------------------------
(* What a task does besides allocating.                                    *)

\* snow_deferred_call: the queue is touched between enter and leave.  Bound: each
\* caller finds a block of Block that is free.
Defer(t) ==
  /\ "defer" \in Feature /\ AtLiberty(t)
  /\ Cardinality({u \in Thread : pc[u] = "submit"}) <
       Cardinality({b \in Block : block[b] = "free"})
  /\ BarrierEnter(t)
  /\ Goto(t, "submit")
  /\ UNCHANGED <<depth, gcdVars, listVars, lockVars, cursor, is_collecting>>

Submit(t, b) ==
  /\ pc[t] = "submit" /\ block[b] = "free"
  /\ block' = [block EXCEPT ![b] = "queued"]
  /\ Goto(t, "barrier_leave")
  /\ UNCHANGED <<depth, hibernated, job, todo, awaiting, gc_barrier, listVars,
                 lockVars, cursor, is_collecting>>

\* snow_deferred_task_wait, of a deferred task that is not being finalized.
Await(t, b) ==
  /\ "await" \in Feature /\ AtLiberty(t)
  /\ block[b] # "free"
  /\ ~\E c \in Thread : pc[c] = "finalize" /\ awaiting[c] = b
  /\ awaiting' = [awaiting EXCEPT ![t] = b]
  /\ Goto(t, "await")
  /\ UNCHANGED <<depth, hibernated, job, todo, block, gc_barrier, listVars,
                 lockVars, cursor, is_collecting>>

EndAwait(t) ==
  /\ pc[t] = "await" /\ block[awaiting[t]] = "done"
  /\ awaiting' = [awaiting EXCEPT ![t] = None]
  /\ Goto(t, "run")
  /\ UNCHANGED <<depth, hibernated, job, todo, block, gc_barrier, listVars,
                 lockVars, cursor, is_collecting>>

\* snow_parallel_for_each from a task without ->previous: dispatch_apply.
Apply(t, n) ==
  /\ "parallel" \in Feature /\ AtLiberty(t) /\ depth[t] = 1
  /\ todo' = [todo EXCEPT ![t] = n]
  /\ Goto(t, "apply")
  /\ UNCHANGED <<depth, hibernated, job, awaiting, block, gc_barrier, listVars,
                 lockVars, cursor, is_collecting>>

\* perform_task, 85-99, under a parent: hibernate the parent, push a live task.
PushTask(t) ==
  /\ depth[t] < MaxTasks
  /\ hibernated' = [hibernated EXCEPT ![t] = (@ \cup {depth[t]}) \ {depth[t] + 1}]
  /\ depth' = [depth EXCEPT ![t] = @ + 1]
  /\ Goto(t, "run")
  /\ UNCHANGED <<job, awaiting, block, gc_barrier, listVars, lockVars, cursor,
                 is_collecting>>

\* Mutant: one element too many.
OwnIterationTooMany(t) ==
  /\ pc[t] = "apply" /\ todo[t] >= 0
  /\ todo' = [todo EXCEPT ![t] = @ - 1]
  /\ PushTask(t)

\* The caller of dispatch_apply works on its own iterations too.
OwnIteration(t) ==
  /\ pc[t] = "apply" /\ todo[t] > 0
  /\ todo' = [todo EXCEPT ![t] = @ - 1]
  /\ PushTask(t)

\* snow_parallel_for_each "already in parallel": each element inline, in turn.
InlineIteration(t) ==
  /\ "parallel" \in Feature /\ AtLiberty(t) /\ depth[t] > 1
  /\ UNCHANGED todo
  /\ PushTask(t)

\* Mutant: the parent is not resumed.
PopTaskOnly(t) ==
  /\ AtLiberty(t) /\ depth[t] > 1
  /\ depth' = [depth EXCEPT ![t] = @ - 1]
  /\ Goto(t, IF depth[t] = 2 THEN "apply" ELSE "run")
  /\ UNCHANGED <<hibernated, gcdVars, gc_barrier, listVars, lockVars, cursor,
                 is_collecting>>

\* perform_task, 106-111, with a parent: pop the task and resume the parent.
PopTask(t) ==
  /\ AtLiberty(t) /\ depth[t] > 1
  /\ hibernated' = [hibernated EXCEPT ![t] = @ \ {depth[t] - 1}]
  /\ depth' = [depth EXCEPT ![t] = @ - 1]
  /\ Goto(t, IF depth[t] = 2 THEN "apply" ELSE "run")
  /\ UNCHANGED <<gcdVars, gc_barrier, listVars, lockVars, cursor, is_collecting>>

\* dispatch_apply returns once every iteration has been executed.
EndApply(t) ==
  /\ pc[t] = "apply" /\ todo[t] = 0
  /\ \A u \in Thread : job[u] # t
  /\ Goto(t, "run")
  /\ UNCHANGED <<depth, hibernated, gcdVars, gc_barrier, listVars, lockVars,
                 cursor, is_collecting>>

\* snow_symbol: allocates (and may collect) between lock and unlock.
Symbol(t) ==
  /\ "symbol" \in Feature /\ AtLiberty(t)
  /\ Goto(t, "symbol")
  /\ UNCHANGED <<depth, hibernated, gcdVars, gc_barrier, listVars, lockVars,
                 cursor, is_collecting>>

LockSymbols(t) ==
  /\ pc[t] = "symbol" /\ symbol_table_lock = None
  /\ symbol_table_lock' = t
  /\ Goto(t, "run")
  /\ UNCHANGED <<depth, hibernated, gcdVars, gc_barrier, listVars, state_lock,
                 gc_lock, cursor, is_collecting>>

UnlockSymbols(t) ==
  /\ pc[t] = "run" /\ symbol_table_lock = t
  /\ symbol_table_lock' = None
  /\ UNCHANGED <<pc, depth, hibernated, gcdVars, gc_barrier, listVars,
                 state_lock, gc_lock, cursor, is_collecting>>

-----------------------------------------------------------------------------
(* ASSERT is compiled into every build and stops the process.              *)

\* A task that the collector's stack scan meets alive (do_task_stack).
MeetsLiveTask == \E u \in Listed : \E l \in 1..depth[u] : l \notin hibernated[u]

Trap(t) ==
  /\ \/ pc[t] = "init" /\ state_lock = None /\ HeadHasPrevious
     \/ pc[t] = "collect" /\ MeetsLiveTask
  /\ pc' = [u \in Thread |-> "trapped"]
  /\ UNCHANGED <<depth, hibernated, gcdVars, gc_barrier, listVars, lockVars,
                 cursor, is_collecting>>

-----------------------------------------------------------------------------
Safepoint(t) == Poll(t) \/ TryLockGC(t)
Barrier(t) == EnterGCWait(t) \/ AwaitGCLock(t) \/ BarrierLeave(t)
Collect(t) ==
  \/ SetBarriers(t) \/ ScanCheck(t) \/ ScanWait(t) \/ BeginCollection(t)
  \/ \E b \in Block : CollectDeferred(t, b)
  \/ FinalizeDeferred(t) \/ EndCollection(t) \/ UnlockGC(t)
  \/ UnsetBarrier(t) \/ ReleaseState(t) \/ ResumeCollector(t)
Worker(t) ==
  \/ \E b \in Block : TakeBlock(t, b)
  \/ \E o \in Thread : TakeIteration(t, o)
  \/ InitThread(t) \/ StartTask(t) \/ FinishJob(t) \/ Retire(t) \/ Unlink(t)
Work(t) ==
  \/ Defer(t) \/ \E b \in Block : Submit(t, b)
  \/ \E b \in Block : Await(t, b)
  \/ EndAwait(t)
  \/ \E n \in 1..MaxWidth : Apply(t, n)
  \/ OwnIteration(t) \/ InlineIteration(t) \/ PopTask(t) \/ EndApply(t)
  \/ Symbol(t) \/ LockSymbols(t) \/ UnlockSymbols(t)

Next ==
  \E t \in Thread :
    Safepoint(t) \/ Barrier(t) \/ Collect(t) \/ Worker(t) \/ Work(t) \/ Trap(t)

Spec == Init /\ [][Next]_vars

(***************************************************************************)
(* Fairness.  A thread that can execute the next instruction of the        *)
(* protocol does so; a lock or semaphore that is released again and again  *)
(* is obtained in the end; a thread that was given a block starts it; GCD  *)
(* terminates a worker that stays idle.  Nothing makes GCD hand out blocks.*)
(***************************************************************************)
ProtocolFairness ==
  \A t \in Thread :
    /\ WF_vars(Collect(t)) /\ SF_vars(SetBarriers(t))
    /\ WF_vars(EnterGCWait(t)) /\ SF_vars(AwaitGCLock(t)) /\ SF_vars(BarrierLeave(t))
    /\ WF_vars(\E b \in Block : Submit(t, b))
    /\ SF_vars(StartTask(t)) /\ WF_vars(Retire(t))

\* Every task allocates until its nursery is full and it calls snow_gc, or ends.
FairSpec ==
  Spec /\ ProtocolFairness /\ \A t \in Thread : WF_vars(TryLockGC(t) \/ FinishJob(t))

\* Every task is a busy loop that calls snow_gc_barrier, as gc.h:73-77 asks it to.
BusyLoopSpec ==
  Spec /\ ProtocolFairness /\ \A t \in Thread : WF_vars(Poll(t))

-----------------------------------------------------------------------------
(* Properties.                                                             *)

\* The ASSERTs of snow_task_pause and snow_task_resume never fail: in every
\* interleaving, the hibernated tasks of a thread are all the parents of its
\* current task, and the current task itself exactly while the thread is inside
\* a barrier or is the collector (task-dispatch.c:170,176).
HibernationMatchesControl ==
  \A t \in Thread : pc[t] # "trapped" /\ depth[t] > 0 =>
    /\ \A l \in 1..depth[t] - 1 : l \in hibernated[t]
    /\ depth[t] \in hibernated[t] <=> pc[t] \in Hibernating

\* Threads that hold gc_lock, and threads that hold state_lock for a collection.
HoldsGCLock == {"set_barriers", "scan", "scan_wait", "unlock"} \cup Collecting
HoldsStateLock == {"scan", "scan_wait", "unset", "unlock"} \cup Collecting

\* Collections never overlap, although gc_lock is released before state_lock: a
\* thread past its trylock may wait while another still unsets the barriers, but
\* ASSERT(!_snow_gc_is_collecting) holds when it gets there (gc.c:395,420-421).
CollectionsDoNotOverlap ==
  \A t \in Thread : pc[t] # "trapped" =>
    /\ pc[t] \in HoldsStateLock <=> state_lock = t
    /\ pc[t] \in HoldsGCLock <=> gc_lock = t
    /\ pc[t] \in Collecting <=> is_collecting /\ state_lock = t

\* The thread states stay a well-formed doubly linked list while threads come and
\* go, even when the head is wrong (task-dispatch.c:31-38, 47-51).
ListIsDoublyLinked ==
  \A t, u \in Thread : next[t] = u <=> prev[u] = t

\* Every thread that has a thread state is found by with_each_thread_do, so that
\* the collector waits for it and scans its stacks (task-dispatch.c:159-163).
EveryThreadIsListed ==
  \A t \in Thread : pc[t] \notin Stateless => t \in Listed

\* While a collection runs no other thread has a live task, whether or not the
\* collector knows that thread (the comment at task-dispatch.c:191-197).
WorldIsStopped ==
  \A c, t \in Thread : pc[c] \in Collecting /\ t # c =>
    depth[t] = 0 \/ depth[t] \in hibernated[t]

\* A pending signal of a gc_barrier belongs to the thread that is inside that
\* barrier, and a thread inside whose signal was consumed waits for a collector
\* that still has to release it: no signal is left over, none is lost.
InsideConsumed(t) == pc[t] \in InBarrier /\ gc_barrier[t] = 0
SignalsBalance ==
  \A t \in Thread :
    /\ gc_barrier[t] <= 1
    /\ gc_barrier[t] = 1 => pc[t] \in InBarrier
    /\ InsideConsumed(t) => \E c \in Thread \ {t} :
         /\ state_lock = c
         /\ pc[c] = "unset" => Reaches(cursor, t)

\* task.h:38-40: snow_gc_barrier_leave does not return while a collection is in
\* progress.
LeaveWaitsForCollection ==
  [][is_collecting => \A t \in Thread : pc[t] = "barrier_leave" => pc'[t] # "run"]_vars

\* The mapping to the abstract promise: the threads with a task that may use the
\* heap, and the thread between the two writes of _snow_gc_is_collecting.
LiveThreads == {t \in Thread : \E l \in 1..depth[t] : l \notin hibernated[t]}
CollectorOf ==
  IF \E t \in Thread : pc[t] \in Collecting
  THEN CHOOSE t \in Thread : pc[t] \in Collecting
  ELSE None

\* The protocol implements StopTheWorld (gc.c:392-422, task-dispatch.c:168-208).
Abstract == INSTANCE StopTheWorld WITH live <- LiveThreads, collector <- CollectorOf
ImplementsStopTheWorld == Abstract!Spec

\* gc.c:451 "a task is alive during GC?!?!": the stack scan meets no live task.
NoTaskAliveDuringGC ==
  \A c \in Thread : pc[c] = "collect" => ~MeetsLiveTask

\* task-dispatch.c:34: a new thread state finds a head without predecessor.
HeadHasNoPrevious ==
  \A t \in Thread : pc[t] = "init" /\ state_lock = None => ~HeadHasPrevious

\* Every call of snow_gc returns, for the collector and for the threads that
\* found a collection under way.
GCReturns ==
  \A t \in Thread : pc[t] \in {"barrier_enter", "set_barriers"} ~> pc[t] = "run"

\* gc.h:73-77: a task that keeps calling snow_gc_barrier gives the collector a
\* chance to stop it, so that a collection that was started happens.
BarriersStopTheTask ==
  \A c \in Thread : pc[c] = "set_barriers" ~> pc[c] = "collect"
=============================================================================
