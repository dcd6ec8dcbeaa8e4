---------------------------- MODULE Continuations ----------------------------
(***************************************************************************)
(* The continuations of one task (continuation.c), the allocator of their  *)
(* stacks (fixed-alloc.c), and what throws and aborts do to them (task.c,  *)
(* exception.c, perform_task).  A function that is called with             *)
(* snow_function_callcc runs on a stack of its own; when its outermost     *)
(* frame returns, the registers that its caller saved are restored.        *)
(***************************************************************************)
EXTENDS Naturals, FiniteSets, SequencesExt

CONSTANTS
  Base, NullPointer,
  MaxContinuations, \* bound: continuations a task creates
  MaxHandlers,      \* bound: tries that are open at a time
  TaskPrograms      \* sets of what the functions of a task may do

VARIABLES
  task_program,
  status,       \* running; ended: perform_task went on; aborted: an assertion or TRAP
  at,           \* the stack that the executing function is on
  current,      \* task->continuation
  exception,    \* whether task->exception is set
  handlers,     \* the chain of exception handlers, as the stacks that hold them
  running, return_to, please_clean, own_stack, \* members of the continuations
  saved,        \* of each, the call that saved its registers: on which stack, of what
  free,         \* the free list of the allocator
  pages,        \* how many stacks it got from malloc
  live          \* ghost: the stacks whose functions have not returned, callers first

continuation_vars ==
  <<task_program, status, at, current, exception, handlers, running, return_to, please_clean,
    own_stack, saved, free, pages, live>>
members == <<running, return_to, please_clean, own_stack, saved>>
allocator == <<free, pages>>

Created == DOMAIN running \ {Base}

\* A member of the continuations, when c is added to them.
With(member, c, value) ==
  [d \in DOMAIN member \cup {c} |-> IF d = c THEN value ELSE member[d]]

\* perform_task: the base continuation is saved where func() is to return to.
ContinuationsInit ==
  /\ task_program \in TaskPrograms
  /\ status = "running"
  /\ at = Base /\ current = Base
  /\ exception = FALSE
  /\ handlers = <<>>
  /\ running = [c \in {Base} |-> TRUE]
  /\ return_to = [c \in {Base} |-> NullPointer] /\ please_clean = [c \in {Base} |-> NullPointer]
  /\ own_stack = [c \in {Base} |-> NullPointer]
  /\ saved = [c \in {Base} |-> [on |-> Base, callee |-> NullPointer]]
  /\ free = <<>> /\ pages = 0
  /\ live = <<Base>>

Does(what) == status = "running" /\ what \in task_program

Abort ==
  /\ status' = "aborted"
  /\ UNCHANGED <<task_program, at, current, exception, handlers, members, allocator, live>>

(***************************************************************************)
(* Stacks                                                                  *)
(***************************************************************************)
\* fixed_alloc: the stack a caller gets.
Allocated == IF free = <<>> THEN pages + 1 ELSE Head(free)

AllocateStack ==
  IF free = <<>> THEN pages' = pages + 1 /\ UNCHANGED free
  ELSE free' = Tail(free) /\ UNCHANGED pages

\* Mutant: the freed stack is still that of the continuation.
CleanupOfStackOnly(c) ==
  /\ UNCHANGED <<own_stack, pages>>
  /\ free' = IF own_stack[c] = NullPointer THEN free ELSE <<own_stack[c]>> \o free

\* snow_continuation_cleanup, fixed_free; c is not running.
Cleanup(c) ==
  /\ own_stack' = [own_stack EXCEPT ![c] = NullPointer]
  /\ free' = IF own_stack[c] = NullPointer THEN free ELSE <<own_stack[c]>> \o free
  /\ UNCHANGED pages

(***************************************************************************)
(* Functions on stacks                                                     *)
(***************************************************************************)
\* Mutant: the task's current continuation is not set.
BecomesCurrentNot(c) == UNCHANGED current

\* snow_set_current_continuation
BecomesCurrent(c) == current' = c

\* snow_function_callcc: a new continuation is created, called with the current
\* one to return to, and resumed: as it is not running, on a new stack.
CallCC ==
  LET c == Cardinality(Created) + 1
  IN /\ Does("call")
     /\ c <= MaxContinuations
     /\ return_to' = With(return_to, c, current)
     /\ saved' = With([saved EXCEPT ![current] = [on |-> at, callee |-> c]],
                      c, [on |-> c, callee |-> NullPointer])
     /\ please_clean' = With(please_clean, c, NullPointer)
     /\ running' = With(running, c, TRUE)
     /\ own_stack' = With(own_stack, c, Allocated)
     /\ AllocateStack
     /\ BecomesCurrent(c)
     /\ at' = c
     /\ live' = Append(live, c)
     /\ UNCHANGED <<task_program, status, exception, handlers>>

\* The rest of snow_continuation_resume, of a continuation that is running: the
\* registers saved in it are restored.
Resume(c) == BecomesCurrent(c) /\ status' = "resuming"

\* The outermost function on a stack returns, through
\* _continuation_return_handler, to snow_continuation_return. It has ended
\* the tries that it began.
Return ==
  LET caller == return_to[at]
  IN /\ status = "running" /\ at # Base /\ at \notin ToSet(handlers)
     /\ IF please_clean[caller] # NullPointer \/ ~running[caller] THEN Abort
        ELSE /\ running' = [running EXCEPT ![at] = FALSE]
             /\ please_clean' = [please_clean EXCEPT ![caller] = at]
             /\ Resume(caller)
             /\ UNCHANGED <<task_program, at, exception, handlers, return_to, own_stack, saved,
                            allocator, live>>

\* Back in perform_task, which goes on.
TaskEnds ==
  /\ status = "resuming" /\ saved[current].callee = NullPointer
  /\ status' = "ended"
  /\ UNCHANGED <<task_program, at, current, exception, handlers, members, allocator, live>>

\* Back in snow_continuation_call, which cleans up what the continuation it
\* returns to was left to clean. If that call is no longer live, there is no
\* telling what runs.
CameBack ==
  LET s == saved[current]
      returned_to == return_to[s.callee]
      place == SelectInSeq(live, LAMBDA l : l = s.on)
  IN /\ status = "resuming" /\ s.callee # NullPointer
     /\ status' = IF place > 0 /\ s.callee \in ToSet(SubSeq(live, place + 1, Len(live)))
                  THEN "running" ELSE "aborted"
     /\ at' = s.on
     /\ live' = SubSeq(live, 1, place)
     /\ please_clean' = [please_clean EXCEPT ![returned_to] = NullPointer]
     /\ IF please_clean[returned_to] = NullPointer THEN UNCHANGED <<own_stack, allocator>>
        ELSE Cleanup(please_clean[returned_to])
     /\ UNCHANGED <<task_program, current, exception, handlers, running, return_to, saved>>

(***************************************************************************)
(* Exceptions                                                              *)
(***************************************************************************)
BeginTry ==
  /\ Does("try") /\ Len(handlers) < MaxHandlers
  /\ handlers' = Append(handlers, at)
  /\ UNCHANGED <<task_program, status, at, current, exception, members, allocator, live>>

EndTry ==
  /\ Does("try") /\ handlers # <<>> /\ Last(handlers) = at
  /\ handlers' = Front(handlers)
  /\ UNCHANGED <<task_program, status, at, current, exception, members, allocator, live>>

\* snow_throw_exception, to a handler: the stack is that of the try, which ends.
\* The current continuation stays what it was.
Throw ==
  /\ Does("throw") /\ handlers # <<>>
  /\ at' = Last(handlers)
  /\ handlers' = Front(handlers)
  /\ live' = SubSeq(live, 1, SelectInSeq(live, LAMBDA l : l = Last(handlers)))
  /\ UNCHANGED <<task_program, status, current, exception, members, allocator>>

\* Without one: snow_abort_current_task.
ThrowUnhandled ==
  /\ Does("abort") /\ handlers = <<>>
  /\ IF exception THEN Abort
     ELSE /\ exception' = TRUE
          /\ Resume(Base)
          /\ UNCHANGED <<task_program, at, handlers, members, allocator, live>>

\* A collection that finds a continuation on which no function is live:
\* continuation_gc_cleanup.
CollectContinuation(c) ==
  /\ Does("collect") /\ c \notin ToSet(live) \cup {current}
  /\ IF running[c] THEN Abort
     ELSE /\ Cleanup(c)
          /\ UNCHANGED <<task_program, status, at, current, exception, handlers, running, return_to,
                         please_clean, saved, live>>

ContinuationsNext ==
  \/ CallCC
  \/ Return
  \/ TaskEnds
  \/ CameBack
  \/ BeginTry
  \/ EndTry
  \/ Throw
  \/ ThrowUnhandled
  \/ \E c \in Created : CollectContinuation(c)

ContinuationsSpec == ContinuationsInit /\ [][ContinuationsNext]_continuation_vars

(***************************************************************************)
(* Properties                                                              *)
(***************************************************************************)
\* A stack belongs to one continuation or is free, and is free once; each
\* function that is live has a stack (continuation.c:38-56, fixed-alloc.c):
\* returns, throws and collections in any order clean up each stack once.
StacksHaveOneOwner ==
  /\ \A c, d \in Created : own_stack[c] # NullPointer /\ own_stack[c] = own_stack[d] => c = d
  /\ \A c \in Created : own_stack[c] \notin ToSet(free)
  /\ IsInjective(free)
  /\ \A i \in 2 .. Len(live) : own_stack[live[i]] # NullPointer

\* However calls, returns and throws went before, the return of each function
\* that is live leads to the call that waits for it, whose continuation is
\* running and has nothing else to clean (continuation.c:108-124): also when
\* the current continuation is one that a throw has left (exception.c:14).
ReturnsReachTheirCaller ==
  /\ status # "aborted"
  /\ status = "running" =>
       /\ at = Last(live)
       /\ \A i \in 2 .. Len(live) :
            LET caller == return_to[live[i]]
            IN /\ saved[caller] = [on |-> live[i - 1], callee |-> live[i]]
               /\ running[caller]
               /\ please_clean[caller] = NullPointer

\* "task should already be aborted at this point" (task.c:40): a task whose
\* exception is set runs no further function.
AbortEndsTheTask == exception => status # "running"
=============================================================================
