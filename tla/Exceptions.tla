----------------------------- MODULE Exceptions -----------------------------
(***************************************************************************)
(* Exceptions within one thread.  There are three ways to write a try:     *)
(*   "resume"    snow_begin_try and snow_end_try (exception.c:76-148), a   *)
(*               switch that is executed again for every phase             *)
(*   "callback"  snow_try_catch_ensure (exception.c:39-70)                 *)
(*   "compiled"  the try statement of the language (codegen-x86_64.c)      *)
(* and parallel loops, whose tasks hand their exception to the caller      *)
(* (task-dispatch.c).  They share the chain of handlers of the task, while *)
(* each keeps its own idea of the phase it is in.                          *)
(*                                                                         *)
(* A throw restores the machine state saved by the top handler; what the   *)
(* runtime does from there until user code runs again, or until it throws  *)
(* again, is one action.  The tasks of a loop run one after the other, as  *)
(* in a loop within a loop (task-dispatch.c:140-146): the exception and    *)
(* the handlers of one are its own, wherever the others run.               *)
(***************************************************************************)
EXTENDS Naturals, SequencesExt

CONSTANTS
  Exception,   \* what programs throw
  Many,        \* the array of the exceptions of several tasks
  NoException, \* NULL
  MaxDepth,    \* bound: nested trys and loops
  MaxTasks,    \* bound: tasks of a loop
  TryPrograms \* what programs do: subsets of Features

(***************************************************************************)
(* "nested"    a compiled try begins while the current handler still has   *)
(*             the exception of an enclosing one                           *)
(* "condition" compiled catch blocks have a condition                      *)
(* "loops"     there are parallel loops                                    *)
(* "task"      a compiled try is the outermost one of a task               *)
(* "return"    functions return from a try or a catch block                *)
(***************************************************************************)
Features == {"nested", "condition", "loops", "task", "return"}

Kinds == {"resume", "callback", "compiled"}
Catches == {"never", "always", "condition"}
Value == Exception \cup {Many}

ExceptionsAssumption ==
  /\ MaxDepth \in Nat /\ MaxTasks \in Nat
  /\ TryPrograms \subseteq SUBSET Features
  /\ NoException \notin Value

VARIABLES
  try_program, \* the features of this program
  frames,      \* the trys and loops on the stack, the innermost last
  chains,      \* the chain of handlers of each task, its top last
  inflight,    \* the argument of snow_throw_exception, or NoException
  outcome      \* "running", "unhandled" (exit(1)) or "crashed"

try_vars == <<try_program, frames, chains, inflight, outcome>>

Frame(kind, phase, catch, held, left) ==
  [kind |-> kind, phase |-> phase, catch |-> catch,
   held |-> held, left |-> left]
Handler(index, role, exception) ==
  [frame |-> index, role |-> role, exception |-> exception]

ExceptionsInit ==
  /\ try_program \in TryPrograms
  /\ frames = <<>>
  /\ chains = <<<<Handler(0, "base", NoException)>>>>
  /\ inflight = NoException /\ outcome = "running"

In(feature) == feature \in try_program
Chain == Last(chains)
WithChain(chain) == Append(Front(chains), chain)

Between == frames # <<>> /\ Last(frames).phase = "between"
UserCode == outcome = "running" /\ inflight = NoException /\ ~Between
Crash == outcome' = "crashed" /\ UNCHANGED <<try_program, frames, chains, inflight>>

\* The stack unwound to frame k, which enters a phase.
EnterPhase(k, phase, held) ==
  frames' = Append(SubSeq(frames, 1, k - 1),
                   [frames[k] EXCEPT !.phase = phase, !.held = held])
Innermost == Len(frames)
InBlock(kind, phases) ==
  UserCode /\ frames # <<>> /\ Last(frames).kind = kind
           /\ Last(frames).phase \in phases

(***************************************************************************)
(* User code                                                               *)
(***************************************************************************)
Try(kind, catch) ==
  /\ UserCode /\ Len(frames) < MaxDepth
  /\ kind = "compiled" =>
       /\ In("task") \/ Chain # <<>>
       /\ In("nested") \/ Chain = <<>> \/ Last(Chain).exception = NoException
       /\ catch = "condition" => In("condition")
  /\ kind # "compiled" => catch = "always"
  /\ frames' = Append(frames, Frame(kind, "try", catch, <<>>, 0))
  /\ chains' = WithChain(Append(Chain, Handler(Innermost + 1, kind, NoException)))
  /\ UNCHANGED <<try_program, inflight, outcome>>

Throw(e) ==
  /\ UserCode
  /\ inflight' = e
  /\ UNCHANGED <<try_program, frames, chains, outcome>>

(***************************************************************************)
(* snow_begin_try / snow_end_try                                           *)
(***************************************************************************)

\* Mutant: the exception is thrown before the handler is popped.
FinishAfterThrow(chain, k, propagate) ==
  IF propagate = NoException
  THEN /\ chains' = WithChain(Front(chain))
       /\ frames' = SubSeq(frames, 1, k - 1)
       /\ inflight' = NoException
  ELSE /\ chains' = WithChain(chain)
       /\ frames' = SubSeq(frames, 1, k)
       /\ inflight' = propagate

\* snow_try_finish_resumptions
FinishResumptions(chain, k, propagate) ==
  /\ chains' = WithChain(Front(chain))
  /\ frames' = SubSeq(frames, 1, k - 1)
  /\ inflight' = propagate

\* The value that snow_begin_try gives the switch when its state is restored;
\* "phase" is resumption_state, "prepared" is iteration_was_prepared.
PrepareIteration(chain, k, phase, prepared, held) ==
  CASE phase = "try" /\ prepared ->
         /\ EnterPhase(k, "catch", <<Last(chain).exception>>)
         /\ chains' = WithChain(chain) /\ inflight' = NoException
    [] phase = "catch" /\ prepared ->
         /\ EnterPhase(k, "ensure", <<Last(chain).exception>>)
         /\ chains' = WithChain(chain) /\ inflight' = NoException
    [] phase = "ensure" /\ prepared ->
         FinishResumptions(chain, k, Last(chain).exception)
    [] OTHER ->
         /\ EnterPhase(k, "ensure", held)
         /\ chains' = WithChain(chain) /\ inflight' = NoException

\* Mutant: iteration_was_prepared is not reset.
EndTryStillPrepared ==
  /\ InBlock("resume", {"try", "catch"})
  /\ PrepareIteration(Chain, Last(Chain).frame, "ensure", TRUE, <<>>)
  /\ UNCHANGED <<try_program, outcome>>

\* snow_end_try at the end of a try or catch block: the switch runs again.
EndTry ==
  /\ InBlock("resume", {"try", "catch"})
  /\ PrepareIteration(Chain, Last(Chain).frame, "ensure", FALSE, <<>>)
  /\ UNCHANGED <<try_program, outcome>>

\* snow_end_try at the end of the ensure block.
EndEnsure ==
  /\ InBlock("resume", {"ensure"})
  /\ LET held == Last(frames).held IN
     FinishResumptions(Chain, Innermost, IF held = <<>> THEN NoException ELSE held[1])
  /\ UNCHANGED <<try_program, outcome>>

(***************************************************************************)
(* snow_try_catch_ensure                                                   *)
(***************************************************************************)

\* The handlers cut back to handler.previous of the call in frame k.
Truncated(k) ==
  SubSeq(Chain, 1, SelectLastInSeq(Chain,
    LAMBDA h : h.frame = k /\ h.role = "callback") - 1)

EndCallback ==
  /\ InBlock("callback", {"try", "catch"})
  /\ chains' = WithChain(Truncated(Innermost))
  /\ EnterPhase(Innermost, "ensure", <<>>)
  /\ UNCHANGED <<try_program, inflight, outcome>>

EndEnsureCallback ==
  /\ InBlock("callback", {"ensure"})
  /\ frames' = Front(frames)
  /\ inflight' = IF Last(frames).held = <<>> THEN NoException ELSE Last(frames).held[1]
  /\ UNCHANGED <<try_program, chains, outcome>>

(***************************************************************************)
(* The compiled try statement                                              *)
(***************************************************************************)

\* The label "ensure": the exception is left where Exception.current finds
\* it, in the handler that becomes current.  A handler without a previous
\* one makes the program write through a null pointer.
EnterEnsure(chain, k, held) ==
  IF Len(chain) = 1 THEN Crash
  ELSE LET below == Front(chain) IN
       /\ chains' = WithChain(Append(Front(below),
            [Last(below) EXCEPT !.exception = Last(chain).exception]))
       /\ EnterPhase(k, "ensure", held)
       /\ inflight' = NoException
       /\ UNCHANGED <<try_program, outcome>>

EndTryBlock ==
  /\ InBlock("compiled", {"try"})
  /\ EnterEnsure(Chain, Innermost, <<>>)

EndCondition ==
  /\ InBlock("compiled", {"condition"})
  /\ EnterPhase(Innermost, "catch", Last(frames).held)
  /\ UNCHANGED <<try_program, chains, inflight, outcome>>

\* The condition was false: go on with what the catch handler says.
Decline ==
  /\ InBlock("compiled", {"condition"})
  /\ EnterEnsure(Front(Chain), Innermost,
       IF Last(Chain).exception = NoException THEN <<>> ELSE <<Last(Chain).exception>>)

\* Mutant: the catch handler is not popped.
EndCatchBlockUnpopped ==
  /\ InBlock("compiled", {"catch"})
  /\ EnterEnsure(Chain, Innermost, <<>>)

EndCatchBlock ==
  /\ InBlock("compiled", {"catch"})
  /\ EnterEnsure(Front(Chain), Innermost, <<>>)

\* Throw what is to be propagated, or else clear Exception.current.
EndEnsureBlock ==
  /\ InBlock("compiled", {"ensure"})
  /\ IF Last(frames).held # <<>>
     THEN /\ inflight' = Last(frames).held[1] /\ frames' = Front(frames)
          /\ UNCHANGED <<try_program, chains, outcome>>
     ELSE IF Chain = <<>> THEN Crash
     ELSE /\ chains' = WithChain(Append(Front(Chain),
                         [Last(Chain) EXCEPT !.exception = NoException]))
          /\ frames' = Front(frames)
          /\ UNCHANGED <<try_program, inflight, outcome>>

\* A jump to the end of the function (codegen-x86_64.c:252-272): the try is
\* left, but the handlers that it has at the time are not popped.
Return ==
  /\ InBlock("compiled", {"try", "catch", "ensure"})
  /\ In("return") \/ Last(frames).phase = "ensure"
  /\ frames' = Front(frames)
  /\ UNCHANGED <<try_program, chains, inflight, outcome>>

(***************************************************************************)
(* Parallel loops                                                          *)
(***************************************************************************)
ParallelForEach(n) ==
  /\ In("loops")
  /\ UserCode /\ Len(frames) < MaxDepth
  /\ frames' = Append(frames, Frame("loop", "between", "never", <<>>, n))
  /\ UNCHANGED <<try_program, chains, inflight, outcome>>

\* Mutant: i <= num_elements.
PerformTaskTooMany ==
  /\ Between /\ inflight = NoException /\ outcome = "running"
  /\ frames' = Append(Front(frames),
       [Last(frames) EXCEPT !.phase = "task", !.left = @ - 1])
  /\ chains' = Append(chains, <<>>)
  /\ UNCHANGED <<try_program, inflight, outcome>>

PerformTask ==
  /\ Between /\ inflight = NoException /\ outcome = "running"
  /\ Last(frames).left > 0
  /\ frames' = Append(Front(frames),
       [Last(frames) EXCEPT !.phase = "task", !.left = @ - 1])
  /\ chains' = Append(chains, <<>>)
  /\ UNCHANGED <<try_program, inflight, outcome>>

EndTask ==
  /\ InBlock("loop", {"task"})
  /\ EnterPhase(Innermost, "between", Last(frames).held)
  /\ chains' = Front(chains)
  /\ UNCHANGED <<try_program, inflight, outcome>>

Collected(exceptions) ==
  CASE exceptions = <<>> -> NoException
    [] Len(exceptions) = 1 -> exceptions[1]
    [] OTHER -> Many

CollectExceptionsAndRethrow ==
  /\ Between /\ inflight = NoException /\ outcome = "running"
  /\ Last(frames).left = 0
  /\ inflight' = Collected(Last(frames).held)
  /\ frames' = Front(frames)
  /\ UNCHANGED <<try_program, chains, outcome>>

(***************************************************************************)
(* snow_throw_exception                                                    *)
(***************************************************************************)
Thrown == outcome = "running" /\ inflight # NoException
ThrownTo(roles) == Thrown /\ Chain # <<>> /\ Last(Chain).role \in roles

\* The chain once the top handler has been given the exception.
Received ==
  Append(Front(Chain), [Last(Chain) EXCEPT !.exception = inflight])
Target == Last(Chain).frame

\* The function that saved the state of the handler has returned.
Dangling == Target > Innermost

ResumeTry ==
  /\ ThrownTo({"resume"})
  /\ PrepareIteration(Received, Target, frames[Target].phase, TRUE,
                      frames[Target].held)
  /\ UNCHANGED <<try_program, outcome>>

RunCatchFunc ==
  /\ ThrownTo({"callback"})
  /\ chains' = WithChain(Append(Received, Handler(Target, "catcher", NoException)))
  /\ EnterPhase(Target, "catch", <<inflight>>)
  /\ inflight' = NoException
  /\ UNCHANGED <<try_program, outcome>>

CatchFuncThrew ==
  /\ ThrownTo({"catcher"})
  /\ chains' = WithChain(Truncated(Target))
  /\ EnterPhase(Target, "ensure", <<inflight>>)
  /\ inflight' = NoException
  /\ UNCHANGED <<try_program, outcome>>

\* The label "catch": with a catch block, a second handler with a copy of
\* the exception guards it.
RunCatchBlock ==
  /\ ThrownTo({"compiled"})
  /\ IF Dangling THEN Crash
     ELSE IF frames[Target].catch = "never"
     THEN EnterEnsure(Received, Target, <<inflight>>)
     ELSE /\ chains' = WithChain(Append(Received,
                         Handler(Target, "catch", inflight)))
          /\ EnterPhase(Target,
               IF frames[Target].catch = "condition" THEN "condition"
               ELSE "catch", <<inflight>>)
          /\ inflight' = NoException
          /\ UNCHANGED <<try_program, outcome>>

\* The label "catch_catch".
CatchBlockThrew ==
  /\ ThrownTo({"catch"})
  /\ IF Dangling THEN Crash
     ELSE EnterEnsure(Front(Chain), Target, <<inflight>>)

\* snow.c:45-58, the state that the base emergency handler restores.
UnhandledException ==
  /\ ThrownTo({"base"})
  /\ outcome' = "unhandled"
  /\ frames' = <<>>
  /\ UNCHANGED <<try_program, chains, inflight>>

\* No handler in this task: perform_task ends it, with its exception.
AbortCurrentTask ==
  /\ Thrown /\ Chain = <<>>
  /\ LET k == SelectLastInSeq(frames, LAMBDA f : f.phase = "task") IN
     EnterPhase(k, "between", Append(frames[k].held, inflight))
  /\ chains' = Front(chains)
  /\ inflight' = NoException
  /\ UNCHANGED <<try_program, outcome>>

Handling == \/ ResumeTry \/ RunCatchFunc \/ CatchFuncThrew \/ RunCatchBlock
            \/ CatchBlockThrew \/ UnhandledException \/ AbortCurrentTask

Program == \/ \E kind \in Kinds, catch \in Catches : Try(kind, catch)
           \/ \E e \in Exception : Throw(e)
           \/ \E n \in 0..MaxTasks : ParallelForEach(n)
           \/ EndTry \/ EndEnsure \/ EndCallback \/ EndEnsureCallback
           \/ EndTryBlock \/ EndCondition \/ Decline \/ EndCatchBlock
           \/ EndEnsureBlock \/ Return \/ EndTask

Loop == PerformTask \/ CollectExceptionsAndRethrow

ExceptionsNext == Program \/ Loop \/ Handling

ExceptionsSpec == ExceptionsInit /\ [][ExceptionsNext]_try_vars

-----------------------------------------------------------------------------
Phases == {"try", "condition", "catch", "ensure", "between", "task"}

ExceptionsTypeOK ==
  /\ try_program \in TryPrograms
  /\ frames \in Seq([kind : Kinds \cup {"loop"}, phase : Phases,
                      catch : Catches, held : Seq(Value), left : Nat])
  /\ chains \in Seq(Seq([frame : Nat, exception : Value \cup {NoException},
        role : Kinds \cup {"base", "catcher", "catch"}]))
  /\ inflight \in Value \cup {NoException}
  /\ outcome \in {"running", "unhandled", "crashed"}

\* The handlers that the code of a frame counts on, in each of its phases.
OwnedBy(k) ==
  LET frame == frames[k]
      guard == IF frame.kind = "callback" THEN "catcher" ELSE "catch"
  IN IF frame.kind = "loop" THEN <<>>
     ELSE IF frame.kind = "resume" \/ frame.phase = "try" THEN <<<<k, frame.kind>>>>
     ELSE IF frame.phase = "ensure" THEN <<>>
     ELSE <<<<k, frame.kind>>, <<k, guard>>>>

(***************************************************************************)
(* The chain of the task and the phases of the trys tell the same story:   *)
(* whatever mix of trys, throws and loops came before, the handlers are    *)
(* exactly those that the open trys will pop, in their order.              *)
(***************************************************************************)
HandlersMatchFrames ==
  outcome = "running" =>
    LET Origin(chain) == [i \in DOMAIN chain |-> <<chain[i].frame, chain[i].role>>]
    IN FlattenSeq([i \in DOMAIN chains |-> Origin(chains[i])])
         = <<<<0, "base">>>> \o FlattenSeq([k \in DOMAIN frames |-> OwnedBy(k)])

(***************************************************************************)
(* When every try is left, snow_current_exception_handler() is the handler *)
(* there was before the first one (test/exception.c:27, 56, 93, 121).      *)
(***************************************************************************)
StartingHandlerIsRestored ==
  outcome = "running" /\ frames = <<>> => Chain = <<Last(Chain)>>

(***************************************************************************)
(* The three kinds of try, in any nesting and across tasks, do what a try  *)
(* statement promises: no exception is lost, none goes to the wrong try,   *)
(* every ensure block runs once, and nothing crashes.                      *)
(***************************************************************************)
AbstractPhase(phase) ==
  CASE phase = "condition" -> "catch"
    [] phase \in {"between", "task"} -> "tasks"
    [] OTHER -> phase

Promise == INSTANCE TryCatchEnsure WITH
  None <- NoException,
  open <- [k \in DOMAIN frames |->
             [phase |-> AbstractPhase(frames[k].phase),
              catch |-> frames[k].catch, held |-> frames[k].held]],
  failed <- outcome # "running"

ImplementsTryCatchEnsure == Promise!Spec

(***************************************************************************)
(* An exception is not thrown again for ever: each time the runtime throws *)
(* it on, or throws another one in its place, a try has been left for good *)
(* (snow_throw_exception never returns to its caller).                     *)
(***************************************************************************)
ThrowsUnwind ==
  [][inflight # NoException /\ inflight' # NoException /\ outcome' = "running"
       => Len(frames') < Len(frames)]_<<frames, chains, inflight>>
=============================================================================
