--------------------------- MODULE TryCatchEnsure ---------------------------
(***************************************************************************)
(* What exceptions promise to a program (exception.h, task.h): a thrown    *)
(* exception goes to the innermost try that is still open; a try that is   *)
(* left, in whatever way, is left through its ensure block; what the catch *)
(* block did not take, or itself threw, goes on once the ensure block is   *)
(* done; what a task throws goes to whoever waits for the task.            *)
(***************************************************************************)
EXTENDS Naturals, SequencesExt

CONSTANTS Exception, Many, None

VARIABLES
  open,     \* the trys and the groups of tasks, the innermost last
  inflight, \* the exception being thrown, or None
  failed    \* nobody handled an exception: the program is aborted

Catches == {"never", "always", "condition"}

\* "held" are the exceptions a frame answers for: the one its catch block
\* caught, the one to go on with after its ensure block, those of its tasks.
Frame(phase, catch, held) == [phase |-> phase, catch |-> catch, held |-> held]

User == inflight = None /\ ~failed
Enter(phase, held) ==
  open' = Append(Front(open), Frame(phase, Last(open).catch, held))
InPhase(phases) == open # <<>> /\ Last(open).phase \in phases

Init == open = <<>> /\ inflight = None /\ failed = FALSE

Try(catch) ==
  /\ User
  /\ open' = Append(open, Frame("try", catch, <<>>))
  /\ UNCHANGED <<inflight, failed>>

Tasks ==
  /\ User
  /\ open' = Append(open, Frame("tasks", "never", <<>>))
  /\ UNCHANGED <<inflight, failed>>

Throw(e) == User /\ inflight' = e /\ UNCHANGED <<open, failed>>

\* The blocks between the throw and the innermost open try or catch block
\* are ensure blocks; the exception replaces what they were to go on with.
Abandoned(k) == \A i \in (k + 1)..Len(open) : open[i].phase = "ensure"

Land ==
  /\ inflight # None
  /\ \E k \in 1..Len(open) :
       LET frame == open[k]
           To(phase, held) ==
             open' = Append(SubSeq(open, 1, k - 1),
                            Frame(phase, frame.catch, held))
       IN /\ Abandoned(k)
          /\ \/ frame.phase = "try" /\ frame.catch # "never"
                  /\ To("catch", <<inflight>>)
             \/ frame.phase = "try" /\ frame.catch = "never"
                  /\ To("ensure", <<inflight>>)
             \/ frame.phase = "catch" /\ To("ensure", <<inflight>>)
             \/ frame.phase = "tasks"
                  /\ To("tasks", Append(frame.held, inflight))
  /\ inflight' = None
  /\ UNCHANGED failed

\* Some of those ensure blocks are given up first.
Abandon ==
  /\ inflight # None
  /\ \E k \in 0..(Len(open) - 1) : Abandoned(k) /\ open' = SubSeq(open, 1, k)
  /\ UNCHANGED <<inflight, failed>>

Fail ==
  /\ inflight # None /\ Abandoned(0) /\ ~failed
  /\ failed' = TRUE
  /\ open' = <<>>
  /\ UNCHANGED inflight

Leave ==
  /\ User /\ InPhase({"try", "catch"})
  /\ Enter("ensure", <<>>)
  /\ UNCHANGED <<inflight, failed>>

Decline ==
  /\ User /\ InPhase({"catch"}) /\ Last(open).catch = "condition"
  /\ Enter("ensure", Last(open).held)
  /\ UNCHANGED <<inflight, failed>>

\* The end of an ensure block or of a group of tasks.
Finish ==
  /\ User /\ InPhase({"ensure", "tasks"})
  /\ open' = Front(open)
  /\ LET held == Last(open).held IN
     inflight' = IF held = <<>> THEN None
                 ELSE IF Len(held) = 1 THEN held[1] ELSE Many
  /\ UNCHANGED failed

\* An ensure block returns from the function: what it was to go on with is
\* forgotten.
Return ==
  /\ User /\ InPhase({"ensure"})
  /\ open' = Front(open)
  /\ UNCHANGED <<inflight, failed>>

Next == \/ \E catch \in Catches : Try(catch)
        \/ \E e \in Exception : Throw(e)
        \/ Tasks \/ Land \/ Abandon \/ Fail \/ Leave \/ Decline
        \/ Finish \/ Return

promiseVars == <<open, inflight, failed>>

Spec == Init /\ [][Next]_promiseVars
=============================================================================
