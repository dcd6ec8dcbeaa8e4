---------------------------- MODULE StopTheWorld ----------------------------
(***************************************************************************)
(* What the barrier protocol promises to the collector (task.h:26-44): a   *)
(* collection starts only when its thread is the last one with a live task *)
(* and no task comes alive until it has ended.                             *)
(***************************************************************************)
CONSTANTS Thread, None

VARIABLES
  live,      \* the threads with a task that uses the heap
  collector  \* the thread that collects, or None

Init ==
  /\ live \in {{t} : t \in Thread}
  /\ collector = None

\* A task enters a barrier or ends.
Stop(t) ==
  /\ t \in live
  /\ live' = live \ {t}
  /\ UNCHANGED collector

\* A task starts, leaves a barrier, or resumes after its own collection.
Go(t) ==
  /\ collector = None
  /\ t \notin live
  /\ live' = live \cup {t}
  /\ UNCHANGED collector

Begin(t) ==
  /\ collector = None
  /\ live = {t}
  /\ live' = {}
  /\ collector' = t

End ==
  /\ collector # None
  /\ collector' = None
  /\ UNCHANGED live

Next == End \/ \E t \in Thread : Stop(t) \/ Go(t) \/ Begin(t)

Spec == Init /\ [][Next]_<<live, collector>>
=============================================================================
