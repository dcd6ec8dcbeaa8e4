------------------------- MODULE TaskDispatchProofs -------------------------
(***************************************************************************)
(* Theorems about TaskDispatch, for any number of threads and blocks.      *)
(***************************************************************************)
EXTENDS TaskDispatch, TLAPS

-----------------------------------------------------------------------------
(* Types and locks, in every instance.                                     *)

\* An ASSERT stops all threads at once.
TrapStopsAll ==
  (\E t \in Thread : pc[t] = "trapped") => \A t \in Thread : pc[t] = "trapped"

\* What makes TypeOK and CollectionsDoNotOverlap inductive: a collection is under
\* way only while state_lock is held, and a collector waits for a list element.
LockInv ==
  /\ TypeOK
  /\ TrapStopsAll
  /\ CollectionsDoNotOverlap
  /\ (\A t \in Thread : pc[t] # "trapped") => (is_collecting => state_lock # None)
  /\ \A t \in Thread : pc[t] = "scan_wait" => cursor # None

LEMMA LockInit == Init => LockInv
<1> SUFFICES ASSUME Init PROVE LockInv
  OBVIOUS
<1> USE TaskDispatchAssumption DEF Init
<1>1. TypeOK
  BY DEF TypeOK, PC, Running, Taskless
<1>2. \A t \in Thread : pc[t] \in {"run", "unborn"}
  OBVIOUS
<1>3. CollectionsDoNotOverlap
  BY <1>2 DEF CollectionsDoNotOverlap, HoldsGCLock, HoldsStateLock, Collecting
<1> QED
  BY <1>1, <1>2, <1>3 DEF LockInv, TrapStopsAll

LEMMA LockNext == LockInv /\ [Next]_vars => LockInv'
<1> SUFFICES ASSUME LockInv, [Next]_vars PROVE LockInv'
  OBVIOUS
<1> USE TaskDispatchAssumption
    DEF LockInv, TypeOK, PC, TrapStopsAll, CollectionsDoNotOverlap, HoldsGCLock,
        HoldsStateLock, Collecting, Hibernating, InBarrier, Releasing, Running,
        Taskless, listVars, gcdVars, lockVars, Goto, Pause, Resume, Signal, Consume,
        BarrierEnter, AtLiberty, PushTask, Take
<1>1. ASSUME NEW t \in Thread, Poll(t) PROVE LockInv'
  BY <1>1 DEF Poll
<1>2. ASSUME NEW t \in Thread, TryLockGC(t) PROVE LockInv'
  BY <1>2 DEF TryLockGC
<1>3. ASSUME NEW t \in Thread, EnterGCWait(t) PROVE LockInv'
  BY <1>3 DEF EnterGCWait
<1>4. ASSUME NEW t \in Thread, AwaitGCLock(t) PROVE LockInv'
  BY <1>4 DEF AwaitGCLock
<1>5. ASSUME NEW t \in Thread, BarrierLeave(t) PROVE LockInv'
  BY <1>5 DEF BarrierLeave
<1>6. ASSUME NEW t \in Thread, SetBarriers(t) PROVE LockInv'
  BY <1>6 DEF SetBarriers
<1>7. ASSUME NEW t \in Thread, ScanCheck(t) PROVE LockInv'
  BY <1>7 DEF ScanCheck
<1>8. ASSUME NEW t \in Thread, ScanWait(t) PROVE LockInv'
  BY <1>8 DEF ScanWait
<1>9. ASSUME NEW t \in Thread, BeginCollection(t) PROVE LockInv'
  BY <1>9 DEF BeginCollection
<1>10. ASSUME NEW t \in Thread, NEW b \in Block, CollectDeferred(t, b) PROVE LockInv'
  BY <1>10 DEF CollectDeferred
<1>11. ASSUME NEW t \in Thread, FinalizeDeferred(t) PROVE LockInv'
  BY <1>11, ZenonT(60) DEF FinalizeDeferred
<1>12. ASSUME NEW t \in Thread, EndCollection(t) PROVE LockInv'
  BY <1>12 DEF EndCollection
<1>13. ASSUME NEW t \in Thread, UnlockGC(t) PROVE LockInv'
  BY <1>13 DEF UnlockGC
<1>14. ASSUME NEW t \in Thread, UnsetBarrier(t) PROVE LockInv'
  BY <1>14 DEF UnsetBarrier
<1>15. ASSUME NEW t \in Thread, ReleaseState(t) PROVE LockInv'
  BY <1>15 DEF ReleaseState
<1>16. ASSUME NEW t \in Thread, ResumeCollector(t) PROVE LockInv'
  BY <1>16 DEF ResumeCollector
<1>17. ASSUME NEW t \in Thread, NEW b \in Block, TakeBlock(t, b) PROVE LockInv'
  BY <1>17 DEF TakeBlock
<1>18. ASSUME NEW t \in Thread, NEW o \in Thread, TakeIteration(t, o) PROVE LockInv'
  BY <1>18 DEF TakeIteration
<1>19. ASSUME NEW t \in Thread, InitThread(t) PROVE LockInv'
  BY <1>19 DEF InitThread
<1>20. ASSUME NEW t \in Thread, StartTask(t) PROVE LockInv'
  BY <1>20 DEF StartTask
<1>21. ASSUME NEW t \in Thread, FinishJob(t) PROVE LockInv'
  BY <1>21 DEF FinishJob
<1>22. ASSUME NEW t \in Thread, Retire(t) PROVE LockInv'
  BY <1>22 DEF Retire
<1>23. ASSUME NEW t \in Thread, Unlink(t) PROVE LockInv'
  BY <1>23 DEF Unlink
<1>24. ASSUME NEW t \in Thread, Defer(t) PROVE LockInv'
  BY <1>24 DEF Defer
<1>25. ASSUME NEW t \in Thread, NEW b \in Block, Submit(t, b) PROVE LockInv'
  BY <1>25 DEF Submit
<1>26. ASSUME NEW t \in Thread, NEW b \in Block, Await(t, b) PROVE LockInv'
  BY <1>26 DEF Await
<1>27. ASSUME NEW t \in Thread, EndAwait(t) PROVE LockInv'
  BY <1>27 DEF EndAwait
<1>28. ASSUME NEW t \in Thread, NEW n \in 1..MaxWidth, Apply(t, n) PROVE LockInv'
  BY <1>28 DEF Apply
<1>29. ASSUME NEW t \in Thread, OwnIteration(t) PROVE LockInv'
  BY <1>29 DEF OwnIteration
<1>30. ASSUME NEW t \in Thread, InlineIteration(t) PROVE LockInv'
  BY <1>30 DEF InlineIteration
<1>31. ASSUME NEW t \in Thread, PopTask(t) PROVE LockInv'
  BY <1>31 DEF PopTask
<1>32. ASSUME NEW t \in Thread, EndApply(t) PROVE LockInv'
  BY <1>32 DEF EndApply
<1>33. ASSUME NEW t \in Thread, Symbol(t) PROVE LockInv'
  BY <1>33 DEF Symbol
<1>34. ASSUME NEW t \in Thread, LockSymbols(t) PROVE LockInv'
  BY <1>34 DEF LockSymbols
<1>35. ASSUME NEW t \in Thread, UnlockSymbols(t) PROVE LockInv'
  BY <1>35 DEF UnlockSymbols
<1>36. ASSUME NEW t \in Thread, Trap(t) PROVE LockInv'
  BY <1>36 DEF Trap
<1>37. CASE UNCHANGED vars
  BY <1>37 DEF vars
<1> QED
  BY <1>1, <1>2, <1>3, <1>4, <1>5, <1>6, <1>7, <1>8, <1>9, <1>10, <1>11, <1>12, <1>13, <1>14, <1>15, <1>16, <1>17, <1>18, <1>19, <1>20, <1>21, <1>22, <1>23, <1>24, <1>25, <1>26, <1>27, <1>28, <1>29, <1>30, <1>31, <1>32, <1>33, <1>34, <1>35, <1>36, <1>37
  DEF Next, Safepoint, Barrier, Collect, Worker, Work

\* Every variable keeps its type in every instance of the protocol.
THEOREM TypeCorrect == Spec => []TypeOK
<1>1. Init => LockInv
  BY LockInit
<1>2. LockInv /\ [Next]_vars => LockInv'
  BY LockNext
<1>3. LockInv => TypeOK
  BY DEF LockInv
<1> QED
  BY <1>1, <1>2, <1>3, PTL DEF Spec

\* Collections never overlap, for any number of threads and with every feature:
\* the hand-over between gc_lock and state_lock at the end of snow_gc is sound.
THEOREM NoOverlap == Spec => []CollectionsDoNotOverlap
<1>1. Init => LockInv
  BY LockInit
<1>2. LockInv /\ [Next]_vars => LockInv'
  BY LockNext
<1>3. LockInv => CollectionsDoNotOverlap
  BY DEF LockInv
<1> QED
  BY <1>1, <1>2, <1>3, PTL DEF Spec

-----------------------------------------------------------------------------
(* The ASSERTs of snow_task_pause and snow_task_resume.                    *)

\* HibernationMatchesControl is inductive once a thread's program counter also
\* says whether it has a task at all.
StackInv ==
  /\ HibernationMatchesControl
  /\ \A t \in Thread : pc[t] # "trapped" => (pc[t] \in Taskless <=> depth[t] = 0)

LEMMA StackInit == Init => StackInv
<1> SUFFICES ASSUME Init PROVE StackInv
  OBVIOUS
<1>1. \A t \in Thread : IF t = Main THEN pc[t] = "run" /\ depth[t] = 1
                                    ELSE pc[t] = "unborn" /\ depth[t] = 0
  BY DEF Init
<1>2. \A t \in Thread : hibernated[t] = {}
  BY DEF Init
<1> QED
  BY <1>1, <1>2 DEF StackInv, HibernationMatchesControl, Hibernating, InBarrier,
     Collecting, Releasing, Taskless

LEMMA StackNext == LockInv /\ StackInv /\ [Next]_vars => StackInv'
<1> SUFFICES ASSUME TypeOK, StackInv, [Next]_vars PROVE StackInv'
  BY DEF LockInv
<1> USE TaskDispatchAssumption
    DEF TypeOK, StackInv, HibernationMatchesControl, Hibernating, InBarrier, Collecting,
        Releasing, Taskless, gcdVars, Goto, Pause, Resume, BarrierEnter, AtLiberty,
        PushTask, Take
<1>1. ASSUME NEW t \in Thread, Poll(t) PROVE StackInv'
  BY <1>1 DEF Poll
<1>2. ASSUME NEW t \in Thread, TryLockGC(t) PROVE StackInv'
  BY <1>2 DEF TryLockGC
<1>3. ASSUME NEW t \in Thread, EnterGCWait(t) PROVE StackInv'
  BY <1>3 DEF EnterGCWait
<1>4. ASSUME NEW t \in Thread, AwaitGCLock(t) PROVE StackInv'
  BY <1>4 DEF AwaitGCLock
<1>5. ASSUME NEW t \in Thread, BarrierLeave(t) PROVE StackInv'
  BY <1>5 DEF BarrierLeave
<1>6. ASSUME NEW t \in Thread, SetBarriers(t) PROVE StackInv'
  BY <1>6 DEF SetBarriers
<1>7. ASSUME NEW t \in Thread, ScanCheck(t) PROVE StackInv'
  BY <1>7 DEF ScanCheck
<1>8. ASSUME NEW t \in Thread, ScanWait(t) PROVE StackInv'
  BY <1>8 DEF ScanWait
<1>9. ASSUME NEW t \in Thread, BeginCollection(t) PROVE StackInv'
  BY <1>9 DEF BeginCollection
<1>10. ASSUME NEW t \in Thread, NEW b \in Block, CollectDeferred(t, b) PROVE StackInv'
  BY <1>10 DEF CollectDeferred
<1>11. ASSUME NEW t \in Thread, FinalizeDeferred(t) PROVE StackInv'
  BY <1>11 DEF FinalizeDeferred
<1>12. ASSUME NEW t \in Thread, EndCollection(t) PROVE StackInv'
  BY <1>12 DEF EndCollection
<1>13. ASSUME NEW t \in Thread, UnlockGC(t) PROVE StackInv'
  BY <1>13 DEF UnlockGC
<1>14. ASSUME NEW t \in Thread, UnsetBarrier(t) PROVE StackInv'
  BY <1>14 DEF UnsetBarrier
<1>15. ASSUME NEW t \in Thread, ReleaseState(t) PROVE StackInv'
  BY <1>15 DEF ReleaseState
<1>16. ASSUME NEW t \in Thread, ResumeCollector(t) PROVE StackInv'
  BY <1>16 DEF ResumeCollector
<1>17. ASSUME NEW t \in Thread, NEW b \in Block, TakeBlock(t, b) PROVE StackInv'
  BY <1>17 DEF TakeBlock
<1>18. ASSUME NEW t \in Thread, NEW o \in Thread, TakeIteration(t, o) PROVE StackInv'
  BY <1>18 DEF TakeIteration
<1>19. ASSUME NEW t \in Thread, InitThread(t) PROVE StackInv'
  BY <1>19 DEF InitThread
<1>20. ASSUME NEW t \in Thread, StartTask(t) PROVE StackInv'
  BY <1>20 DEF StartTask
<1>21. ASSUME NEW t \in Thread, FinishJob(t) PROVE StackInv'
  BY <1>21 DEF FinishJob
<1>22. ASSUME NEW t \in Thread, Retire(t) PROVE StackInv'
  BY <1>22 DEF Retire
<1>23. ASSUME NEW t \in Thread, Unlink(t) PROVE StackInv'
  BY <1>23 DEF Unlink
<1>24. ASSUME NEW t \in Thread, Defer(t) PROVE StackInv'
  BY <1>24 DEF Defer
<1>25. ASSUME NEW t \in Thread, NEW b \in Block, Submit(t, b) PROVE StackInv'
  BY <1>25 DEF Submit
<1>26. ASSUME NEW t \in Thread, NEW b \in Block, Await(t, b) PROVE StackInv'
  BY <1>26 DEF Await
<1>27. ASSUME NEW t \in Thread, EndAwait(t) PROVE StackInv'
  BY <1>27 DEF EndAwait
<1>28. ASSUME NEW t \in Thread, NEW n \in 1..MaxWidth, Apply(t, n) PROVE StackInv'
  BY <1>28 DEF Apply
<1>29. ASSUME NEW t \in Thread, OwnIteration(t) PROVE StackInv'
  BY <1>29 DEF OwnIteration
<1>30. ASSUME NEW t \in Thread, InlineIteration(t) PROVE StackInv'
  BY <1>30 DEF InlineIteration
<1>31. ASSUME NEW t \in Thread, PopTask(t) PROVE StackInv'
  BY <1>31 DEF PopTask
<1>32. ASSUME NEW t \in Thread, EndApply(t) PROVE StackInv'
  BY <1>32 DEF EndApply
<1>33. ASSUME NEW t \in Thread, Symbol(t) PROVE StackInv'
  BY <1>33 DEF Symbol
<1>34. ASSUME NEW t \in Thread, LockSymbols(t) PROVE StackInv'
  BY <1>34 DEF LockSymbols
<1>35. ASSUME NEW t \in Thread, UnlockSymbols(t) PROVE StackInv'
  BY <1>35 DEF UnlockSymbols
<1>36. ASSUME NEW t \in Thread, Trap(t) PROVE StackInv'
  BY <1>36 DEF Trap
<1>37. CASE UNCHANGED vars
  BY <1>37 DEF vars
<1> QED
  BY <1>1, <1>2, <1>3, <1>4, <1>5, <1>6, <1>7, <1>8, <1>9, <1>10, <1>11, <1>12, <1>13, <1>14, <1>15, <1>16, <1>17, <1>18, <1>19, <1>20, <1>21, <1>22, <1>23, <1>24, <1>25, <1>26, <1>27, <1>28, <1>29, <1>30, <1>31, <1>32, <1>33, <1>34, <1>35, <1>36, <1>37
  DEF Next, Safepoint, Barrier, Collect, Worker, Work

\* In every interleaving a task is paused only while it runs and resumed only while
\* it is hibernated, and the parents below it stay hibernated: the ASSERTs of
\* snow_task_pause and snow_task_resume cannot fail.
THEOREM PauseResumeSound == Spec => []HibernationMatchesControl
<1>1. Init => LockInv /\ StackInv
  BY LockInit, StackInit
<1>2. LockInv /\ StackInv /\ [Next]_vars => (LockInv /\ StackInv)'
  BY LockNext, StackNext
<1>3. StackInv => HibernationMatchesControl
  BY DEF StackInv
<1> QED
  BY <1>1, <1>2, <1>3, PTL DEF Spec

-----------------------------------------------------------------------------
(* Walks of the list.                                                      *)

\* A walk that does not meet s at its start meets s behind it.
LEMMA WalkOn ==
  ASSUME NEW nxt \in [Thread -> Thread \cup {None}], NEW h \in Thread, NEW s \in Thread,
         ReachesBy(nxt, h, s), s # h
  PROVE  ReachesBy(nxt, nxt[h], s)
<1>1. nxt[h] # None
  <2> SUFFICES ASSUME nxt[h] = None PROVE FALSE
    OBVIOUS
  <2>1. {h} \in SUBSET Thread /\ h \in {h} /\ Closed(nxt, {h})
    BY DEF Closed
  <2> QED
    BY <2>1 DEF ReachesBy
<1>2. ASSUME NEW S \in SUBSET Thread, nxt[h] \in S, Closed(nxt, S) PROVE s \in S
  <2>1. Closed(nxt, S \cup {h})
    BY <1>2 DEF Closed
  <2> QED
    BY <2>1 DEF ReachesBy
<1> QED
  BY <1>1, <1>2 DEF ReachesBy

\* What a walk meets behind h, the walk from h meets too.
LEMMA WalkBack ==
  ASSUME NEW nxt \in [Thread -> Thread \cup {None}], NEW h \in Thread, NEW s \in Thread,
         ReachesBy(nxt, nxt[h], s)
  PROVE  ReachesBy(nxt, h, s)
BY TaskDispatchAssumption DEF ReachesBy, Closed

LEMMA WalkStart ==
  ASSUME NEW nxt, NEW h \in Thread
  PROVE  ReachesBy(nxt, h, h) /\ ~ReachesBy(nxt, None, h)
BY TaskDispatchAssumption DEF ReachesBy

-----------------------------------------------------------------------------
(* The links of the list, whatever GCD does: the head may be wrong, and    *)
(* thread states may be out of the walk's reach.                           *)

\* A thread without a state is linked to none, the head has a state, and no walk
\* comes back to where it started.
LinkInv ==
  /\ ListIsDoublyLinked
  /\ \A t \in Thread : pc[t] \in Stateless => next[t] = None /\ prev[t] = None
  /\ state # None => pc[state] \notin Stateless
  /\ \A t \in Thread : ~ReachesBy(next, next[t], t)

LEMMA LinkInit == Init => LinkInv
<1> SUFFICES ASSUME Init PROVE LinkInv
  OBVIOUS
<1> USE TaskDispatchAssumption
<1>1. state = Main /\ pc[Main] = "run" /\ \A t \in Thread : next[t] = None /\ prev[t] = None
  BY DEF Init
<1>2. \A t \in Thread : ~ReachesBy(next, next[t], t)
  BY <1>1, WalkStart
<1> QED
  BY <1>1, <1>2 DEF LinkInv, ListIsDoublyLinked, Stateless

\* A new state is put before a head that has one, and belongs to a thread that no
\* link leads to.
LEMMA LinkPrepend ==
  ASSUME LockInv, LinkInv, NEW t \in Thread, InitThread(t)
  PROVE  LinkInv'
<1> USE TaskDispatchAssumption
<1>1. /\ pc \in [Thread -> PC] /\ state \in Thread \cup {None}
      /\ next \in [Thread -> Thread \cup {None}] /\ prev \in [Thread -> Thread \cup {None}]
  BY DEF LockInv, TypeOK
<1>2. next[t] = None /\ prev[t] = None /\ state # t
  BY DEF InitThread, LinkInv, Stateless
<1>3. \A u \in Thread : next[u] # t
  BY <1>2 DEF LinkInv, ListIsDoublyLinked
<1>4. state # None => prev[state] = None
  BY DEF InitThread, HeadHasPrevious
<1>5. \A u \in Thread : next[u] # state \/ state = None
  BY <1>1, <1>4 DEF LinkInv, ListIsDoublyLinked
<1>6. /\ \A u \in Thread : next'[u] = IF u = t THEN state ELSE next[u]
      /\ \A u \in Thread : prev'[u] = IF u = t THEN None ELSE IF u = state THEN t ELSE prev[u]
      /\ state' = t
      /\ \A u \in Thread : pc'[u] = IF u = t THEN "starting" ELSE pc[u]
  BY <1>1 DEF InitThread, Goto
<1>7. ListIsDoublyLinked'
  BY <1>1, <1>2, <1>3, <1>4, <1>5, <1>6 DEF LinkInv, ListIsDoublyLinked
<1>8. \A u \in Thread : pc'[u] \in Stateless => next'[u] = None /\ prev'[u] = None
  BY <1>6 DEF LinkInv, Stateless
<1>9. ASSUME NEW u \in Thread PROVE ~ReachesBy(next', next'[u], u)
  <2>1. CASE u = t
    <3>1. Closed(next', Thread \ {t})
      BY <1>1, <1>3, <1>6 DEF Closed
    <3>2. next'[u] # None => next'[u] \in Thread \ {t}
      BY <1>1, <1>2, <1>6, <2>1
    <3> QED  BY <2>1, <3>1, <3>2 DEF ReachesBy
  <2>2. CASE u # t /\ next[u] = None
    BY <1>6, <2>2, WalkStart
  <2>3. CASE u # t /\ next[u] # None
    <3>1. PICK S \in SUBSET Thread : next[u] \in S /\ Closed(next, S) /\ u \notin S
      BY <2>3 DEF LinkInv, ReachesBy
    <3>2. Closed(next', S \ {t})
      BY <1>3, <1>6, <3>1 DEF Closed
    <3>3. next'[u] \in S \ {t} /\ u \notin S \ {t}
      BY <1>3, <1>6, <2>3, <3>1
    <3> QED  BY <3>2, <3>3 DEF ReachesBy
  <2> QED  BY <2>1, <2>2, <2>3
<1>10. state' # None => pc'[state'] \notin Stateless
  BY <1>6 DEF Stateless
<1> QED
  BY <1>7, <1>8, <1>9, <1>10 DEF LinkInv

\* Unlinking joins the neighbours, and the new head is the successor that had a state.
LEMMA LinkUnlink ==
  ASSUME LockInv, LinkInv, NEW t \in Thread, Unlink(t)
  PROVE  LinkInv'
<1> USE TaskDispatchAssumption
<1>1. /\ pc \in [Thread -> PC]
      /\ next \in [Thread -> Thread \cup {None}] /\ prev \in [Thread -> Thread \cup {None}]
  BY DEF LockInv, TypeOK
<1>2. next[t] # t /\ prev[t] # t
  BY WalkStart DEF LinkInv, ListIsDoublyLinked
<1>3. /\ \A u \in Thread : next'[u] = IF u = prev[t] THEN next[t] ELSE IF u = t THEN None ELSE next[u]
      /\ \A u \in Thread : prev'[u] = IF u = next[t] THEN prev[t] ELSE IF u = t THEN None ELSE prev[u]
      /\ state' = next[t]
      /\ \A u \in Thread : pc'[u] = IF u = t THEN "unborn" ELSE pc[u]
  BY <1>1 DEF Unlink, Goto
<1>4. ListIsDoublyLinked'
  BY <1>1, <1>2, <1>3 DEF LinkInv, ListIsDoublyLinked
<1>5. \A u \in Thread : u \in {next[t], prev[t]} => pc[u] \notin Stateless
  BY <1>1 DEF LinkInv, ListIsDoublyLinked
<1>6. \A u \in Thread : pc'[u] \in Stateless => next'[u] = None /\ prev'[u] = None
  BY <1>2, <1>3, <1>5 DEF LinkInv
<1>7. state' # None => pc'[state'] \notin Stateless
  BY <1>1, <1>2, <1>3, <1>5
<1>8. ASSUME NEW u \in Thread PROVE ~ReachesBy(next', next'[u], u)
  <2>1. CASE next'[u] = None
    BY <2>1, WalkStart
  <2>2. CASE next'[u] # None
    <3>1. u # t /\ next[u] # None
      BY <1>2, <1>3, <2>2 DEF LinkInv, ListIsDoublyLinked
    <3>2. PICK S \in SUBSET Thread : next[u] \in S /\ Closed(next, S) /\ u \notin S
      BY <3>1 DEF LinkInv, ReachesBy
    <3>3. prev[t] \in S => t \in S
      BY <1>1, <3>2 DEF LinkInv, ListIsDoublyLinked, Closed
    <3>4. t \in S /\ next[t] # None => next[t] \in S
      BY <3>2 DEF Closed
    <3>5. Closed(next', S)
      BY <1>3, <3>2, <3>3, <3>4 DEF Closed
    <3>6. next'[u] \in S
      BY <1>1, <1>3, <2>2, <3>1, <3>2, <3>4 DEF LinkInv, ListIsDoublyLinked
    <3> QED  BY <2>2, <3>2, <3>5, <3>6 DEF ReachesBy
  <2> QED  BY <2>1, <2>2
<1> QED
  BY <1>4, <1>6, <1>7, <1>8 DEF LinkInv

\* All other steps leave the links alone, and take no thread's state.
LEMMA LinkFrame ==
  ASSUME LockInv, LinkInv, UNCHANGED listVars,
         \A t \in Thread : pc'[t] \in Stateless => pc[t] \in Stateless
  PROVE  LinkInv'
<1>1. next' = next /\ prev' = prev /\ state' = state
  BY DEF listVars
<1>2. ListIsDoublyLinked'
  BY <1>1 DEF LinkInv, ListIsDoublyLinked
<1>3. \A t \in Thread : pc'[t] \in Stateless => next'[t] = None /\ prev'[t] = None
  BY <1>1 DEF LinkInv
<1>4. state' # None => pc'[state'] \notin Stateless
  BY <1>1 DEF LockInv, TypeOK, LinkInv
<1>5. \A t \in Thread : ~ReachesBy(next', next'[t], t)
  BY <1>1 DEF LinkInv
<1> QED
  BY <1>2, <1>3, <1>4, <1>5 DEF LinkInv

LEMMA LinkNext == LockInv /\ LinkInv /\ [Next]_vars => LinkInv'
<1> SUFFICES ASSUME LockInv, LinkInv, [Next]_vars PROVE LinkInv'
  OBVIOUS
<1> DEFINE Keeps == /\ UNCHANGED listVars
                    /\ \A u \in Thread : pc'[u] \in Stateless => pc[u] \in Stateless
<1>1. pc \in [Thread -> PC]
  BY DEF LockInv, TypeOK
<1>2. ASSUME NEW t \in Thread, Safepoint(t) \/ Barrier(t) PROVE Keeps
  BY <1>1, <1>2 DEF Safepoint, Barrier, Poll, TryLockGC, EnterGCWait, AwaitGCLock,
     BarrierLeave, Goto, Stateless
<1>3. ASSUME NEW t \in Thread, Collect(t) PROVE Keeps
  BY <1>1, <1>3 DEF Collect, SetBarriers, ScanCheck, ScanWait, BeginCollection,
     CollectDeferred, FinalizeDeferred, EndCollection, UnlockGC, UnsetBarrier, ReleaseState,
     ResumeCollector, Goto, Stateless, lockVars, gcdVars
<1>4. ASSUME NEW t \in Thread, Worker(t) PROVE LinkInv'
  <2>1. CASE InitThread(t)
    BY <2>1, LinkPrepend
  <2>2. CASE Unlink(t)
    BY <2>2, LinkUnlink
  <2>3. CASE ~InitThread(t) /\ ~Unlink(t)
    <3>1. Keeps
      BY <1>1, <1>4, <2>3 DEF Worker, TakeBlock, TakeIteration, Take, StartTask,
         FinishJob, Retire, Goto, Stateless
    <3> QED  BY <3>1, LinkFrame
  <2> QED  BY <2>1, <2>2, <2>3
<1>5. ASSUME NEW t \in Thread, Work(t) PROVE Keeps
  BY <1>1, <1>5 DEF Work, Defer, Submit, Await, EndAwait, Apply, OwnIteration,
     InlineIteration, PushTask, PopTask, EndApply, Symbol, LockSymbols, UnlockSymbols,
     Goto, Stateless
<1>6. ASSUME NEW t \in Thread, Trap(t) PROVE Keeps
  BY <1>6 DEF Trap, Stateless
<1>7. CASE UNCHANGED vars
  BY <1>7, LinkFrame DEF vars
<1> QED
  BY <1>2, <1>3, <1>4, <1>5, <1>6, <1>7, LinkFrame DEF Next

\* Whatever GCD does, and even when the head is wrong, the thread states stay a
\* well-formed doubly linked list: next and previous are each other's inverse.
THEOREM LinksMatch == Spec => []ListIsDoublyLinked
<1>1. Init => LockInv /\ LinkInv
  BY LockInit, LinkInit
<1>2. LockInv /\ LinkInv /\ [Next]_vars => (LockInv /\ LinkInv)'
  BY LockNext, LinkNext
<1>3. LinkInv => ListIsDoublyLinked
  BY DEF LinkInv
<1> QED
  BY <1>1, <1>2, <1>3, PTL DEF Spec

-----------------------------------------------------------------------------
(* The punctual instances: GCD starts no block behind a collector's back   *)
(* and terminates no worker.                                               *)

Punctual == "late" \notin Feature /\ "retire" \notin Feature

Stateful == {t \in Thread : pc[t] \notin Stateless}

\* The list holds every thread state, each once.
ListInv ==
  /\ state \in Stateful /\ prev[state] = None
  /\ \A t \in Thread : next[t] # None => t \in Stateful /\ next[t] \in Stateful
  /\ \A t \in Stateful : ReachesBy(next, state, t) /\ ~ReachesBy(next, next[t], t)

\* A thread that needs no more waiting for.
Quiet(t) == depth[t] = 0 \/ InsideConsumed(t)

\* The state of the walk: behind the cursor of a scan every thread is quiet, all are
\* during the collection, and from the cursor of the release on they still are.
BarrierInv ==
  /\ \A t \in Thread : pc[t] \notin {"trapped", "retiring"}
  /\ \A t \in Thread : gc_barrier[t] <= 1 /\ (gc_barrier[t] = 1 => pc[t] \in InBarrier)
  /\ cursor \in Stateful \cup {None}
  /\ state_lock = None => \A t \in Thread : ~InsideConsumed(t)
  /\ \A c \in Thread : state_lock = c => \A t \in Thread \ {c} :
       /\ pc[c] \in {"scan", "scan_wait"} => Quiet(t) \/ ReachesBy(next, cursor, t)
       /\ pc[c] \in {"collect", "finalize", "unlock"} => Quiet(t)
       /\ pc[c] = "unset" => /\ ReachesBy(next, cursor, t) => Quiet(t)
                             /\ InsideConsumed(t) => ReachesBy(next, cursor, t)

PunctualInv == LockInv /\ StackInv /\ ListInv /\ BarrierInv

LEMMA PunctualInit == Init => PunctualInv
<1> SUFFICES ASSUME Init PROVE PunctualInv
  OBVIOUS
<1>1. LockInv /\ StackInv
  BY LockInit, StackInit
<1> USE TaskDispatchAssumption
<1>2. Stateful = {Main} /\ state = Main /\ \A t \in Thread : next[t] = None /\ prev[t] = None
  BY DEF Init, Stateful, Stateless
<1>3. ListInv
  BY <1>2, WalkStart DEF ListInv
<1>4. \A t \in Thread : gc_barrier[t] = 0 /\ pc[t] \in {"run", "unborn"}
  BY DEF Init
<1>5. state_lock = None /\ cursor = None
  BY DEF Init
<1>6. BarrierInv
  BY <1>4, <1>5 DEF BarrierInv, InsideConsumed, InBarrier
<1> QED
  BY <1>1, <1>3, <1>6 DEF PunctualInv

\* The stack scan of a punctual instance meets no live task, and a new thread state
\* is put before a head without predecessor.
LEMMA NoTrap ==
  ASSUME PunctualInv, NEW t \in Thread
  PROVE  ~Trap(t)
<1> SUFFICES ASSUME Trap(t) PROVE FALSE
  OBVIOUS
<1>1. ~HeadHasPrevious
  BY DEF PunctualInv, ListInv, HeadHasPrevious
<1>2. pc[t] = "collect" /\ MeetsLiveTask
  BY <1>1 DEF Trap
<1>3. PICK u \in Thread : \E l \in 1..depth[u] : l \notin hibernated[u]
  BY <1>2 DEF MeetsLiveTask, Listed
<1> PICK l \in 1..depth[u] : l \notin hibernated[u]
  BY <1>3
<1>4. depth[u] \in Nat /\ depth[u] > 0
  BY <1>3 DEF PunctualInv, LockInv, TypeOK
<1>5. l = depth[u] /\ pc[u] \notin Hibernating /\ pc[u] # "trapped"
  BY <1>3, <1>4 DEF PunctualInv, StackInv, HibernationMatchesControl, BarrierInv
<1>6. state_lock = t /\ u # t
  BY <1>2, <1>5 DEF PunctualInv, LockInv, CollectionsDoNotOverlap, HoldsStateLock,
     Collecting, Hibernating
<1>7. Quiet(u)
  BY <1>2, <1>6 DEF PunctualInv, BarrierInv
<1> QED
  BY <1>4, <1>5, <1>7 DEF Quiet, InsideConsumed, Hibernating

\* A step that touches no link and creates no thread state keeps ListInv.
LEMMA ListFrame ==
  ASSUME ListInv, UNCHANGED listVars, Stateful' = Stateful
  PROVE  ListInv'
BY DEF ListInv, listVars

\* Prepending a state to the list keeps all others listed once.
LEMMA ListPrepend ==
  ASSUME LockInv, ListInv, NEW t \in Thread, InitThread(t)
  PROVE  ListInv'
<1> USE TaskDispatchAssumption
<1> DEFINE S0 == Stateful
<1>1. t \notin S0 /\ S0 \in SUBSET Thread /\ state \in S0 /\ state # None
  BY DEF InitThread, ListInv, Stateful, Stateless
<1>2. /\ next \in [Thread -> Thread \cup {None}] /\ next' \in [Thread -> Thread \cup {None}]
      /\ next' = [next EXCEPT ![t] = state] /\ state' = t /\ next[t] = None
  BY <1>1 DEF InitThread, LockInv, TypeOK, ListInv, Stateful
<1>3. Stateful' = S0 \cup {t}
  BY DEF InitThread, Goto, Stateful, Stateless, LockInv, TypeOK
<1>4. prev'[state'] = None
  BY DEF InitThread
<1>5. Closed(next, S0) /\ Closed(next', S0)
  BY <1>1, <1>2 DEF Closed, ListInv
<1>6. ASSUME NEW u \in S0 PROVE ReachesBy(next', t, u)
  <2>1. ASSUME NEW S \in SUBSET Thread, t \in S, Closed(next', S) PROVE u \in S
    <3>1. state \in S
      BY <1>1, <1>2, <2>1 DEF Closed
    <3>2. Closed(next, S)
      BY <1>2, <2>1 DEF Closed
    <3>3. ReachesBy(next, state, u)
      BY <1>6 DEF ListInv
    <3> QED
      BY <3>1, <3>2, <3>3 DEF ReachesBy
  <2> QED
    BY <2>1 DEF ReachesBy
<1>7. ASSUME NEW u \in S0 PROVE ~ReachesBy(next', next'[u], u)
  <2>1. next'[u] = next[u] /\ u \in Thread
    BY <1>1, <1>2, <1>7
  <2>2. CASE next[u] = None
    BY <2>1, <2>2 DEF ReachesBy
  <2>3. CASE next[u] # None
    <3>1. ~ReachesBy(next, next[u], u) /\ next[u] \in S0
      BY <1>7, <2>1, <2>3 DEF ListInv
    <3>2. PICK S \in SUBSET Thread : next[u] \in S /\ Closed(next, S) /\ u \notin S
      BY <2>3, <3>1 DEF ReachesBy
    <3>3. Closed(next', S \cap S0)
      BY <1>1, <1>2, <1>5, <3>2 DEF Closed
    <3>4. S \cap S0 \in SUBSET Thread /\ next'[u] \in S \cap S0 /\ u \notin S \cap S0
      BY <2>1, <3>1, <3>2
    <3> QED
      BY <3>3, <3>4 DEF ReachesBy
  <2> QED
    BY <2>2, <2>3
<1>8. ReachesBy(next', t, t) /\ ~ReachesBy(next', next'[t], t)
  BY <1>1, <1>2, <1>5, WalkStart DEF ReachesBy
<1>9. \A u \in Thread : next'[u] # None => u \in S0 \cup {t} /\ next'[u] \in S0 \cup {t}
  BY <1>1, <1>2 DEF ListInv
<1> QED
  BY <1>2, <1>3, <1>4, <1>6, <1>7, <1>8, <1>9 DEF ListInv

\* Entering a barrier makes no thread quiet and wakes none.
LEMMA EnterKeepsBarrierInv ==
  ASSUME PunctualInv, NEW t \in Thread, pc[t] \in {"run", "barrier_enter"},
         BarrierEnter(t), NEW l \in InBarrier, Goto(t, l),
         UNCHANGED <<depth, next, state_lock, cursor>>
  PROVE  BarrierInv'
<1> USE DEF PunctualInv, LockInv, TypeOK
<1>1. pc' = [pc EXCEPT ![t] = l] /\ pc[t] \notin InBarrier /\ l \in InBarrier
  BY DEF Goto, InBarrier
<1>2. gc_barrier[t] = 0 /\ gc_barrier' = [gc_barrier EXCEPT ![t] = 1]
  <2>1. gc_barrier[t] \in Nat /\ gc_barrier[t] <= 1 /\ gc_barrier[t] # 1
    BY <1>1 DEF BarrierInv
  <2>2. gc_barrier[t] = 0
    BY <2>1
  <2> QED
    BY <2>2 DEF BarrierEnter, Signal
<1>3. \A u \in Thread : InsideConsumed(u)' <=> InsideConsumed(u)
  BY <1>1, <1>2 DEF InsideConsumed
<1>4. \A u \in Thread : Quiet(u)' <=> Quiet(u)
  BY <1>3 DEF Quiet
<1>5. \A c \in Thread : state_lock = c => pc'[c] = pc[c]
  BY <1>1 DEF CollectionsDoNotOverlap, HoldsStateLock, Collecting
<1>6. Stateful' = Stateful
  BY <1>1 DEF Stateful, Stateless, InBarrier
<1>7. \A u \in Thread : pc'[u] \notin {"trapped", "retiring"}
  BY <1>1 DEF BarrierInv, InBarrier
<1>8. \A u \in Thread : gc_barrier'[u] <= 1 /\ (gc_barrier'[u] = 1 => pc'[u] \in InBarrier)
  BY <1>1, <1>2 DEF BarrierInv
<1>9. state_lock' = None => \A u \in Thread : ~InsideConsumed(u)'
  BY <1>3 DEF BarrierInv
<1>10. \A c \in Thread : state_lock' = c => \A u \in Thread \ {c} :
         /\ pc'[c] \in {"scan", "scan_wait"} => Quiet(u)' \/ ReachesBy(next', cursor', u)
         /\ pc'[c] \in {"collect", "finalize", "unlock"} => Quiet(u)'
         /\ pc'[c] = "unset" => /\ ReachesBy(next', cursor', u) => Quiet(u)'
                                /\ InsideConsumed(u)' => ReachesBy(next', cursor', u)
  BY <1>3, <1>4, <1>5 DEF BarrierInv
<1> QED
  BY <1>6, <1>7, <1>8, <1>9, <1>10 DEF BarrierInv

LEMMA BarrierNext == Punctual /\ PunctualInv /\ [Next]_vars => ListInv' /\ BarrierInv'
<1> SUFFICES ASSUME Punctual, PunctualInv, [Next]_vars PROVE ListInv' /\ BarrierInv'
  OBVIOUS
<1> DEFINE Goal == ListInv' /\ BarrierInv'
<1>0. /\ \A h, s \in Thread : ReachesBy(next, h, s) /\ s # h => ReachesBy(next, next[h], s)
      /\ \A h, s \in Thread : ReachesBy(next, next[h], s) => ReachesBy(next, h, s)
      /\ \A s \in Thread : ~ReachesBy(next, None, s)
  BY WalkOn, WalkBack, WalkStart DEF PunctualInv, LockInv, TypeOK
<1> USE TaskDispatchAssumption
    DEF PunctualInv, LockInv, TypeOK, CollectionsDoNotOverlap, HoldsGCLock, HoldsStateLock,
        StackInv, BarrierInv, Quiet, InsideConsumed, Stateful, InBarrier, Collecting,
        Releasing, Taskless, Stateless, listVars, gcdVars, lockVars, Goto, Signal, Consume,
        BarrierEnter, AtLiberty, PushTask, Take, HasTask
<1>1. ASSUME NEW t \in Thread, Poll(t) PROVE Goal
  <2>1. UNCHANGED listVars /\ Stateful' = Stateful
    BY <1>1 DEF Poll
  <2>2. BarrierInv'
    BY <1>0, <1>1 DEF Poll
  <2> QED
    BY <2>1, <2>2, ListFrame
<1>2. ASSUME NEW t \in Thread, TryLockGC(t) PROVE Goal
  <2>1. UNCHANGED listVars /\ Stateful' = Stateful
    BY <1>2 DEF TryLockGC
  <2>2. BarrierInv'
    BY <1>0, <1>2 DEF TryLockGC
  <2> QED
    BY <2>1, <2>2, ListFrame
<1>3. ASSUME NEW t \in Thread, EnterGCWait(t) PROVE Goal
  <2>1. UNCHANGED listVars /\ Stateful' = Stateful
    BY <1>3 DEF EnterGCWait
  <2>2. BarrierInv'
    BY <1>3, EnterKeepsBarrierInv DEF EnterGCWait
  <2> QED
    BY <2>1, <2>2, ListFrame
<1>4. ASSUME NEW t \in Thread, AwaitGCLock(t) PROVE Goal
  <2>1. UNCHANGED listVars /\ Stateful' = Stateful
    BY <1>4 DEF AwaitGCLock
  <2>2. BarrierInv'
    BY <1>0, <1>4 DEF AwaitGCLock
  <2> QED
    BY <2>1, <2>2, ListFrame
<1>5. ASSUME NEW t \in Thread, BarrierLeave(t) PROVE Goal
  <2>1. UNCHANGED listVars /\ Stateful' = Stateful
    BY <1>5 DEF BarrierLeave
  <2>2. BarrierInv'
    BY <1>0, <1>5 DEF BarrierLeave
  <2> QED
    BY <2>1, <2>2, ListFrame
<1>6. ASSUME NEW t \in Thread, SetBarriers(t) PROVE Goal
  <2>1. UNCHANGED listVars /\ Stateful' = Stateful
    BY <1>6 DEF SetBarriers
  <2>2. BarrierInv'
    BY <1>0, <1>6 DEF SetBarriers, ListInv
  <2> QED
    BY <2>1, <2>2, ListFrame
<1>7. ASSUME NEW t \in Thread, ScanCheck(t) PROVE Goal
  <2>1. UNCHANGED listVars /\ Stateful' = Stateful
    BY <1>7 DEF ScanCheck
  <2>2. BarrierInv'
    BY <1>0, <1>7 DEF ScanCheck, ListInv
  <2> QED
    BY <2>1, <2>2, ListFrame
<1>8. ASSUME NEW t \in Thread, ScanWait(t) PROVE Goal
  <2>1. UNCHANGED listVars /\ Stateful' = Stateful
    BY <1>8 DEF ScanWait
  <2>2. BarrierInv'
    BY <1>0, <1>8 DEF ScanWait, ListInv
  <2> QED
    BY <2>1, <2>2, ListFrame
<1>9. ASSUME NEW t \in Thread, BeginCollection(t) PROVE Goal
  <2>1. UNCHANGED listVars /\ Stateful' = Stateful
    BY <1>9 DEF BeginCollection
  <2>2. BarrierInv'
    BY <1>0, <1>9 DEF BeginCollection
  <2> QED
    BY <2>1, <2>2, ListFrame
<1>10. ASSUME NEW t \in Thread, NEW b \in Block, CollectDeferred(t, b) PROVE Goal
  <2>1. UNCHANGED listVars /\ Stateful' = Stateful
    BY <1>10 DEF CollectDeferred
  <2>2. BarrierInv'
    BY <1>0, <1>10 DEF CollectDeferred
  <2> QED
    BY <2>1, <2>2, ListFrame
<1>11. ASSUME NEW t \in Thread, FinalizeDeferred(t) PROVE Goal
  <2>1. UNCHANGED listVars /\ Stateful' = Stateful
    BY <1>11 DEF FinalizeDeferred
  <2>2. BarrierInv'
    BY <1>0, <1>11 DEF FinalizeDeferred
  <2> QED
    BY <2>1, <2>2, ListFrame
<1>12. ASSUME NEW t \in Thread, EndCollection(t) PROVE Goal
  <2>1. UNCHANGED listVars /\ Stateful' = Stateful
    BY <1>12 DEF EndCollection
  <2>2. BarrierInv'
    BY <1>0, <1>12 DEF EndCollection
  <2> QED
    BY <2>1, <2>2, ListFrame
<1>13. ASSUME NEW t \in Thread, UnlockGC(t) PROVE Goal
  <2>1. UNCHANGED listVars /\ Stateful' = Stateful
    BY <1>13 DEF UnlockGC
  <2>2. BarrierInv'
    BY <1>0, <1>13 DEF UnlockGC, ListInv
  <2> QED
    BY <2>1, <2>2, ListFrame
<1>14. ASSUME NEW t \in Thread, UnsetBarrier(t) PROVE Goal
  <2>1. UNCHANGED listVars /\ Stateful' = Stateful
    BY <1>14 DEF UnsetBarrier
  <2>2. BarrierInv'
    <3>1. /\ state_lock = t /\ cursor \in Thread /\ cursor' = next[cursor]
          /\ ~ReachesBy(next, cursor', cursor) /\ cursor' \in Stateful \cup {None}
      BY <1>14 DEF UnsetBarrier, ListInv
    <3>2. ReachesBy(next, cursor, cursor)
      BY <3>1, WalkStart
    <3>3. CASE cursor # t /\ depth[cursor] > 0
      <4>1. gc_barrier[cursor] = 0 /\ pc[cursor] \in InBarrier
        BY <3>1, <3>2, <3>3, <1>14 DEF UnsetBarrier
      <4>2. gc_barrier' = [gc_barrier EXCEPT ![cursor] = 1]
        BY <3>1, <3>3, <4>1, <1>14 DEF UnsetBarrier
      <4> QED
        BY <1>0, <1>14, <3>1, <3>3, <4>1, <4>2 DEF UnsetBarrier
    <3>4. CASE ~(cursor # t /\ depth[cursor] > 0)
      BY <1>0, <1>14, <3>1, <3>4 DEF UnsetBarrier
    <3> QED
      BY <3>3, <3>4
  <2> QED
    BY <2>1, <2>2, ListFrame
<1>15. ASSUME NEW t \in Thread, ReleaseState(t) PROVE Goal
  <2>1. UNCHANGED listVars /\ Stateful' = Stateful
    BY <1>15 DEF ReleaseState
  <2>2. BarrierInv'
    BY <1>0, <1>15 DEF ReleaseState
  <2> QED
    BY <2>1, <2>2, ListFrame
<1>16. ASSUME NEW t \in Thread, ResumeCollector(t) PROVE Goal
  <2>1. UNCHANGED listVars /\ Stateful' = Stateful
    BY <1>16 DEF ResumeCollector
  <2>2. BarrierInv'
    BY <1>0, <1>16 DEF ResumeCollector
  <2> QED
    BY <2>1, <2>2, ListFrame
<1>17. ASSUME NEW t \in Thread, NEW b \in Block, TakeBlock(t, b) PROVE Goal
  <2>1. UNCHANGED listVars /\ Stateful' = Stateful
    BY <1>17 DEF TakeBlock
  <2>2. BarrierInv'
    BY <1>0, <1>17 DEF TakeBlock
  <2> QED
    BY <2>1, <2>2, ListFrame
<1>18. ASSUME NEW t \in Thread, NEW o \in Thread, TakeIteration(t, o) PROVE Goal
  <2>1. UNCHANGED listVars /\ Stateful' = Stateful
    BY <1>18 DEF TakeIteration
  <2>2. BarrierInv'
    BY <1>0, <1>18 DEF TakeIteration
  <2> QED
    BY <2>1, <2>2, ListFrame
<1>19. ASSUME NEW t \in Thread, InitThread(t) PROVE Goal
  <2>1. ListInv'
    BY <1>19, ListPrepend
  <2>2. BarrierInv'
    BY <1>19 DEF InitThread, ListInv
  <2> QED
    BY <2>1, <2>2
<1>20. ASSUME NEW t \in Thread, StartTask(t) PROVE Goal
  <2>1. UNCHANGED listVars /\ Stateful' = Stateful
    BY <1>20 DEF StartTask
  <2>2. BarrierInv'
    BY <1>0, <1>20 DEF StartTask, Passed, Punctual, Reaches
  <2> QED
    BY <2>1, <2>2, ListFrame
<1>21. ASSUME NEW t \in Thread, FinishJob(t) PROVE Goal
  <2>1. UNCHANGED listVars /\ Stateful' = Stateful
    BY <1>21 DEF FinishJob
  <2>2. BarrierInv'
    BY <1>0, <1>21 DEF FinishJob
  <2> QED
    BY <2>1, <2>2, ListFrame
<1>22. ASSUME NEW t \in Thread, Retire(t) PROVE Goal
  BY <1>22 DEF Retire, Punctual
<1>23. ASSUME NEW t \in Thread, Unlink(t) PROVE Goal
  BY <1>23 DEF Unlink, Punctual
<1>24. ASSUME NEW t \in Thread, Defer(t) PROVE Goal
  <2>1. UNCHANGED listVars /\ Stateful' = Stateful
    BY <1>24 DEF Defer
  <2>2. BarrierInv'
    BY <1>24, EnterKeepsBarrierInv DEF Defer
  <2> QED
    BY <2>1, <2>2, ListFrame
<1>25. ASSUME NEW t \in Thread, NEW b \in Block, Submit(t, b) PROVE Goal
  <2>1. UNCHANGED listVars /\ Stateful' = Stateful
    BY <1>25 DEF Submit
  <2>2. BarrierInv'
    BY <1>0, <1>25 DEF Submit
  <2> QED
    BY <2>1, <2>2, ListFrame
<1>26. ASSUME NEW t \in Thread, NEW b \in Block, Await(t, b) PROVE Goal
  <2>1. UNCHANGED listVars /\ Stateful' = Stateful
    BY <1>26 DEF Await
  <2>2. BarrierInv'
    BY <1>0, <1>26 DEF Await
  <2> QED
    BY <2>1, <2>2, ListFrame
<1>27. ASSUME NEW t \in Thread, EndAwait(t) PROVE Goal
  <2>1. UNCHANGED listVars /\ Stateful' = Stateful
    BY <1>27 DEF EndAwait
  <2>2. BarrierInv'
    BY <1>0, <1>27 DEF EndAwait
  <2> QED
    BY <2>1, <2>2, ListFrame
<1>28. ASSUME NEW t \in Thread, NEW n \in 1..MaxWidth, Apply(t, n) PROVE Goal
  <2>1. UNCHANGED listVars /\ Stateful' = Stateful
    BY <1>28 DEF Apply
  <2>2. BarrierInv'
    BY <1>0, <1>28 DEF Apply
  <2> QED
    BY <2>1, <2>2, ListFrame
<1>29. ASSUME NEW t \in Thread, OwnIteration(t) PROVE Goal
  <2>1. UNCHANGED listVars /\ Stateful' = Stateful
    BY <1>29 DEF OwnIteration
  <2>2. BarrierInv'
    BY <1>0, <1>29 DEF OwnIteration
  <2> QED
    BY <2>1, <2>2, ListFrame
<1>30. ASSUME NEW t \in Thread, InlineIteration(t) PROVE Goal
  <2>1. UNCHANGED listVars /\ Stateful' = Stateful
    BY <1>30 DEF InlineIteration
  <2>2. BarrierInv'
    BY <1>0, <1>30 DEF InlineIteration
  <2> QED
    BY <2>1, <2>2, ListFrame
<1>31. ASSUME NEW t \in Thread, PopTask(t) PROVE Goal
  <2>1. UNCHANGED listVars /\ Stateful' = Stateful
    BY <1>31 DEF PopTask
  <2>2. BarrierInv'
    BY <1>0, <1>31 DEF PopTask
  <2> QED
    BY <2>1, <2>2, ListFrame
<1>32. ASSUME NEW t \in Thread, EndApply(t) PROVE Goal
  <2>1. UNCHANGED listVars /\ Stateful' = Stateful
    BY <1>32 DEF EndApply
  <2>2. BarrierInv'
    BY <1>0, <1>32 DEF EndApply
  <2> QED
    BY <2>1, <2>2, ListFrame
<1>33. ASSUME NEW t \in Thread, Symbol(t) PROVE Goal
  <2>1. UNCHANGED listVars /\ Stateful' = Stateful
    BY <1>33 DEF Symbol
  <2>2. BarrierInv'
    BY <1>0, <1>33 DEF Symbol
  <2> QED
    BY <2>1, <2>2, ListFrame
<1>34. ASSUME NEW t \in Thread, LockSymbols(t) PROVE Goal
  <2>1. UNCHANGED listVars /\ Stateful' = Stateful
    BY <1>34 DEF LockSymbols
  <2>2. BarrierInv'
    BY <1>0, <1>34 DEF LockSymbols
  <2> QED
    BY <2>1, <2>2, ListFrame
<1>35. ASSUME NEW t \in Thread, UnlockSymbols(t) PROVE Goal
  <2>1. UNCHANGED listVars /\ Stateful' = Stateful
    BY <1>35 DEF UnlockSymbols
  <2>2. BarrierInv'
    BY <1>0, <1>35 DEF UnlockSymbols
  <2> QED
    BY <2>1, <2>2, ListFrame
<1>36. ASSUME NEW t \in Thread, Trap(t) PROVE Goal
  BY <1>36, NoTrap
<1>37. CASE UNCHANGED vars
  BY <1>37, ListFrame DEF vars
<1> QED
  BY <1>1, <1>2, <1>3, <1>4, <1>5, <1>6, <1>7, <1>8, <1>9, <1>10, <1>11, <1>12, <1>13, <1>14, <1>15, <1>16, <1>17, <1>18, <1>19, <1>20, <1>21, <1>22, <1>23, <1>24, <1>25, <1>26, <1>27, <1>28, <1>29, <1>30, <1>31, <1>32, <1>33, <1>34, <1>35, <1>36, <1>37
  DEF Next, Safepoint, Barrier, Collect, Worker, Work

LEMMA PunctualNext == Punctual /\ PunctualInv /\ [Next]_vars => PunctualInv'
BY LockNext, StackNext, BarrierNext DEF PunctualInv

LEMMA PunctualInvariant ==
  ASSUME Punctual PROVE Spec => []PunctualInv
<1>1. Init => PunctualInv
  BY PunctualInit
<1>2. PunctualInv /\ [Next]_vars => PunctualInv'
  BY PunctualNext
<1> QED
  BY <1>1, <1>2, PTL DEF Spec

LEMMA PunctualStopped == PunctualInv => WorldIsStopped
<1> SUFFICES ASSUME PunctualInv, NEW c \in Thread, NEW t \in Thread,
                    pc[c] \in Collecting, t # c, depth[t] # 0
             PROVE  depth[t] \in hibernated[t]
  BY DEF WorldIsStopped
<1>1. pc[c] # "trapped" /\ pc[t] # "trapped" /\ state_lock = c
  BY DEF PunctualInv, BarrierInv, LockInv, CollectionsDoNotOverlap, HoldsStateLock
<1>2. InsideConsumed(t)
  BY <1>1 DEF PunctualInv, BarrierInv, Quiet, Collecting
<1>3. depth[t] \in Nat /\ depth[t] > 0 /\ pc[t] \in Hibernating
  BY <1>2 DEF PunctualInv, LockInv, TypeOK, InsideConsumed, Hibernating
<1> QED
  BY <1>1, <1>3 DEF PunctualInv, StackInv, HibernationMatchesControl

\* While a thread collects, every other thread of the process is without a task or
\* has a hibernated one, for any number of threads, if GCD starts no block on a
\* thread that the collector has passed and terminates no worker.
THEOREM StopsTheWorld ==
  ASSUME Punctual PROVE Spec => []WorldIsStopped
BY PunctualInvariant, PunctualStopped, PTL

LEMMA PunctualSignals == PunctualInv => SignalsBalance
<1> SUFFICES ASSUME PunctualInv, NEW t \in Thread, InsideConsumed(t)
             PROVE  \E c \in Thread \ {t} :
                      state_lock = c /\ (pc[c] = "unset" => Reaches(cursor, t))
  BY DEF SignalsBalance, PunctualInv, BarrierInv
<1>1. state_lock \in Thread
  BY DEF PunctualInv, BarrierInv, LockInv, TypeOK
<1>2. state_lock # t
  BY <1>1 DEF PunctualInv, BarrierInv, LockInv, CollectionsDoNotOverlap, HoldsStateLock,
     Collecting, InsideConsumed, InBarrier
<1> QED
  BY <1>1, <1>2 DEF PunctualInv, BarrierInv, Reaches

\* Under the same assumption the signals of the barriers balance: none is left over
\* for a later collection, and a thread whose signal was consumed is released.
THEOREM BarriersBalance ==
  ASSUME Punctual PROVE Spec => []SignalsBalance
BY PunctualInvariant, PunctualSignals, PTL

\* Under the same assumption with_each_thread_do meets every thread state.
THEOREM ListIsComplete ==
  ASSUME Punctual PROVE Spec => []EveryThreadIsListed
<1>1. PunctualInv => EveryThreadIsListed
  BY DEF PunctualInv, ListInv, EveryThreadIsListed, Stateful, Listed, Reaches
<1> QED
  BY <1>1, PunctualInvariant, PTL

-----------------------------------------------------------------------------
(* Punctual instances implement StopTheWorld.                              *)

\* The refinement mapping, read off the program counters.
MappingOK ==
  /\ LiveThreads = {t \in Thread : pc[t] \in Running}
  /\ \A c \in Thread : pc[c] \in Collecting => CollectorOf = c
  /\ (\A c \in Thread : pc[c] \notin Collecting) => CollectorOf = None

LEMMA Mapping == PunctualInv => MappingOK
<1> SUFFICES ASSUME PunctualInv PROVE MappingOK
  OBVIOUS
<1>1. ASSUME NEW t \in Thread PROVE t \in LiveThreads <=> pc[t] \in Running
  <2>1. depth[t] \in Nat /\ pc[t] \in Hibernating \cup Running \cup Taskless
    BY DEF PunctualInv, BarrierInv, LockInv, TypeOK, PC
  <2>2. CASE depth[t] = 0
    BY <2>2 DEF PunctualInv, BarrierInv, StackInv, LiveThreads, Running, Taskless
  <2>3. CASE depth[t] > 0
    <3>1. \A l \in 1..depth[t] : l # depth[t] => l \in hibernated[t]
      BY <2>1, <2>3 DEF PunctualInv, BarrierInv, StackInv, HibernationMatchesControl
    <3>2. t \in LiveThreads <=> depth[t] \notin hibernated[t]
      BY <2>1, <2>3, <3>1 DEF LiveThreads
    <3>3. depth[t] \notin hibernated[t] <=> pc[t] \notin Hibernating
      BY <2>3 DEF PunctualInv, BarrierInv, StackInv, HibernationMatchesControl
    <3>4. pc[t] \notin Taskless
      BY <2>3 DEF PunctualInv, BarrierInv, StackInv
    <3> QED
      BY <2>1, <3>2, <3>3, <3>4
         DEF Hibernating, Running, InBarrier, Collecting, Releasing
  <2> QED
    BY <2>1, <2>2, <2>3
<1>2. ASSUME NEW c \in Thread, NEW d \in Thread, pc[c] \in Collecting, pc[d] \in Collecting
      PROVE  c = d
  BY <1>2 DEF PunctualInv, LockInv, CollectionsDoNotOverlap, BarrierInv
<1>3. LiveThreads = {t \in Thread : pc[t] \in Running}
  BY <1>1 DEF LiveThreads
<1> QED
  BY <1>2, <1>3 DEF MappingOK, CollectorOf

\* A step that moves no thread into or out of Running or Collecting is invisible.
LEMMA Invisible ==
  ASSUME MappingOK, MappingOK',
         \A t \in Thread : /\ pc'[t] \in Running <=> pc[t] \in Running
                           /\ pc'[t] \in Collecting <=> pc[t] \in Collecting
  PROVE  UNCHANGED <<LiveThreads, CollectorOf>>
BY DEF MappingOK

LEMMA Stops ==
  ASSUME MappingOK, MappingOK', TypeOK, NEW t \in Thread, NEW l, Goto(t, l),
         pc[t] \in Running, l \notin Running \cup Collecting
  PROVE  Abstract!Stop(t)
<1>1. pc' = [pc EXCEPT ![t] = l] /\ pc[t] \notin Collecting /\ pc'[t] = l
  BY DEF Goto, TypeOK, Running, Collecting
<1>2. LiveThreads' = LiveThreads \ {t} /\ t \in LiveThreads
  BY <1>1 DEF MappingOK, TypeOK
<1>3. CollectorOf' = CollectorOf
  BY <1>1 DEF MappingOK, TypeOK
<1> QED
  BY <1>2, <1>3 DEF Abstract!Stop

LEMMA Goes ==
  ASSUME MappingOK, MappingOK', TypeOK, NEW t \in Thread, Goto(t, "run"),
         pc[t] \notin Running, \A c \in Thread : pc[c] \notin Collecting
  PROVE  Abstract!Go(t)
<1>1. pc' = [pc EXCEPT ![t] = "run"] /\ "run" \in Running /\ "run" \notin Collecting
  BY DEF Goto, Running, Collecting
<1>2. LiveThreads' = LiveThreads \cup {t} /\ t \notin LiveThreads
  BY <1>1 DEF MappingOK, TypeOK
<1>3. CollectorOf = None /\ CollectorOf' = None
  BY <1>1 DEF MappingOK, TypeOK
<1> QED
  BY <1>2, <1>3 DEF Abstract!Go

\* While a thread collects, all others are quiet.
LEMMA CollectingIsQuiet ==
  ASSUME PunctualInv, NEW c \in Thread, pc[c] \in Collecting, NEW t \in Thread, t # c
  PROVE  Quiet(t)
BY DEF PunctualInv, BarrierInv, LockInv, CollectionsDoNotOverlap, HoldsStateLock, Collecting

LEMMA AbstractNext ==
  Punctual /\ PunctualInv /\ PunctualInv' /\ [Next]_vars =>
    Abstract!Next \/ UNCHANGED <<LiveThreads, CollectorOf>>
<1> DEFINE Visible == Abstract!Next \/ UNCHANGED <<LiveThreads, CollectorOf>>
<1> SUFFICES ASSUME Punctual, PunctualInv, PunctualInv', [Next]_vars PROVE Visible
  OBVIOUS
<1>0. MappingOK /\ MappingOK'
  <2>1. MappingOK
    BY Mapping
  <2>2. PunctualInv' => MappingOK'
    BY Mapping, PTL
  <2> QED
    BY <2>1, <2>2
<1>q. TypeOK /\ \A t \in Thread : (pc[t] \in Taskless <=> depth[t] = 0) /\ pc[t] # "trapped"
  BY DEF PunctualInv, LockInv, StackInv, BarrierInv
<1> USE DEF AtLiberty, Goto, Running, Collecting
<1>1. ASSUME NEW t \in Thread, Poll(t) PROVE Visible
  <2>1. PICK c \in Thread : state_lock = c
    BY <1>1 DEF Poll, PunctualInv, LockInv, TypeOK, BarrierInv
  <2>2. pc[c] \in Collecting /\ c # t /\ ~Quiet(t)
    BY <1>1, <1>q, <2>1 DEF Poll, PunctualInv, LockInv, CollectionsDoNotOverlap, Quiet,
       InsideConsumed, InBarrier, Taskless
  <2> QED
    BY <2>2, CollectingIsQuiet
<1>2. ASSUME NEW t \in Thread, TryLockGC(t) PROVE Visible
  BY <1>0, <1>q, <1>2, Invisible DEF TryLockGC, PushTask, Take, TypeOK
<1>3. ASSUME NEW t \in Thread, EnterGCWait(t) PROVE Visible
  BY <1>0, <1>q, <1>3, Stops DEF EnterGCWait, Abstract!Next
<1>4. ASSUME NEW t \in Thread, AwaitGCLock(t) PROVE Visible
  BY <1>0, <1>q, <1>4, Invisible DEF AwaitGCLock, PushTask, Take, TypeOK
<1>5. ASSUME NEW t \in Thread, BarrierLeave(t) PROVE Visible
  <2>1. \A c \in Thread : pc[c] \notin Collecting
    <3>1. ~Quiet(t)
      BY <1>q, <1>5 DEF BarrierLeave, Quiet, InsideConsumed, InBarrier, Consume, Taskless, TypeOK
    <3> QED
      BY <1>5, <3>1, CollectingIsQuiet DEF BarrierLeave
  <2> QED
    BY <1>0, <1>q, <1>5, <2>1, Goes DEF BarrierLeave, Abstract!Next
<1>6. ASSUME NEW t \in Thread, SetBarriers(t) PROVE Visible
  BY <1>0, <1>q, <1>6, Invisible DEF SetBarriers, PushTask, Take, TypeOK
<1>7. ASSUME NEW t \in Thread, ScanCheck(t) PROVE Visible
  BY <1>0, <1>q, <1>7, Invisible DEF ScanCheck, PushTask, Take, TypeOK
<1>8. ASSUME NEW t \in Thread, ScanWait(t) PROVE Visible
  BY <1>0, <1>q, <1>8, Invisible DEF ScanWait, PushTask, Take, TypeOK
<1>9. ASSUME NEW t \in Thread, BeginCollection(t) PROVE Visible
  <2>1. pc' = [pc EXCEPT ![t] = "collect"] /\ pc[t] = "scan" /\ state_lock = t
    BY <1>q, <1>9 DEF BeginCollection, PunctualInv, LockInv, CollectionsDoNotOverlap,
       HoldsStateLock
  <2>2. \A u \in Thread \ {t} : pc[u] \notin Running
    <3> SUFFICES ASSUME NEW u \in Thread \ {t}, pc[u] \in Running PROVE FALSE
      OBVIOUS
    <3>1. ~Quiet(u)
      BY <1>q DEF Quiet, InsideConsumed, InBarrier, Taskless
    <3> QED
      BY <1>9, <2>1, <3>1, WalkStart DEF BeginCollection, PunctualInv, BarrierInv
  <2>3. \A c \in Thread : pc[c] \notin Collecting
    BY <1>q, <2>1 DEF PunctualInv, LockInv, CollectionsDoNotOverlap
  <2>4. LiveThreads = {t} /\ LiveThreads' = {}
    BY <1>0, <1>q, <2>1, <2>2 DEF MappingOK, TypeOK
  <2>5. CollectorOf = None /\ CollectorOf' = t
    BY <1>0, <1>q, <2>1, <2>3 DEF MappingOK, TypeOK
  <2> QED
    BY <2>4, <2>5 DEF Abstract!Begin, Abstract!Next
<1>10. ASSUME NEW t \in Thread, NEW b \in Block, CollectDeferred(t, b) PROVE Visible
  BY <1>0, <1>q, <1>10, Invisible DEF CollectDeferred, PushTask, Take, TypeOK
<1>11. ASSUME NEW t \in Thread, FinalizeDeferred(t) PROVE Visible
  BY <1>0, <1>q, <1>11, Invisible DEF FinalizeDeferred, PushTask, Take, TypeOK
<1>12. ASSUME NEW t \in Thread, EndCollection(t) PROVE Visible
  <2>1. pc' = [pc EXCEPT ![t] = "unlock"] /\ pc[t] = "collect"
    BY <1>12 DEF EndCollection
  <2>2. \A c \in Thread : pc'[c] \notin Collecting
    BY <1>q, <2>1 DEF PunctualInv, LockInv, CollectionsDoNotOverlap, TypeOK
  <2>3. LiveThreads' = LiveThreads
    BY <1>0, <1>q, <2>1 DEF MappingOK, TypeOK
  <2>4. CollectorOf = t /\ CollectorOf' = None /\ t # None
    BY <1>0, <2>1, <2>2, TaskDispatchAssumption DEF MappingOK
  <2> QED
    BY <2>3, <2>4 DEF Abstract!End, Abstract!Next
<1>13. ASSUME NEW t \in Thread, UnlockGC(t) PROVE Visible
  BY <1>0, <1>q, <1>13, Invisible DEF UnlockGC, PushTask, Take, TypeOK
<1>14. ASSUME NEW t \in Thread, UnsetBarrier(t) PROVE Visible
  BY <1>0, <1>q, <1>14, Invisible DEF UnsetBarrier, PushTask, Take, TypeOK
<1>15. ASSUME NEW t \in Thread, ReleaseState(t) PROVE Visible
  BY <1>0, <1>q, <1>15, Invisible DEF ReleaseState, PushTask, Take, TypeOK
<1>16. ASSUME NEW t \in Thread, ResumeCollector(t) PROVE Visible
  <2>1. \A c \in Thread : pc[c] \notin Collecting
    <3>1. ~Quiet(t)
      BY <1>q, <1>16 DEF ResumeCollector, Quiet, InsideConsumed, InBarrier, Consume, Taskless, TypeOK
    <3> QED
      BY <1>16, <3>1, CollectingIsQuiet DEF ResumeCollector
  <2> QED
    BY <1>0, <1>q, <1>16, <2>1, Goes DEF ResumeCollector, Abstract!Next
<1>17. ASSUME NEW t \in Thread, NEW b \in Block, TakeBlock(t, b) PROVE Visible
  BY <1>0, <1>q, <1>17, Invisible DEF TakeBlock, PushTask, Take, TypeOK
<1>18. ASSUME NEW t \in Thread, NEW o \in Thread, TakeIteration(t, o) PROVE Visible
  BY <1>0, <1>q, <1>18, Invisible DEF TakeIteration, PushTask, Take, TypeOK
<1>19. ASSUME NEW t \in Thread, InitThread(t) PROVE Visible
  BY <1>0, <1>q, <1>19, Invisible DEF InitThread, PushTask, Take, TypeOK
<1>20. ASSUME NEW t \in Thread, StartTask(t) PROVE Visible
  <2>1. \A c \in Thread : pc[c] \notin Collecting
    BY <1>q, <1>20 DEF StartTask, Punctual, Passed, PunctualInv, LockInv,
       CollectionsDoNotOverlap, HoldsStateLock, TypeOK
  <2> QED
    BY <1>0, <1>q, <1>20, <2>1, Goes DEF StartTask, Abstract!Next
<1>21. ASSUME NEW t \in Thread, FinishJob(t) PROVE Visible
  BY <1>0, <1>q, <1>21, Stops DEF FinishJob, Abstract!Next
<1>22. ASSUME NEW t \in Thread, Retire(t) PROVE Visible
  BY <1>22 DEF Retire, Punctual
<1>23. ASSUME NEW t \in Thread, Unlink(t) PROVE Visible
  BY <1>23 DEF Unlink, PunctualInv, BarrierInv
<1>24. ASSUME NEW t \in Thread, Defer(t) PROVE Visible
  BY <1>0, <1>q, <1>24, Stops DEF Defer, Abstract!Next
<1>25. ASSUME NEW t \in Thread, NEW b \in Block, Submit(t, b) PROVE Visible
  BY <1>0, <1>q, <1>25, Invisible DEF Submit, PushTask, Take, TypeOK
<1>26. ASSUME NEW t \in Thread, NEW b \in Block, Await(t, b) PROVE Visible
  BY <1>0, <1>q, <1>26, Invisible DEF Await, PushTask, Take, TypeOK
<1>27. ASSUME NEW t \in Thread, EndAwait(t) PROVE Visible
  BY <1>0, <1>q, <1>27, Invisible DEF EndAwait, PushTask, Take, TypeOK
<1>28. ASSUME NEW t \in Thread, NEW n \in 1..MaxWidth, Apply(t, n) PROVE Visible
  BY <1>0, <1>q, <1>28, Invisible DEF Apply, PushTask, Take, TypeOK
<1>29. ASSUME NEW t \in Thread, OwnIteration(t) PROVE Visible
  BY <1>0, <1>q, <1>29, Invisible DEF OwnIteration, PushTask, Take, TypeOK
<1>30. ASSUME NEW t \in Thread, InlineIteration(t) PROVE Visible
  BY <1>0, <1>q, <1>30, Invisible DEF InlineIteration, PushTask, Take, TypeOK
<1>31. ASSUME NEW t \in Thread, PopTask(t) PROVE Visible
  BY <1>0, <1>q, <1>31, Invisible DEF PopTask, PushTask, Take, TypeOK
<1>32. ASSUME NEW t \in Thread, EndApply(t) PROVE Visible
  BY <1>0, <1>q, <1>32, Invisible DEF EndApply, PushTask, Take, TypeOK
<1>33. ASSUME NEW t \in Thread, Symbol(t) PROVE Visible
  BY <1>0, <1>q, <1>33, Invisible DEF Symbol, PushTask, Take, TypeOK
<1>34. ASSUME NEW t \in Thread, LockSymbols(t) PROVE Visible
  BY <1>0, <1>q, <1>34, Invisible DEF LockSymbols, PushTask, Take, TypeOK
<1>35. ASSUME NEW t \in Thread, UnlockSymbols(t) PROVE Visible
  BY <1>0, <1>q, <1>35, Invisible DEF UnlockSymbols, PushTask, Take, TypeOK
<1>36. ASSUME NEW t \in Thread, Trap(t) PROVE Visible
  BY <1>36, NoTrap
<1>37. CASE UNCHANGED vars
  BY <1>0, <1>37, Invisible DEF vars
<1> QED
  BY <1>1, <1>2, <1>3, <1>4, <1>5, <1>6, <1>7, <1>8, <1>9, <1>10, <1>11, <1>12, <1>13, <1>14, <1>15, <1>16, <1>17, <1>18, <1>19, <1>20, <1>21, <1>22, <1>23, <1>24, <1>25, <1>26, <1>27, <1>28, <1>29, <1>30, <1>31, <1>32, <1>33, <1>34, <1>35, <1>36, <1>37
  DEF Next, Safepoint, Barrier, Collect, Worker, Work

LEMMA AbstractInit == Init => Abstract!Init
<1> SUFFICES ASSUME Init PROVE Abstract!Init
  OBVIOUS
<1>1. MappingOK
  BY PunctualInit, Mapping
<1>2. LiveThreads = {Main}
  BY <1>1, TaskDispatchAssumption DEF MappingOK, Init, Running
<1>3. CollectorOf = None
  BY <1>1 DEF MappingOK, Init, Collecting
<1> QED
  BY <1>2, <1>3, TaskDispatchAssumption DEF Abstract!Init

\* The barrier protocol implements StopTheWorld, for any number of threads, under the
\* same assumption on GCD.
THEOREM Refinement ==
  ASSUME Punctual PROVE Spec => ImplementsStopTheWorld
<1>1. Init => Abstract!Init
  BY AbstractInit
<1>2. PunctualInv /\ PunctualInv' /\ [Next]_vars =>
        [Abstract!Next]_<<LiveThreads, CollectorOf>>
  BY AbstractNext
<1>3. Spec => []PunctualInv
  BY PunctualInvariant
<1> QED
  BY <1>1, <1>2, <1>3, PTL DEF Spec, ImplementsStopTheWorld, Abstract!Spec

\* Under the same assumption snow_gc_barrier_leave returns only when no collection is
\* in progress, as task.h:38-40 promises.
THEOREM LeaveWaits ==
  ASSUME Punctual PROVE Spec => LeaveWaitsForCollection
<1> DEFINE Step ==
      is_collecting => \A t \in Thread : pc[t] = "barrier_leave" => pc'[t] # "run"
<1>1. PunctualInv /\ PunctualInv' /\ [Next]_vars => [Step]_vars
  <2> SUFFICES ASSUME PunctualInv, PunctualInv', Next, is_collecting,
                      NEW t \in Thread, pc[t] = "barrier_leave", pc'[t] = "run"
               PROVE  FALSE
    OBVIOUS
  <2>1. state_lock \in Thread
    BY DEF PunctualInv, LockInv, TypeOK, BarrierInv
  <2>2. pc[state_lock] \in Collecting
    BY <2>1 DEF PunctualInv, LockInv, CollectionsDoNotOverlap, BarrierInv
  <2>3. MappingOK /\ MappingOK'
    <3>1. PunctualInv' => MappingOK'
      BY Mapping, PTL
    <3> QED
      BY <3>1, Mapping
  <2>4. CollectorOf \in Thread /\ CollectorOf # None
    BY <2>1, <2>2, <2>3, TaskDispatchAssumption DEF MappingOK
  <2>5. t \notin LiveThreads /\ t \in LiveThreads'
    BY <2>3 DEF MappingOK, Running
  <2>6. Abstract!Next
    BY <2>5, AbstractNext
  <2> QED
    BY <2>4, <2>5, <2>6
       DEF Abstract!Next, Abstract!End, Abstract!Stop, Abstract!Go, Abstract!Begin
<1> QED
  BY <1>1, PunctualInvariant, PTL DEF Spec, LeaveWaitsForCollection
=============================================================================
