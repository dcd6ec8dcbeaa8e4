----------------------------- MODULE PagesProofs -----------------------------
(***************************************************************************)
(* Theorems about what is allocated by the page, the stacks and the link   *)
(* buffers: Continuations and LinkBuffer.                                  *)
(*                                                                         *)
(* Continuations, for any number of continuations, stacks and tries.       *)
(* The inductive invariant says of the functions that are live, callers    *)
(* first, that each is waited for by the call that created it (Waits), and *)
(* that none of them is waited for by the current continuation, in which   *)
(* the next call saves its registers: also after a throw has left the      *)
(* current continuation behind.                                            *)
(*                                                                         *)
(* Link buffers, for pages and patches of any size: all pages but the last *)
(* are full, so that an offset has its page and its place there, and the   *)
(* buffer is one sequence of bytes, on which each operation is the one     *)
(* that ByteSequence promises.                                             *)
(***************************************************************************)
EXTENDS Continuations, LinkBuffer, FiniteSetTheorems, SequenceLemmas

(***************************************************************************)
(* Continuations                                                           *)
(***************************************************************************)
\* The names of the model: continuations are numbered.
NamesAreNoNumbers == Base \notin Nat /\ NullPointer \notin Nat /\ Base # NullPointer

\* No program throws past continuations and collects them, or calls and aborts:
\* the first ends in an assertion (continuation.c:41), for the second see run
\* continuation_abort.
ProgramsBehave ==
  \A p \in TaskPrograms : ~({"throw", "collect"} \subseteq p) /\ ~({"call", "abort"} \subseteq p)

Continuation == DOMAIN running

ContinuationTypes ==
  /\ task_program \in TaskPrograms
  /\ status \in {"running", "resuming", "ended", "aborted"}
  /\ exception \in BOOLEAN
  /\ \E n \in Nat : Continuation = {Base} \cup 1 .. n
  /\ running \in [Continuation -> BOOLEAN]
  /\ return_to \in [Continuation -> Continuation \cup {NullPointer}]
  /\ please_clean \in [Continuation -> Continuation \cup {NullPointer}]
  /\ saved \in [Continuation -> [on : Continuation, callee : Continuation \cup {NullPointer}]]
  /\ at \in Continuation /\ current \in Continuation
  /\ handlers \in Seq(Continuation) /\ live \in Seq(Continuation)

(***************************************************************************)
(* Stacks                                                                  *)
(***************************************************************************)
StacksInv ==
  /\ pages \in Nat /\ free \in Seq(1 .. pages)
  /\ own_stack \in [Continuation -> (1 .. pages) \cup {NullPointer}]
  /\ \A c, d \in Created : own_stack[c] # NullPointer /\ own_stack[c] = own_stack[d] => c = d
  /\ \A c \in Created : \A k \in DOMAIN free : own_stack[c] # free[k]
  /\ \A k, l \in DOMAIN free : free[k] = free[l] => k = l
  /\ \A k \in 2 .. Len(live) : own_stack[live[k]] # NullPointer

(***************************************************************************)
(* Calls                                                                   *)
(***************************************************************************)
\* Whom a continuation returns to was there before it, and its call is what was
\* saved there last, if anything was.
CallersInv ==
  /\ running[Base] = TRUE
  /\ \A c \in Created : return_to[c] = Base \/ (return_to[c] \in Created /\ return_to[c] < c)
  /\ \A c \in Continuation : saved[c].callee # NullPointer =>
       saved[c].callee \in Created /\ return_to[saved[c].callee] = c

\* Live functions are in the order of their calls, on the last one's stack.
LiveInv ==
  status # "aborted" =>
    /\ Len(live) >= 1 /\ live[1] = Base
    /\ \A k \in 2 .. Len(live) : live[k] \in Created
    /\ \A k, l \in 2 .. Len(live) : k < l => live[k] < live[l]

HandlersInv ==
  status # "aborted" =>
    /\ \A h \in DOMAIN handlers : \E k \in DOMAIN live : handlers[h] = live[k]
    /\ \A g, h \in DOMAIN handlers : \A k, l \in DOMAIN live :
         g <= h /\ handlers[g] = live[k] /\ handlers[h] = live[l] => k <= l

Waits(k) ==
  LET caller == return_to[live[k]]
  IN saved[caller] = [on |-> live[k - 1], callee |-> live[k]] /\ running[caller] = TRUE

\* Between Return and CameBack.
Returning ==
  /\ Len(live) >= 2
  /\ current = return_to[at] /\ please_clean[current] = at /\ running[at] = FALSE
  /\ \A h \in DOMAIN handlers : handlers[h] # at

\* Between ThrowUnhandled and what follows.
Aborting == exception = TRUE /\ current = Base /\ handlers = <<>>

WaitInv ==
  /\ status \in {"running", "resuming"} =>
       at = live[Len(live)] /\ \A k \in 2 .. Len(live) : Waits(k)
  /\ status = "running" =>
       running[current] = TRUE /\ \A k \in 2 .. Len(live) : return_to[live[k]] # current
  /\ status = "resuming" =>
       Returning \/ (Aborting /\ \A c \in Continuation : please_clean[c] = NullPointer)
  /\ \A c \in Continuation : please_clean[c] # NullPointer => status = "resuming" /\ c = current

TaskInv == ContinuationTypes /\ StacksInv /\ CallersInv /\ LiveInv /\ HandlersInv /\ WaitInv

\* What programs that behave do.
SafeInv ==
  /\ status # "aborted"
  /\ "call" \notin task_program => Continuation = {Base} /\ saved[Base].callee = NullPointer
  /\ exception = TRUE => "abort" \in task_program /\ status # "running"
  /\ "throw" \notin task_program =>
       \A c \in Created : running[c] = FALSE \/ \E k \in DOMAIN live : live[k] = c

(***************************************************************************)
(* Lemmas                                                                  *)
(***************************************************************************)
\* Where an element is in a sequence, as CameBack and Throw look for it.
Place(s, e) == SelectInSeq(s, LAMBDA l : l = e)

LEMMA PlaceFound ==
  ASSUME NEW S, NEW s \in Seq(S), NEW e, NEW k \in DOMAIN s, s[k] = e,
         \A j \in DOMAIN s : s[j] = e => j = k
  PROVE  Place(s, e) = k
<1> DEFINE I == {j \in 1 .. Len(s) : s[j] = e}
<1>1. I = {k}
  OBVIOUS
<1>2. Min(I) = k
  BY <1>1 DEF Min
<1> QED  BY <1>1, <1>2 DEF Place, SelectInSeq

LEMMA PlaceOrNone ==
  ASSUME NEW S, NEW s \in Seq(S), NEW e,
         \A j, k \in DOMAIN s : s[j] = s[k] => j = k
  PROVE  \/ Place(s, e) = 0
         \/ Place(s, e) \in DOMAIN s /\ s[Place(s, e)] = e
<1> DEFINE I == {j \in 1 .. Len(s) : s[j] = e}
<1>1. CASE I = {}
  BY <1>1 DEF Place, SelectInSeq
<1>2. CASE I # {}
  <2>1. PICK k \in DOMAIN s : s[k] = e
    BY <1>2
  <2> QED  BY <2>1, PlaceFound
<1> QED  BY <1>1, <1>2

\* What remains of the live functions, after CameBack or Throw.
LEMMA Prefix ==
  ASSUME NEW S, NEW s \in Seq(S), NEW k \in 0 .. Len(s)
  PROVE  /\ SubSeq(s, 1, k) \in Seq(S)
         /\ Len(SubSeq(s, 1, k)) = k
         /\ \A j \in 1 .. k : SubSeq(s, 1, k)[j] = s[j]
OBVIOUS

\* No function is live twice.
LEMMA LiveOnce ==
  ASSUME NamesAreNoNumbers, ContinuationTypes, LiveInv, status # "aborted"
  PROVE  \A j, k \in DOMAIN live : live[j] = live[k] => j = k
<1>1. Len(live) \in Nat /\ DOMAIN live = 1 .. Len(live)
  BY DEF ContinuationTypes
<1>2. Created \subseteq Nat /\ Base \notin Created
  BY DEF ContinuationTypes, Continuation, Created
<1>3. ASSUME NEW j \in DOMAIN live, NEW k \in DOMAIN live, j < k PROVE live[j] # live[k]
  <2>0. live[1] = Base /\ \A m \in 2 .. Len(live) : live[m] \in Created
    BY DEF LiveInv
  <2>1. k \in 2 .. Len(live) /\ live[k] \in Created /\ live[k] \in Nat
    <3>1. k \in 2 .. Len(live)
      BY <1>1, <1>3
    <3> QED  BY <3>1, <2>0, <1>2
  <2>2. CASE j = 1
    BY <2>0, <2>1, <2>2, <1>2
  <2>3. CASE j # 1
    <3>0. j \in 2 .. Len(live)
      BY <2>3, <1>1
    <3>1. j \in 2 .. Len(live) /\ live[j] \in Nat
      BY <2>0, <3>0, <1>2
    <3>2. live[j] < live[k]
      BY <3>1, <2>1, <1>3 DEF LiveInv
    <3> QED  BY <3>1, <3>2, <2>1
  <2> QED  BY <2>2, <2>3
<1> QED  BY <1>1, <1>3

(***************************************************************************)
(* Steps                                                                   *)
(***************************************************************************)
LEMMA TaskInit ==
  ASSUME NamesAreNoNumbers, ContinuationsInit
  PROVE  TaskInv
<1>1. ContinuationTypes
  <2>1. Continuation = {Base} \cup 1 .. 0 /\ 0 \in Nat
    BY DEF ContinuationsInit, Continuation
  <2>2. \E n \in Nat : Continuation = {Base} \cup 1 .. n
    BY <2>1
  <2>3. Continuation = {Base}
    BY <2>1
  <2>4. live \in Seq(Continuation) /\ handlers \in Seq(Continuation)
    BY <2>3 DEF ContinuationsInit
  <2> QED  BY <2>2, <2>3, <2>4 DEF ContinuationsInit, ContinuationTypes
<1>2. Created = {}
  BY DEF ContinuationsInit, Created
<1>3. StacksInv
  BY <1>2 DEF ContinuationsInit, StacksInv, Continuation
<1>4. CallersInv
  BY <1>2 DEF ContinuationsInit, CallersInv, Continuation
<1>5. LiveInv /\ HandlersInv
  BY DEF ContinuationsInit, LiveInv, HandlersInv
<1>6. WaitInv
  BY DEF ContinuationsInit, WaitInv, Continuation, Waits
<1> QED  BY <1>1, <1>3, <1>4, <1>5, <1>6 DEF TaskInv

LEMMA TaskStutters ==
  ASSUME TaskInv, UNCHANGED continuation_vars
  PROVE  TaskInv'
BY ZenonT(60) DEF TaskInv, continuation_vars, members, allocator, ContinuationTypes, StacksInv, CallersInv, LiveInv,
       HandlersInv, WaitInv, Waits, Returning, Aborting, Continuation, Created

\* The invariants of the stacks and of the callers, when continuations and
\* stacks stay what they are.
LEMMA TaskKeeps ==
  ASSUME StacksInv, CallersInv, UNCHANGED <<running, return_to, own_stack, saved, allocator, live>>
  PROVE  StacksInv' /\ CallersInv'
BY DEF StacksInv, CallersInv, allocator, Continuation, Created

LEMMA TaskAborts ==
  ASSUME TaskInv, Abort, \A c \in Continuation : please_clean[c] = NullPointer
  PROVE  TaskInv'
<1>1. StacksInv' /\ CallersInv'
  BY TaskKeeps DEF Abort, members, TaskInv
<1>2. ContinuationTypes'
  BY DEF TaskInv, ContinuationTypes, Abort, members, Continuation
<1>3. LiveInv' /\ HandlersInv' /\ WaitInv'
  BY DEF TaskInv, LiveInv, HandlersInv, WaitInv, Abort, members, Continuation
<1> QED  BY <1>1, <1>2, <1>3 DEF TaskInv

LEMMA TaskTaskEnds ==
  ASSUME NamesAreNoNumbers, TaskInv, TaskEnds
  PROVE  TaskInv'
<1>1. StacksInv' /\ CallersInv'
  BY TaskKeeps DEF TaskEnds, members, TaskInv
<1>2. ContinuationTypes'
  BY DEF TaskInv, ContinuationTypes, TaskEnds, members, Continuation
<1>3. LiveInv' /\ HandlersInv'
  BY DEF TaskInv, LiveInv, HandlersInv, TaskEnds, members, Created
<1>4. ~Returning
  <2> SUFFICES ASSUME Returning PROVE FALSE
    OBVIOUS
  <2>1. Len(live) \in 2 .. Len(live) /\ live[Len(live)] = at
    BY DEF TaskInv, ContinuationTypes, WaitInv, TaskEnds, Returning
  <2>2. saved[current].callee = at
    <3>1. Waits(Len(live))
      BY <2>1 DEF TaskInv, WaitInv, TaskEnds
    <3>2. return_to[live[Len(live)]] = current
      BY <2>1 DEF Returning
    <3>3. saved[current] = [on |-> live[Len(live) - 1], callee |-> at]
      BY <3>1, <3>2, <2>1 DEF Waits
    <3> QED  BY <3>3
  <2>3. at # NullPointer
    BY DEF NamesAreNoNumbers, TaskInv, ContinuationTypes
  <2> QED  BY <2>2, <2>3 DEF TaskEnds
<1>5. WaitInv'
  BY <1>4 DEF TaskInv, WaitInv, TaskEnds, members, Continuation
<1> QED  BY <1>1, <1>2, <1>3, <1>5 DEF TaskInv

LEMMA TaskBeginTry ==
  ASSUME NamesAreNoNumbers, TaskInv, BeginTry
  PROVE  TaskInv'
<1>1. StacksInv' /\ CallersInv'
  BY TaskKeeps DEF BeginTry, members, TaskInv
<1>2. ContinuationTypes'
  <2>1. handlers' \in Seq(Continuation)
    BY DEF TaskInv, ContinuationTypes, BeginTry
  <2> QED  BY <2>1 DEF TaskInv, ContinuationTypes, BeginTry, members, Continuation
<1>3. LiveInv'
  BY DEF TaskInv, LiveInv, BeginTry, members, Created
<1>4. WaitInv'
  BY DEF TaskInv, WaitInv, BeginTry, Does, members, Continuation, Waits
<1>5. HandlersInv'
  <2>1. /\ handlers \in Seq(Continuation) /\ live \in Seq(Continuation)
        /\ status = "running" /\ Len(live) >= 1 /\ at = live[Len(live)]
    BY DEF TaskInv, ContinuationTypes, WaitInv, LiveInv, BeginTry, Does
  <2>2. \A j, k \in DOMAIN live : live[j] = live[k] => j = k
    BY <2>1, LiveOnce DEF TaskInv
  <2> SUFFICES /\ \A h \in DOMAIN handlers' : \E k \in DOMAIN live : handlers'[h] = live[k]
               /\ \A g, h \in DOMAIN handlers' : \A k, l \in DOMAIN live :
                    g <= h /\ handlers'[g] = live[k] /\ handlers'[h] = live[l] => k <= l
    BY DEF HandlersInv, BeginTry
  <2>3. /\ DOMAIN handlers' = 1 .. Len(handlers) + 1
        /\ handlers'[Len(handlers) + 1] = at
        /\ \A h \in DOMAIN handlers : handlers'[h] = handlers[h]
        /\ DOMAIN handlers = 1 .. Len(handlers) /\ Len(handlers) \in Nat
        /\ DOMAIN live = 1 .. Len(live) /\ Len(live) \in Nat
    BY <2>1 DEF BeginTry
  <2>4. \A h \in DOMAIN handlers' : \E k \in DOMAIN live : handlers'[h] = live[k]
    BY <2>1, <2>3 DEF HandlersInv, TaskInv
  <2>5. ASSUME NEW g \in DOMAIN handlers', NEW h \in DOMAIN handlers',
               NEW k \in DOMAIN live, NEW l \in DOMAIN live,
               g <= h, handlers'[g] = live[k], handlers'[h] = live[l]
        PROVE  k <= l
    <3>1. CASE h = Len(handlers) + 1
      <4>1. l = Len(live)
        BY <3>1, <2>1, <2>2, <2>3, <2>5
      <4> QED  BY <4>1, <2>3
    <3>2. CASE h # Len(handlers) + 1
      <4>1. g \in DOMAIN handlers /\ h \in DOMAIN handlers
        BY <3>2, <2>3, <2>5
      <4> QED  BY <4>1, <2>1, <2>3, <2>5 DEF HandlersInv, TaskInv
    <3> QED  BY <3>1, <3>2
  <2> QED  BY <2>4, <2>5
<1> QED  BY <1>1, <1>2, <1>3, <1>4, <1>5 DEF TaskInv

LEMMA TaskEndTry ==
  ASSUME NamesAreNoNumbers, TaskInv, EndTry
  PROVE  TaskInv'
<1>0. /\ handlers \in Seq(Continuation) /\ handlers # <<>> /\ handlers' = Front(handlers)
      /\ handlers' \in Seq(Continuation) /\ DOMAIN handlers' \subseteq DOMAIN handlers
      /\ \A h \in DOMAIN handlers' : handlers'[h] = handlers[h]
  BY DEF TaskInv, ContinuationTypes, EndTry, Front
<1>1. StacksInv' /\ CallersInv'
  BY TaskKeeps DEF EndTry, members, TaskInv
<1>2. ContinuationTypes'
  BY <1>0 DEF TaskInv, ContinuationTypes, EndTry, members, Continuation
<1>3. LiveInv'
  BY DEF TaskInv, LiveInv, EndTry, members, Created
<1>4. WaitInv'
  BY DEF TaskInv, WaitInv, EndTry, Does, members, Continuation, Waits
<1>5. HandlersInv'
  BY <1>0 DEF TaskInv, HandlersInv, EndTry
<1> QED  BY <1>1, <1>2, <1>3, <1>4, <1>5 DEF TaskInv

LEMMA TaskThrowUnhandled ==
  ASSUME NamesAreNoNumbers, TaskInv, ThrowUnhandled
  PROVE  TaskInv'
<1>0. status = "running" /\ handlers = <<>> /\ \A c \in Continuation : please_clean[c] = NullPointer
  BY DEF TaskInv, WaitInv, ThrowUnhandled, Does
<1>1. CASE exception
  BY <1>0, <1>1, TaskAborts DEF ThrowUnhandled
<1>2. CASE ~exception
  <2>0. /\ exception' = TRUE /\ current' = Base /\ status' = "resuming"
        /\ UNCHANGED <<task_program, at, handlers, members, allocator, live>>
    BY <1>2 DEF ThrowUnhandled, Resume, BecomesCurrent
  <2>1. StacksInv' /\ CallersInv'
    BY <2>0, TaskKeeps DEF members, TaskInv
  <2>2. ContinuationTypes'
    BY <2>0 DEF TaskInv, ContinuationTypes, members, Continuation
  <2>3. LiveInv' /\ HandlersInv'
    BY <1>0, <2>0 DEF TaskInv, LiveInv, HandlersInv, members, Created
  <2>4. WaitInv'
    BY <1>0, <2>0 DEF TaskInv, WaitInv, members, Continuation, Waits, Aborting
  <2> QED  BY <2>1, <2>2, <2>3, <2>4 DEF TaskInv
<1> QED  BY <1>1, <1>2

\* A stack that no live function is on goes to the free list, once.
LEMMA CleanupKeeps ==
  ASSUME NamesAreNoNumbers, StacksInv, NEW c \in Created, Cleanup(c), UNCHANGED running,
         live' \in Seq(Continuation),
         \A k \in 2 .. Len(live') : live'[k] # c /\ own_stack[live'[k]] # NullPointer
  PROVE  StacksInv'
<1>0. /\ Created \subseteq Continuation /\ Created' = Created /\ Continuation' = Continuation
      /\ pages' = pages /\ pages \in Nat /\ free \in Seq(1 .. pages)
      /\ own_stack \in [Continuation -> (1 .. pages) \cup {NullPointer}]
      /\ NullPointer \notin 1 .. pages
  BY DEF Created, Continuation, Cleanup, StacksInv, NamesAreNoNumbers
<1>1. /\ own_stack' \in [Continuation -> (1 .. pages) \cup {NullPointer}] /\ own_stack'[c] = NullPointer
      /\ \A d \in Continuation : d # c => own_stack'[d] = own_stack[d]
  BY <1>0 DEF Cleanup
<1>2. \A a, b \in Created : own_stack'[a] # NullPointer /\ own_stack'[a] = own_stack'[b] => a = b
  BY <1>0, <1>1 DEF StacksInv
<1>3. \A k \in 2 .. Len(live') : own_stack'[live'[k]] # NullPointer
  BY <1>0, <1>1
<1>4. CASE own_stack[c] = NullPointer
  <2>1. free' = free
    BY <1>4 DEF Cleanup
  <2>2. \A d \in Created : \A k \in DOMAIN free : own_stack'[d] # free[k]
    <3> TAKE d \in Created
    <3> TAKE k \in DOMAIN free
    <3>1. free[k] \in 1 .. pages
      BY <1>0
    <3>2. CASE d = c
      BY <3>1, <3>2, <1>0, <1>1
    <3>3. CASE d # c
      BY <3>3, <1>0, <1>1 DEF StacksInv
    <3> QED  BY <3>2, <3>3
  <2>3. \A k, l \in DOMAIN free : free[k] = free[l] => k = l
    BY DEF StacksInv
  <2> QED  BY <1>0, <1>1, <1>2, <1>3, <2>1, <2>2, <2>3 DEF StacksInv
<1>5. CASE own_stack[c] # NullPointer
  <2>0. own_stack[c] \in 1 .. pages
    BY <1>0, <1>5
  <2>1. /\ free' = <<own_stack[c]>> \o free /\ free' \in Seq(1 .. pages)
        /\ DOMAIN free = 1 .. Len(free) /\ Len(free) \in Nat
        /\ DOMAIN free' = 1 .. Len(free) + 1
        /\ free'[1] = own_stack[c]
        /\ \A k \in DOMAIN free' : k # 1 => k - 1 \in DOMAIN free /\ free'[k] = free[k - 1]
    BY <1>0, <1>5, <2>0 DEF Cleanup
  <2>2. ASSUME NEW d \in Created, NEW k \in DOMAIN free' PROVE own_stack'[d] # free'[k]
    <3>1. free'[k] \in 1 .. pages
      <4>1. CASE k = 1
        BY <4>1, <2>0, <2>1
      <4>2. CASE k # 1
        BY <4>2, <2>1, <1>0
      <4> QED  BY <4>1, <4>2
    <3>2. CASE d = c
      BY <3>1, <3>2, <1>0, <1>1
    <3>3. CASE d # c /\ k = 1
      BY <3>3, <2>0, <2>1, <1>0, <1>1, <1>5 DEF StacksInv
    <3>4. CASE d # c /\ k # 1
      BY <3>4, <2>1, <1>0, <1>1 DEF StacksInv
    <3> QED  BY <3>2, <3>3, <3>4
  <2>3. ASSUME NEW k \in DOMAIN free', NEW l \in DOMAIN free', free'[k] = free'[l] PROVE k = l
    <3>1. CASE k = 1 /\ l # 1
      <4>1. own_stack[c] = free[l - 1]
        BY <3>1, <2>1, <2>3
      <4> QED  BY <3>1, <4>1, <2>1 DEF StacksInv
    <3>2. CASE k # 1 /\ l = 1
      <4>1. own_stack[c] = free[k - 1]
        BY <3>2, <2>1, <2>3
      <4> QED  BY <3>2, <4>1, <2>1 DEF StacksInv
    <3>3. CASE k # 1 /\ l # 1
      <4>1. free[k - 1] = free[l - 1] /\ k - 1 \in DOMAIN free /\ l - 1 \in DOMAIN free
        BY <3>3, <2>1, <2>3
      <4>2. k - 1 = l - 1
        BY <4>1 DEF StacksInv
      <4> QED  BY <4>2, <2>1
    <3> QED  BY <3>1, <3>2, <3>3
  <2> QED  BY <1>0, <1>1, <1>2, <1>3, <2>1, <2>2, <2>3 DEF StacksInv
<1> QED  BY <1>4, <1>5

LEMMA TaskCollect ==
  ASSUME NamesAreNoNumbers, TaskInv, NEW c \in Created, CollectContinuation(c)
  PROVE  TaskInv'
<1>0. /\ status = "running" /\ c \notin ToSet(live)
      /\ \A d \in Continuation : please_clean[d] = NullPointer
  BY DEF TaskInv, WaitInv, CollectContinuation, Does
<1>1. CASE running[c]
  BY <1>0, <1>1, TaskAborts DEF CollectContinuation
<1>2. CASE ~running[c]
  <2>0. /\ Cleanup(c)
        /\ UNCHANGED <<task_program, status, at, current, exception, handlers, running, return_to,
                       please_clean, saved, live>>
    BY <1>2 DEF CollectContinuation
  <2>1. StacksInv'
    <3>1. live \in Seq(Continuation) /\ DOMAIN live = 1 .. Len(live) /\ Len(live) \in Nat
      BY DEF TaskInv, ContinuationTypes
    <3>2. \A k \in 2 .. Len(live) : live[k] # c
      BY <1>0, <3>1 DEF ToSet
    <3>3. \A k \in 2 .. Len(live) : own_stack[live[k]] # NullPointer
      BY DEF TaskInv, StacksInv
    <3>4. live' = live /\ running' = running
      BY <2>0
    <3> QED  BY <2>0, <3>1, <3>2, <3>3, <3>4, CleanupKeeps DEF TaskInv
  <2>2. CallersInv'
    BY <2>0 DEF TaskInv, CallersInv, Continuation, Created
  <2>3. ContinuationTypes'
    BY <2>0 DEF TaskInv, ContinuationTypes, Continuation
  <2>4. LiveInv' /\ HandlersInv'
    BY <2>0 DEF TaskInv, LiveInv, HandlersInv, Created
  <2>5. WaitInv'
    BY <1>0, <2>0 DEF TaskInv, WaitInv, Continuation, Waits
  <2> QED  BY <2>1, <2>2, <2>3, <2>4, <2>5 DEF TaskInv
<1> QED  BY <1>1, <1>2

\* What is known where a function returns: the call that it returns to waits.
LEMMA ReturnIsAwaited ==
  ASSUME NamesAreNoNumbers, TaskInv, status = "running", at # Base
  PROVE  /\ Len(live) >= 2 /\ at = live[Len(live)] /\ at \in Created
         /\ return_to[at] \in Continuation /\ return_to[at] # at
         /\ running[return_to[at]] = TRUE /\ please_clean[return_to[at]] = NullPointer
<1>1. live \in Seq(Continuation) /\ Len(live) \in Nat /\ at = live[Len(live)]
  BY DEF TaskInv, ContinuationTypes, WaitInv
<1>2. Len(live) >= 2
  BY <1>1 DEF TaskInv, LiveInv
<1>3. Len(live) \in 2 .. Len(live)
  BY <1>1, <1>2
<1>4. at \in Created
  BY <1>1, <1>3 DEF TaskInv, LiveInv
<1>5. Base \in Continuation /\ Created \subseteq Continuation /\ Created \subseteq Nat
  BY DEF TaskInv, ContinuationTypes, Created, Continuation
<1>6. return_to[at] \in Continuation /\ return_to[at] # at
  <2>1. return_to[at] = Base \/ (return_to[at] \in Created /\ return_to[at] < at)
    BY <1>4 DEF TaskInv, CallersInv
  <2>2. at \in Nat
    BY <1>4, <1>5
  <2>3. CASE return_to[at] = Base
    BY <2>2, <2>3, <1>5 DEF NamesAreNoNumbers
  <2>4. CASE return_to[at] \in Created /\ return_to[at] < at
    <3>1. return_to[at] \in Nat
      BY <2>4, <1>5
    <3> QED  BY <2>2, <2>4, <3>1, <1>5
  <2> QED  BY <2>1, <2>3, <2>4
<1>7. Waits(Len(live))
  BY <1>3 DEF TaskInv, WaitInv
<1>8. running[return_to[at]] = TRUE
  BY <1>1, <1>7 DEF Waits
<1>9. please_clean[return_to[at]] = NullPointer
  BY <1>6 DEF TaskInv, WaitInv
<1> QED  BY <1>1, <1>2, <1>4, <1>6, <1>8, <1>9

LEMMA TaskReturn ==
  ASSUME NamesAreNoNumbers, TaskInv, Return
  PROVE  TaskInv'
<1>0. /\ status = "running" /\ at # Base /\ at \notin ToSet(handlers)
      /\ Len(live) >= 2 /\ at = live[Len(live)] /\ at \in Created
      /\ return_to[at] \in Continuation /\ return_to[at] # at
      /\ running[return_to[at]] = TRUE /\ please_clean[return_to[at]] = NullPointer
  BY ReturnIsAwaited DEF Return
<1>1. /\ running' = [running EXCEPT ![at] = FALSE]
      /\ please_clean' = [please_clean EXCEPT ![return_to[at]] = at]
      /\ current' = return_to[at] /\ status' = "resuming"
      /\ UNCHANGED <<task_program, at, exception, handlers, return_to, own_stack, saved, allocator, live>>
  BY <1>0 DEF Return, Resume, BecomesCurrent
<1>2. /\ at \in Continuation /\ Base \in Continuation /\ Created \subseteq Continuation
      /\ Created \subseteq Nat
      /\ live \in Seq(Continuation) /\ Len(live) \in Nat /\ DOMAIN live = 1 .. Len(live)
      /\ running \in [Continuation -> BOOLEAN]
      /\ please_clean \in [Continuation -> Continuation \cup {NullPointer}]
  BY DEF TaskInv, ContinuationTypes, Created, Continuation
<1>3. /\ running' \in [Continuation -> BOOLEAN] /\ running'[at] = FALSE
      /\ \A c \in Continuation : c # at => running'[c] = running[c]
      /\ Continuation' = Continuation /\ Created' = Created
  BY <1>1, <1>2 DEF Continuation, Created
<1>4. /\ please_clean' \in [Continuation -> Continuation \cup {NullPointer}]
      /\ please_clean'[return_to[at]] = at
      /\ \A c \in Continuation : c # return_to[at] => please_clean'[c] = please_clean[c]
  BY <1>0, <1>1, <1>2
<1>5. ContinuationTypes'
  BY <1>0, <1>1, <1>2, <1>3, <1>4 DEF TaskInv, ContinuationTypes
<1>6. StacksInv'
  BY <1>1, <1>3 DEF TaskInv, StacksInv, allocator
<1>7. CallersInv'
  BY <1>0, <1>1, <1>2, <1>3 DEF TaskInv, CallersInv
<1>8. LiveInv' /\ HandlersInv'
  BY <1>0, <1>1, <1>3 DEF TaskInv, LiveInv, HandlersInv
<1>9. WaitInv'
  <2>1. Returning'
    <3>1. \A h \in DOMAIN handlers : handlers[h] # at
      <4>1. handlers \in Seq(Continuation)
        BY DEF TaskInv, ContinuationTypes
      <4> QED  BY <4>1, <1>0 DEF ToSet
    <3> QED  BY <3>1, <1>0, <1>1, <1>3, <1>4 DEF Returning
  <2>2. ASSUME NEW k \in 2 .. Len(live) PROVE Waits(k)'
    <3>1. Waits(k)
      BY <1>0 DEF TaskInv, WaitInv
    <3>2. live[k] \in Created /\ live[k] \in Nat /\ at \in Nat
      BY <1>0, <1>2 DEF TaskInv, LiveInv
    <3>3. live[k] = at \/ live[k] < at
      <4>1. CASE k = Len(live)
        BY <4>1, <1>0
      <4>2. CASE k # Len(live)
        <5>1. k \in Nat /\ k <= Len(live) /\ Len(live) \in Nat
          BY <1>2
        <5>2. k < Len(live)
          BY <4>2, <5>1
        <5>3. Len(live) \in 2 .. Len(live)
          BY <1>0, <1>2
        <5> QED  BY <5>2, <5>3, <1>0 DEF TaskInv, LiveInv
      <4> QED  BY <4>1, <4>2
    <3>4. return_to[live[k]] = Base \/ (return_to[live[k]] \in Created /\ return_to[live[k]] < live[k])
      BY <3>2 DEF TaskInv, CallersInv
    <3>5. return_to[live[k]] # at /\ return_to[live[k]] \in Continuation
      <4>1. CASE return_to[live[k]] = Base
        BY <4>1, <1>0, <1>2
      <4>2. CASE return_to[live[k]] \in Created /\ return_to[live[k]] < live[k]
        <5>1. return_to[live[k]] \in Nat
          BY <4>2, <1>2
        <5> QED  BY <4>2, <5>1, <3>2, <3>3, <1>2
      <4> QED  BY <4>1, <4>2, <3>4
    <3> QED  BY <3>1, <3>5, <1>1, <1>3 DEF Waits
  <2>3. \A c \in Continuation : please_clean'[c] # NullPointer => c = current'
    BY <1>0, <1>1, <1>4 DEF TaskInv, WaitInv
  <2> QED  BY <2>1, <2>2, <2>3, <1>0, <1>1, <1>3 DEF WaitInv
<1> QED  BY <1>5, <1>6, <1>7, <1>8, <1>9 DEF TaskInv

\* The live functions up to the k-th: what is left when the others have
\* returned, or have been thrown past.
LEMMA PrefixLives ==
  ASSUME NamesAreNoNumbers, ContinuationTypes, StacksInv, LiveInv, status # "aborted",
         NEW k \in DOMAIN live
  PROVE  LET rest == SubSeq(live, 1, k)
         IN /\ rest \in Seq(Continuation) /\ Len(rest) = k /\ Len(rest) >= 1
            /\ rest[1] = Base /\ rest[Len(rest)] = live[k]
            /\ DOMAIN rest = 1 .. k /\ \A j \in 1 .. k : j \in DOMAIN live /\ rest[j] = live[j]
            /\ \A j \in 2 .. k : /\ j \in 2 .. Len(live) /\ j - 1 \in DOMAIN live
                                 /\ rest[j] \in Created /\ own_stack[rest[j]] # NullPointer
            /\ \A i, j \in 2 .. k : i < j => rest[i] < rest[j]
<1> DEFINE rest == SubSeq(live, 1, k)
<1>1. /\ live \in Seq(Continuation) /\ Len(live) \in Nat /\ DOMAIN live = 1 .. Len(live)
      /\ k \in 1 .. Len(live)
  BY DEF ContinuationTypes
<1>2. /\ rest \in Seq(Continuation) /\ Len(rest) = k /\ \A j \in 1 .. k : rest[j] = live[j]
      /\ DOMAIN rest = 1 .. k
  BY <1>1
<1>3. \A j \in 1 .. k : j \in DOMAIN live
  BY <1>1
<1>4. \A j \in 2 .. k : j \in 2 .. Len(live) /\ j - 1 \in DOMAIN live /\ rest[j] = live[j]
  BY <1>1, <1>2
<1>5. \A j \in 2 .. k : rest[j] \in Created /\ own_stack[rest[j]] # NullPointer
  BY <1>4 DEF LiveInv, StacksInv
<1>6. \A i, j \in 2 .. k : i < j => rest[i] < rest[j]
  BY <1>4 DEF LiveInv
<1>7. rest[1] = Base /\ rest[Len(rest)] = live[k] /\ Len(rest) >= 1
  BY <1>1, <1>2 DEF LiveInv
<1> HIDE DEF rest
<1>8. /\ rest \in Seq(Continuation) /\ Len(rest) = k /\ Len(rest) >= 1
      /\ rest[1] = Base /\ rest[Len(rest)] = live[k]
      /\ DOMAIN rest = 1 .. k /\ \A j \in 1 .. k : j \in DOMAIN live /\ rest[j] = live[j]
      /\ \A j \in 2 .. k : /\ j \in 2 .. Len(live) /\ j - 1 \in DOMAIN live
                           /\ rest[j] \in Created /\ own_stack[rest[j]] # NullPointer
      /\ \A i, j \in 2 .. k : i < j => rest[i] < rest[j]
  BY <1>2, <1>3, <1>4, <1>5, <1>6, <1>7
<1> QED  BY <1>8 DEF rest

LEMMA TaskThrow ==
  ASSUME NamesAreNoNumbers, TaskInv, Throw
  PROVE  TaskInv'
<1>0. /\ status = "running" /\ \A c \in Continuation : please_clean[c] = NullPointer
      /\ handlers \in Seq(Continuation) /\ handlers # <<>> /\ Len(handlers) \in DOMAIN handlers
      /\ Last(handlers) = handlers[Len(handlers)]
      /\ live \in Seq(Continuation) /\ DOMAIN live = 1 .. Len(live) /\ Len(live) \in Nat
      /\ \A c \in Created : c \in Continuation
  BY DEF TaskInv, ContinuationTypes, WaitInv, Throw, Does, Last, Created, Continuation
<1>1. PICK k \in DOMAIN live : live[k] = Last(handlers)
  BY <1>0 DEF TaskInv, HandlersInv
<1>2. \A i, j \in DOMAIN live : live[i] = live[j] => i = j
  BY <1>0, LiveOnce DEF TaskInv
<1>3. SelectInSeq(live, LAMBDA l : l = Last(handlers)) = k
  <2>1. Place(live, Last(handlers)) = k
    BY <1>0, <1>1, <1>2, PlaceFound
  <2> QED  BY <2>1 DEF Place, SelectInSeq
<1>4. /\ at' = live[k] /\ live' = SubSeq(live, 1, k) /\ handlers' = Front(handlers)
      /\ UNCHANGED <<task_program, status, current, exception, running, return_to, please_clean,
                     own_stack, saved, allocator>>
  BY <1>1, <1>3 DEF Throw, members
<1>5. /\ live' \in Seq(Continuation) /\ Len(live') = k /\ Len(live') >= 1
      /\ live'[1] = Base /\ live'[Len(live')] = live[k]
      /\ DOMAIN live' = 1 .. k /\ \A j \in 1 .. k : j \in DOMAIN live /\ live'[j] = live[j]
      /\ \A j \in 2 .. k : /\ j \in 2 .. Len(live) /\ j - 1 \in DOMAIN live
                           /\ live'[j] \in Created /\ own_stack[live'[j]] # NullPointer
      /\ \A i, j \in 2 .. k : i < j => live'[i] < live'[j]
  BY <1>0, <1>4, PrefixLives DEF TaskInv
<1>6. /\ handlers' \in Seq(Continuation)
      /\ \A h \in DOMAIN handlers' : h \in DOMAIN handlers /\ handlers'[h] = handlers[h]
                                     /\ h <= Len(handlers)
  BY <1>0, <1>4 DEF Front
<1>7. Continuation' = Continuation /\ Created' = Created
  BY <1>4 DEF Continuation, Created
<1>8. ContinuationTypes'
  <2>1. live[k] \in Continuation
    BY <1>0
  <2> QED  BY <2>1, <1>4, <1>5, <1>6, <1>7 DEF TaskInv, ContinuationTypes
<1>9. StacksInv'
  BY <1>4, <1>5, <1>7 DEF TaskInv, StacksInv, allocator
<1>10. CallersInv'
  BY <1>4, <1>7 DEF TaskInv, CallersInv
<1>11. LiveInv'
  BY <1>5, <1>7 DEF LiveInv
<1>12. HandlersInv'
  <2>1. ASSUME NEW h \in DOMAIN handlers' PROVE \E j \in DOMAIN live' : handlers'[h] = live'[j]
    <3>1. PICK j \in DOMAIN live : handlers[h] = live[j]
      BY <1>0, <1>6 DEF TaskInv, HandlersInv
    <3>2. j <= k
      BY <1>0, <1>1, <1>6, <3>1 DEF TaskInv, HandlersInv
    <3>3. j \in 1 .. k
      BY <1>0, <3>2
    <3> QED  BY <3>1, <3>3, <1>5, <1>6
  <2>2. ASSUME NEW g \in DOMAIN handlers', NEW h \in DOMAIN handlers',
               NEW i \in DOMAIN live', NEW j \in DOMAIN live',
               g <= h, handlers'[g] = live'[i], handlers'[h] = live'[j]
        PROVE  i <= j
    <3>1. /\ g \in DOMAIN handlers /\ h \in DOMAIN handlers
          /\ i \in DOMAIN live /\ j \in DOMAIN live
          /\ handlers[g] = live[i] /\ handlers[h] = live[j]
      BY <1>5, <1>6, <2>2
    <3> QED  BY <3>1, <2>2, <1>0 DEF TaskInv, HandlersInv
  <2> QED  BY <2>1, <2>2 DEF HandlersInv
<1>13. WaitInv'
  <2>1. ASSUME NEW j \in 2 .. Len(live') PROVE Waits(j)' /\ return_to'[live'[j]] # current'
    <3>1. /\ j \in 2 .. k /\ j \in 2 .. Len(live) /\ j \in 1 .. k /\ j - 1 \in 1 .. k
      BY <1>5
    <3>2. live'[j] = live[j] /\ live'[j - 1] = live[j - 1]
      BY <3>1, <1>5
    <3>3. Waits(j) /\ return_to[live[j]] # current
      BY <3>1, <1>0 DEF TaskInv, WaitInv
    <3> QED  BY <3>2, <3>3, <1>4 DEF Waits
  <2> QED  BY <2>1, <1>0, <1>4, <1>5, <1>7 DEF TaskInv, WaitInv
<1> QED  BY <1>8, <1>9, <1>10, <1>11, <1>12, <1>13 DEF TaskInv

LEMMA TaskCallCC ==
  ASSUME NamesAreNoNumbers, TaskInv, CallCC
  PROVE  TaskInv'
<1> DEFINE c == Cardinality(Created) + 1
<1>1. PICK n \in Nat : Continuation = {Base} \cup 1 .. n
  BY DEF TaskInv, ContinuationTypes
<1>2. Created = 1 .. n
  BY <1>1 DEF Created, Continuation, NamesAreNoNumbers
<1>3. c = n + 1
  <2>1. Cardinality(1 .. n) = n
    <3>1. 1 \in Int /\ n \in Int /\ (1 <= n => n - 1 + 1 = n) /\ (~(1 <= n) => n = 0)
      OBVIOUS
    <3> QED  BY <3>1, FS_Interval
  <2> QED  BY <1>2, <2>1
<1> HIDE DEF c
<1>4. /\ status = "running" /\ \A d \in Continuation : please_clean[d] = NullPointer
      /\ live \in Seq(Continuation) /\ DOMAIN live = 1 .. Len(live) /\ Len(live) \in Nat
      /\ Len(live) >= 1 /\ at = live[Len(live)] /\ running[current] = TRUE
      /\ at \in Continuation /\ current \in Continuation /\ handlers \in Seq(Continuation)
      /\ Base \in Continuation /\ c \notin Continuation /\ c \in Nat /\ NullPointer \notin Continuation
  <2>1. status = "running"
    BY DEF CallCC, Does
  <2>2. /\ \A d \in Continuation : please_clean[d] = NullPointer
        /\ at = live[Len(live)] /\ running[current] = TRUE
    BY <2>1 DEF TaskInv, WaitInv
  <2>3. /\ live \in Seq(Continuation) /\ at \in Continuation /\ current \in Continuation
        /\ handlers \in Seq(Continuation)
    BY DEF TaskInv, ContinuationTypes
  <2>4. Len(live) >= 1
    BY <2>1 DEF TaskInv, LiveInv
  <2>5. /\ Base \in Continuation /\ c \notin Continuation /\ c \in Nat /\ NullPointer \notin Continuation
    BY <1>1, <1>3 DEF NamesAreNoNumbers
  <2> QED  BY <2>1, <2>2, <2>3, <2>4, <2>5
<1>5. /\ return_to' = With(return_to, c, current)
      /\ saved' = With([saved EXCEPT ![current] = [on |-> at, callee |-> c]],
                       c, [on |-> c, callee |-> NullPointer])
      /\ please_clean' = With(please_clean, c, NullPointer)
      /\ running' = With(running, c, TRUE)
      /\ own_stack' = With(own_stack, c, Allocated)
      /\ AllocateStack /\ current' = c /\ at' = c /\ live' = Append(live, c)
      /\ UNCHANGED <<task_program, status, exception, handlers>>
  BY DEF CallCC, BecomesCurrent, c
<1> DEFINE More == Continuation \cup {c}
<1>6. /\ running' \in [More -> BOOLEAN] /\ running'[c] = TRUE
      /\ \A d \in Continuation : running'[d] = running[d]
  BY <1>4, <1>5 DEF With, TaskInv, ContinuationTypes
<1>7. Continuation' = More
  BY <1>6 DEF Continuation
<1>8. Created' = Created \cup {c} /\ Created \subseteq Continuation
  BY <1>4, <1>7 DEF Created, Continuation
<1>9. /\ return_to' \in [More -> More \cup {NullPointer}] /\ return_to'[c] = current
      /\ \A d \in Continuation : return_to'[d] = return_to[d]
  <2>1. return_to \in [Continuation -> More \cup {NullPointer}] /\ current \in More \cup {NullPointer}
    BY <1>4 DEF TaskInv, ContinuationTypes
  <2> QED  BY <2>1, <1>4, <1>5 DEF With
<1>10. /\ please_clean' \in [More -> More \cup {NullPointer}] /\ please_clean'[c] = NullPointer
       /\ \A d \in Continuation : please_clean'[d] = please_clean[d]
  <2>1. please_clean \in [Continuation -> More \cup {NullPointer}] /\ NullPointer \in More \cup {NullPointer}
    BY DEF TaskInv, ContinuationTypes
  <2> QED  BY <2>1, <1>4, <1>5 DEF With
<1>11. /\ saved' \in [More -> [on : More, callee : More \cup {NullPointer}]]
       /\ saved'[c] = [on |-> c, callee |-> NullPointer]
       /\ saved'[current] = [on |-> at, callee |-> c]
       /\ \A d \in Continuation : d # current => saved'[d] = saved[d]
  <2> DEFINE called == [saved EXCEPT ![current] = [on |-> at, callee |-> c]]
             Calls == [on : More, callee : More \cup {NullPointer}]
  <2>1. saved \in [Continuation -> [on : Continuation, callee : Continuation \cup {NullPointer}]]
    BY DEF TaskInv, ContinuationTypes
  <2>2. /\ called \in [Continuation -> Calls]
        /\ called[current] = [on |-> at, callee |-> c]
        /\ \A d \in Continuation : d # current => called[d] = saved[d]
    BY <2>1, <1>4
  <2>3. [on |-> c, callee |-> NullPointer] \in Calls
    OBVIOUS
  <2>4. saved' = With(called, c, [on |-> c, callee |-> NullPointer])
    BY <1>5
  <2> HIDE DEF called, Calls
  <2>5. /\ saved' \in [More -> Calls] /\ saved'[c] = [on |-> c, callee |-> NullPointer]
        /\ \A d \in Continuation : saved'[d] = called[d]
    BY <2>2, <2>3, <2>4, <1>4 DEF With
  <2> QED  BY <2>2, <2>5, <1>4 DEF Calls
<1>12. /\ live' \in Seq(More) /\ Len(live') = Len(live) + 1 /\ live'[Len(live) + 1] = c
       /\ \A k \in 1 .. Len(live) : live'[k] = live[k]
       /\ DOMAIN live' = 1 .. Len(live) + 1
  <2>1. live \in Seq(More)
    BY <1>4
  <2> QED  BY <2>1, <1>4, <1>5
<1>13. ContinuationTypes'
  <2>1. Continuation' = {Base} \cup 1 .. (n + 1) /\ n + 1 \in Nat
    BY <1>1, <1>3, <1>7
  <2>2. handlers' \in Seq(More)
    BY <1>4, <1>5
  <2>3. \E m \in Nat : Continuation' = {Base} \cup 1 .. m
    BY <2>1
  <2>4. at' \in More /\ current' \in More
    BY <1>5
  <2> QED  BY <2>2, <2>3, <2>4, <1>5, <1>6, <1>7, <1>9, <1>10, <1>11, <1>12
           DEF TaskInv, ContinuationTypes
<1>14. StacksInv'
  <2>1. /\ pages \in Nat /\ free \in Seq(1 .. pages)
        /\ own_stack \in [Continuation -> (1 .. pages) \cup {NullPointer}]
    BY DEF TaskInv, StacksInv
  <2>2. /\ pages' \in Nat /\ pages <= pages' /\ free' \in Seq(1 .. pages')
        /\ Allocated \in 1 .. pages'
        /\ \A d \in Created : own_stack[d] # Allocated
        /\ \A k \in DOMAIN free' : free'[k] # Allocated
        /\ \A k \in DOMAIN free' : \A d \in Created : free'[k] # own_stack[d]
        /\ \A k, l \in DOMAIN free' : free'[k] = free'[l] => k = l
    <3>1. CASE free = <<>>
      <4>1. Allocated = pages + 1 /\ pages' = pages + 1 /\ free' = <<>>
        BY <3>1, <1>5 DEF Allocated, AllocateStack
      <4>2. ASSUME NEW d \in Created PROVE own_stack[d] # pages + 1
        <5>1. own_stack[d] \in 1 .. pages \/ own_stack[d] = NullPointer
          BY <2>1, <1>8
        <5> QED  BY <5>1, <2>1 DEF NamesAreNoNumbers
      <4> QED  BY <4>1, <4>2, <2>1
    <3>2. CASE free # <<>>
      <4>1. /\ Allocated = free[1] /\ pages' = pages /\ free' = Tail(free)
            /\ 1 \in DOMAIN free
        BY <3>2, <2>1, <1>5 DEF Allocated, AllocateStack
      <4>2. /\ free' \in Seq(1 .. pages)
            /\ \A k \in DOMAIN free' : k \in Nat /\ k # 0 /\ k + 1 \in DOMAIN free
                                        /\ free'[k] = free[k + 1]
        BY <2>1, <3>2, <4>1
      <4>3. \A k, l \in DOMAIN free : free[k] = free[l] => k = l
        BY DEF TaskInv, StacksInv
      <4>4. \A d \in Created : \A k \in DOMAIN free : own_stack[d] # free[k]
        BY DEF TaskInv, StacksInv
      <4>5. \A k \in DOMAIN free' : free'[k] # Allocated
        <5> TAKE k \in DOMAIN free'
        <5>1. free'[k] = free[k + 1] /\ k + 1 \in DOMAIN free /\ k + 1 # 1
          BY <4>2
        <5> QED  BY <5>1, <4>1, <4>3
      <4>6. \A k, l \in DOMAIN free' : free'[k] = free'[l] => k = l
        <5> SUFFICES ASSUME NEW k \in DOMAIN free', NEW l \in DOMAIN free', free'[k] = free'[l]
                     PROVE  k = l
          OBVIOUS
        <5>1. k + 1 = l + 1 /\ k \in Nat /\ l \in Nat
          BY <4>2, <4>3
        <5> QED  BY <5>1
      <4>7. Allocated \in 1 .. pages
        BY <4>1, <2>1
      <4> QED  BY <4>1, <4>2, <4>4, <4>5, <4>6, <4>7, <2>1
    <3> QED  BY <3>1, <3>2
  <2>3. /\ own_stack' \in [More -> (1 .. pages') \cup {NullPointer}] /\ own_stack'[c] = Allocated
        /\ \A d \in Continuation : own_stack'[d] = own_stack[d]
    <3>1. own_stack \in [Continuation -> (1 .. pages') \cup {NullPointer}]
      BY <2>1, <2>2
    <3> QED  BY <3>1, <2>2, <1>4, <1>5 DEF With
  <2>4. Allocated # NullPointer
    BY <2>2 DEF NamesAreNoNumbers
  <2>5. ASSUME NEW a \in Created', NEW b \in Created', own_stack'[a] # NullPointer, own_stack'[a] = own_stack'[b]
        PROVE  a = b
    <3>1. CASE a \in Created /\ b \in Created
      BY <3>1, <2>3, <2>5, <1>8 DEF TaskInv, StacksInv
    <3>2. CASE a = c /\ b \in Created
      BY <3>2, <2>2, <2>3, <2>5, <1>8
    <3>3. CASE a \in Created /\ b = c
      BY <3>3, <2>2, <2>3, <2>5, <1>8
    <3> QED  BY <3>1, <3>2, <3>3, <1>8
  <2>6. \A d \in Created' : \A k \in DOMAIN free' : own_stack'[d] # free'[k]
    <3> TAKE d \in Created'
    <3> TAKE k \in DOMAIN free'
    <3>1. CASE d = c
      BY <3>1, <2>2, <2>3
    <3>2. CASE d \in Created
      BY <3>2, <2>2, <2>3, <1>8
    <3> QED  BY <3>1, <3>2, <1>8
  <2>7. ASSUME NEW k \in 2 .. Len(live') PROVE own_stack'[live'[k]] # NullPointer
    <3>1. CASE k = Len(live) + 1
      BY <3>1, <1>12, <2>3, <2>4
    <3>2. CASE k # Len(live) + 1
      <4>1. k \in 2 .. Len(live) /\ k \in 1 .. Len(live)
        BY <3>2, <1>4, <1>12
      <4>2. live[k] \in Continuation /\ own_stack[live[k]] # NullPointer
        BY <4>1, <1>4 DEF TaskInv, StacksInv
      <4> QED  BY <4>1, <4>2, <1>12, <2>3
    <3> QED  BY <3>1, <3>2
  <2> QED  BY <2>2, <2>3, <2>5, <2>6, <2>7, <1>7 DEF StacksInv
<1>15. CallersInv'
  <2>1. running'[Base] = TRUE
    BY <1>4, <1>6 DEF TaskInv, CallersInv
  <2>2. ASSUME NEW d \in Created'
        PROVE  return_to'[d] = Base \/ (return_to'[d] \in Created' /\ return_to'[d] < d)
    <3>1. CASE d = c
      <4>1. current = Base \/ current \in 1 .. n
        BY <1>1, <1>4
      <4>2. current \in 1 .. n => current < c
        BY <1>3
      <4> QED  BY <3>1, <4>1, <4>2, <1>2, <1>8, <1>9
    <3>2. CASE d \in Created
      <4>1. return_to'[d] = return_to[d]
        BY <3>2, <1>8, <1>9
      <4>2. return_to[d] = Base \/ (return_to[d] \in Created /\ return_to[d] < d)
        BY <3>2 DEF TaskInv, CallersInv
      <4> QED  BY <4>1, <4>2, <1>8
    <3> QED  BY <3>1, <3>2, <1>8
  <2>3. ASSUME NEW d \in More, saved'[d].callee # NullPointer
        PROVE  saved'[d].callee \in Created' /\ return_to'[saved'[d].callee] = d
    <3>1. CASE d = c
      BY <3>1, <2>3, <1>11
    <3>2. CASE d = current
      BY <3>2, <1>8, <1>9, <1>11
    <3>3. CASE d \in Continuation /\ d # current
      <4>1. saved'[d] = saved[d]
        BY <3>3, <1>11
      <4>2. saved[d].callee \in Created /\ return_to[saved[d].callee] = d
        BY <3>3, <4>1, <2>3 DEF TaskInv, CallersInv
      <4> QED  BY <4>1, <4>2, <1>8, <1>9
    <3> QED  BY <3>1, <3>2, <3>3
  <2> QED  BY <2>1, <2>2, <2>3, <1>7 DEF CallersInv
<1>16. \A k \in 2 .. Len(live) : k \in 1 .. Len(live) /\ live[k] \in Created /\ live[k] < c
  <2> TAKE k \in 2 .. Len(live)
  <2>1. live[k] \in 1 .. n
    BY <1>2, <1>4 DEF TaskInv, LiveInv
  <2> QED  BY <2>1, <1>2, <1>3, <1>4
<1>17. LiveInv'
  <2>1. live'[1] = Base /\ Len(live') >= 1
    BY <1>4, <1>12 DEF TaskInv, LiveInv
  <2>2. ASSUME NEW k \in 2 .. Len(live') PROVE live'[k] \in Created'
    <3>1. k = Len(live) + 1 \/ k \in 2 .. Len(live)
      BY <1>4, <1>12
    <3> QED  BY <3>1, <1>8, <1>12, <1>16
  <2>3. ASSUME NEW k \in 2 .. Len(live'), NEW l \in 2 .. Len(live'), k < l
        PROVE  live'[k] < live'[l]
    <3>1. k \in 2 .. Len(live)
      BY <2>3, <1>4, <1>12
    <3>2. CASE l = Len(live) + 1
      BY <3>1, <3>2, <1>12, <1>16
    <3>3. CASE l # Len(live) + 1
      <4>1. l \in 2 .. Len(live)
        BY <3>3, <1>4, <1>12
      <4>2. live[k] < live[l]
        BY <3>1, <4>1, <2>3, <1>4 DEF TaskInv, LiveInv
      <4> QED  BY <3>1, <4>1, <4>2, <1>12, <1>16
    <3> QED  BY <3>2, <3>3
  <2> QED  BY <2>1, <2>2, <2>3 DEF LiveInv
<1>18. HandlersInv'
  <2>1. \A h \in DOMAIN handlers : handlers[h] \in Continuation /\ handlers[h] # c
    BY <1>4
  <2>2. ASSUME NEW h \in DOMAIN handlers PROVE \E k \in DOMAIN live' : handlers[h] = live'[k]
    <3>1. PICK k \in DOMAIN live : handlers[h] = live[k]
      BY <1>4 DEF TaskInv, HandlersInv
    <3> QED  BY <3>1, <1>4, <1>12
  <2>3. ASSUME NEW g \in DOMAIN handlers, NEW h \in DOMAIN handlers,
               NEW k \in DOMAIN live', NEW l \in DOMAIN live',
               g <= h, handlers[g] = live'[k], handlers[h] = live'[l]
        PROVE  k <= l
    <3>1. k # Len(live) + 1 /\ l # Len(live) + 1
      BY <2>1, <2>3, <1>12
    <3>2. k \in DOMAIN live /\ l \in DOMAIN live
      BY <3>1, <1>4, <1>12
    <3>3. handlers[g] = live[k] /\ handlers[h] = live[l]
      BY <3>2, <2>3, <1>4, <1>12
    <3> QED  BY <3>2, <3>3, <2>3, <1>4 DEF TaskInv, HandlersInv
  <2> QED  BY <2>2, <2>3, <1>5 DEF HandlersInv
<1>19. WaitInv'
  <2>1. ASSUME NEW k \in 2 .. Len(live') PROVE Waits(k)' /\ return_to'[live'[k]] # current'
    <3>1. CASE k = Len(live) + 1
      <4>1. live'[k] = c /\ live'[k - 1] = at
        <5>1. k - 1 = Len(live) /\ Len(live) \in 1 .. Len(live)
          BY <3>1, <1>4
        <5> QED  BY <5>1, <3>1, <1>4, <1>12
      <4>2. return_to'[live'[k]] = current /\ current # c
        BY <4>1, <1>4, <1>9
      <4> QED  BY <4>1, <4>2, <1>4, <1>5, <1>6, <1>11 DEF Waits
    <3>2. CASE k # Len(live) + 1
      <4>1. k \in 2 .. Len(live) /\ k \in 1 .. Len(live) /\ k - 1 \in 1 .. Len(live)
        BY <3>2, <1>4, <1>12
      <4>2. live'[k] = live[k] /\ live'[k - 1] = live[k - 1] /\ live[k] \in Created
        BY <4>1, <1>12, <1>16
      <4>3. Waits(k) /\ return_to[live[k]] # current
        BY <4>1, <1>4 DEF TaskInv, WaitInv
      <4>4. return_to'[live'[k]] = return_to[live[k]] /\ return_to[live[k]] \in Continuation
        <5>1. return_to[live[k]] = Base \/ return_to[live[k]] \in Created
          BY <4>2 DEF TaskInv, CallersInv
        <5> QED  BY <5>1, <4>2, <1>4, <1>8, <1>9
      <4>5. return_to[live[k]] # c
        BY <4>4, <1>4
      <4>6. /\ saved'[return_to[live[k]]] = saved[return_to[live[k]]]
            /\ running'[return_to[live[k]]] = running[return_to[live[k]]]
        BY <4>3, <4>4, <1>6, <1>11
      <4> QED  BY <4>2, <4>3, <4>4, <4>5, <4>6, <1>5 DEF Waits
    <3> QED  BY <3>1, <3>2
  <2>2. \A d \in More : please_clean'[d] = NullPointer
    BY <1>4, <1>10
  <2>3. at' = live'[Len(live')]
    BY <1>4, <1>5, <1>12
  <2> QED  BY <2>1, <2>2, <2>3, <1>4, <1>5, <1>6, <1>7 DEF WaitInv
<1> QED  BY <1>13, <1>14, <1>15, <1>17, <1>18, <1>19 DEF TaskInv

\* The functions up to the k-th go on in the call that the next one returns to,
\* or in one that an abort has found instead.
LEMMA PrefixWaits ==
  ASSUME NamesAreNoNumbers, TaskInv, status = "resuming", status' = "running",
         NEW k \in DOMAIN live, live' = SubSeq(live, 1, k), at' = live[k],
         NEW callee, saved[current] = [on |-> live[k], callee |-> callee],
         NEW m \in 2 .. Len(live), live[m] = callee, k < m,
         running[current] = TRUE,
         \A c \in Continuation : please_clean'[c] = NullPointer,
         UNCHANGED <<current, running, return_to, saved>>
  PROVE  LiveInv' /\ WaitInv'
<1>1. /\ live' \in Seq(Continuation) /\ Len(live') = k /\ Len(live') >= 1
      /\ live'[1] = Base /\ live'[Len(live')] = live[k]
      /\ DOMAIN live' = 1 .. k /\ \A j \in 1 .. k : j \in DOMAIN live /\ live'[j] = live[j]
      /\ \A j \in 2 .. k : /\ j \in 2 .. Len(live) /\ j - 1 \in DOMAIN live
                           /\ live'[j] \in Created /\ own_stack[live'[j]] # NullPointer
      /\ \A i, j \in 2 .. k : i < j => live'[i] < live'[j]
  BY PrefixLives DEF TaskInv
<1>2. Continuation' = Continuation /\ Created' = Created
  BY DEF Continuation, Created
<1>3. LiveInv'
  BY <1>1, <1>2 DEF LiveInv
<1>4. \A i, j \in DOMAIN live : live[i] = live[j] => i = j
  BY LiveOnce DEF TaskInv
<1>5. live \in Seq(Continuation) /\ DOMAIN live = 1 .. Len(live) /\ Len(live) \in Nat
  BY DEF TaskInv, ContinuationTypes
<1>6. ASSUME NEW j \in 2 .. k PROVE Waits(j)' /\ return_to[live[j]] # current
  <2>1. j \in 2 .. Len(live) /\ j \in 1 .. k /\ j - 1 \in 1 .. k /\ j # m /\ m \in DOMAIN live
    BY <1>1, <1>5
  <2>2. Waits(j) /\ live'[j] = live[j] /\ live'[j - 1] = live[j - 1]
    BY <2>1, <1>1 DEF TaskInv, WaitInv
  <2>3. return_to[live[j]] # current
    <3> SUFFICES ASSUME return_to[live[j]] = current PROVE FALSE
      OBVIOUS
    <3>1. saved[current].callee = live[j]
      BY <2>2 DEF Waits
    <3>2. live[j] = live[m]
      BY <3>1
    <3> QED  BY <3>2, <2>1, <1>1, <1>4
  <2> QED  BY <2>2, <2>3 DEF Waits
<1>7. WaitInv'
  BY <1>1, <1>2, <1>6 DEF WaitInv
<1> QED  BY <1>3, <1>7

\* After a return, the call that awaited it goes on.
LEMMA TaskCameBack ==
  ASSUME NamesAreNoNumbers, TaskInv, CameBack
  PROVE  /\ TaskInv'
         /\ Returning => status' = "running" /\ live' = SubSeq(live, 1, Len(live) - 1)
<1> DEFINE s == saved[current]
           n == Len(live)
           place == Place(live, s.on)
<1>1. /\ status = "resuming" /\ s.callee # NullPointer
      /\ live \in Seq(Continuation) /\ DOMAIN live = 1 .. n /\ n \in Nat
      /\ n >= 1 /\ at = live[n]
      /\ at \in Continuation /\ current \in Continuation /\ NullPointer \notin Continuation
      /\ s \in [on : Continuation, callee : Continuation \cup {NullPointer}]
      /\ \A c \in Created : c \in Continuation
      /\ please_clean \in [Continuation -> Continuation \cup {NullPointer}]
  <2>1. status = "resuming" /\ s.callee # NullPointer
    BY DEF CameBack
  <2>2. /\ live \in Seq(Continuation) /\ at \in Continuation /\ current \in Continuation
        /\ s \in [on : Continuation, callee : Continuation \cup {NullPointer}]
        /\ please_clean \in [Continuation -> Continuation \cup {NullPointer}]
    BY DEF TaskInv, ContinuationTypes
  <2>3. n >= 1 /\ at = live[n]
    BY <2>1 DEF TaskInv, LiveInv, WaitInv
  <2>4. NullPointer \notin Continuation /\ \A c \in Created : c \in Continuation
    BY DEF TaskInv, ContinuationTypes, Created, Continuation, NamesAreNoNumbers
  <2> QED  BY <2>1, <2>2, <2>3, <2>4
<1>2. s.callee \in Created /\ return_to[s.callee] = current
  BY <1>1 DEF TaskInv, CallersInv
<1>3. /\ status' = IF place > 0 /\ s.callee \in ToSet(SubSeq(live, place + 1, n))
                   THEN "running" ELSE "aborted"
      /\ at' = s.on /\ live' = SubSeq(live, 1, place)
      /\ please_clean' = [please_clean EXCEPT ![current] = NullPointer]
      /\ please_clean[current] = NullPointer => UNCHANGED <<own_stack, allocator>>
      /\ please_clean[current] # NullPointer => Cleanup(please_clean[current])
      /\ UNCHANGED <<task_program, current, exception, handlers, running, return_to, saved>>
  <2>1. place = SelectInSeq(live, LAMBDA l : l = s.on)
    BY DEF Place, SelectInSeq
  <2> QED  BY <2>1, <1>2 DEF CameBack
<1> HIDE DEF place, n
<1>4. \A i, j \in DOMAIN live : live[i] = live[j] => i = j
  BY <1>1, LiveOnce DEF TaskInv
<1>5. \A c \in Continuation : please_clean'[c] = NullPointer
  BY <1>1, <1>3 DEF TaskInv, WaitInv
<1>6. Continuation' = Continuation /\ Created' = Created
  BY <1>3 DEF Continuation, Created
<1>7. CallersInv'
  BY <1>3, <1>6 DEF TaskInv, CallersInv
<1>8. ASSUME live' \in Seq(Continuation) PROVE ContinuationTypes'
  <2>1. please_clean' \in [Continuation -> Continuation \cup {NullPointer}]
    BY <1>1, <1>3
  <2>2. status' \in {"running", "aborted"} /\ at' \in Continuation
    BY <1>1, <1>3
  <2> QED  BY <1>3, <1>6, <1>8, <2>1, <2>2 DEF TaskInv, ContinuationTypes
<1>9. CASE Returning
  <2>1. n - 1 \in DOMAIN live /\ n \in 2 .. n /\ please_clean[current] = at
    BY <1>1, <1>9 DEF Returning, n
  <2>2. s = [on |-> live[n - 1], callee |-> at] /\ running[current] = TRUE
    <3>1. Waits(n)
      BY <1>1, <2>1 DEF TaskInv, WaitInv, n
    <3>2. return_to[live[n]] = current
      BY <1>1, <1>9 DEF Returning
    <3> QED  BY <3>1, <3>2, <1>1 DEF Waits
  <2>3. place = n - 1
    BY <2>1, <2>2, <1>1, <1>4, PlaceFound DEF place
  <2>4. status' = "running"
    <3>1. DOMAIN SubSeq(live, n, n) = 1 .. 1 /\ SubSeq(live, n, n)[1] = live[n]
      BY <1>1, <2>1
    <3>2. at \in ToSet(SubSeq(live, n, n))
      BY <3>1, <1>1 DEF ToSet
    <3>3. s.callee = at
      BY <2>2
    <3>4. n - 1 > 0 /\ n - 1 + 1 = n
      BY <1>1, <2>1
    <3> QED  BY <3>2, <3>3, <3>4, <2>3, <1>3
  <2>5. live' = SubSeq(live, 1, n - 1) /\ at' = live[n - 1]
    BY <2>2, <2>3, <1>3
  <2>6. /\ live' \in Seq(Continuation) /\ Len(live') = n - 1 /\ Len(live') >= 1
        /\ DOMAIN live' = 1 .. n - 1 /\ \A j \in 1 .. n - 1 : j \in DOMAIN live /\ live'[j] = live[j]
        /\ \A j \in 2 .. n - 1 : own_stack[live'[j]] # NullPointer
    BY <2>1, <2>5, <1>1, PrefixLives, ZenonT(60) DEF TaskInv
  <2>7. LiveInv' /\ WaitInv'
    <3>1. /\ n \in 2 .. Len(live) /\ live[n] = at /\ n - 1 < n
          /\ saved[current] = [on |-> live[n - 1], callee |-> at]
      BY <1>1, <2>1, <2>2 DEF n
    <3> QED  BY <3>1, <2>1, <2>2, <2>4, <2>5, <1>1, <1>3, <1>5, PrefixWaits
  <2>8. StacksInv'
    <3>1. Cleanup(at) /\ at \in Created
      BY <1>1, <1>2, <1>3, <2>1, <2>2
    <3>2. \A j \in 2 .. Len(live') : live'[j] # at
      <4> TAKE j \in 2 .. Len(live')
      <4>1. j \in 1 .. n - 1 /\ j # n /\ n \in DOMAIN live
        BY <1>1, <2>1, <2>6
      <4> QED  BY <4>1, <2>6, <1>1, <1>4
    <3> QED  BY <3>1, <3>2, <2>6, <1>3, CleanupKeeps DEF TaskInv
  <2>9. HandlersInv'
    <3>1. /\ \A h \in DOMAIN handlers : handlers[h] # at
          /\ handlers' = handlers
      BY <1>3, <1>9 DEF Returning
    <3>2. /\ \A h \in DOMAIN handlers : \E k \in DOMAIN live : handlers[h] = live[k]
          /\ \A g, h \in DOMAIN handlers : \A k, l \in DOMAIN live :
               g <= h /\ handlers[g] = live[k] /\ handlers[h] = live[l] => k <= l
      BY <1>1 DEF TaskInv, HandlersInv
    <3>3. ASSUME NEW h \in DOMAIN handlers PROVE \E k \in DOMAIN live' : handlers[h] = live'[k]
      <4>1. PICK k \in DOMAIN live : handlers[h] = live[k]
        BY <3>2
      <4>2. k # n
        BY <4>1, <3>1, <1>1
      <4>3. k \in 1 .. n - 1
        BY <4>2, <1>1
      <4> QED  BY <4>1, <4>3, <2>6
    <3>4. \A g, h \in DOMAIN handlers : \A k, l \in DOMAIN live' :
               g <= h /\ handlers[g] = live'[k] /\ handlers[h] = live'[l] => k <= l
      BY <3>2, <2>6
    <3> QED  BY <3>1, <3>3, <3>4 DEF HandlersInv
  <2>10. ContinuationTypes'
    BY <1>8, <2>6
  <2> QED  BY <2>4, <2>5, <2>7, <2>8, <2>9, <2>10, <1>7 DEF TaskInv, n
<1>10. CASE ~Returning /\ Aborting /\ \A c \in Continuation : please_clean[c] = NullPointer
  <2>1. handlers = <<>> /\ current = Base /\ running[current] = TRUE
    BY <1>10 DEF Aborting, TaskInv, CallersInv
  <2>2. UNCHANGED <<own_stack, free, pages>>
    BY <1>1, <1>3, <1>10 DEF allocator
  <2>3. HandlersInv'
    BY <2>1, <1>3 DEF HandlersInv
  <2>4. place = 0 \/ (place \in DOMAIN live /\ live[place] = s.on)
    <3> DEFINE e == s.on
    <3>1. place = Place(live, e)
      BY DEF place
    <3> HIDE DEF e
    <3>2. \/ Place(live, e) = 0
          \/ Place(live, e) \in DOMAIN live /\ live[Place(live, e)] = e
      <4>1. live \in Seq(Continuation)
        BY <1>1
      <4> QED  BY <4>1, <1>4, PlaceOrNone
    <3> QED  BY <3>1, <3>2 DEF e
  <2>5. CASE place = 0
    <3>1. live' = <<>> /\ status' = "aborted"
      BY <2>5, <1>1, <1>3
    <3>2. StacksInv'
      BY <3>1, <2>2, <1>6 DEF TaskInv, StacksInv
    <3>3. LiveInv'
      BY <3>1 DEF LiveInv
    <3>4. WaitInv'
      BY <3>1, <1>5, <1>6 DEF WaitInv
    <3>5. live' \in Seq(Continuation)
      BY <3>1
    <3> QED  BY <3>2, <3>3, <3>4, <3>5, <2>3, <1>7, <1>8, <1>10 DEF TaskInv
  <2>6. CASE place \in DOMAIN live /\ live[place] = s.on
    <3>1. /\ live' \in Seq(Continuation) /\ Len(live') = place
          /\ \A j \in 2 .. place : own_stack[live'[j]] # NullPointer
      BY <2>6, <1>1, <1>3, PrefixLives DEF TaskInv
    <3>2. StacksInv'
      BY <3>1, <2>2, <1>6 DEF TaskInv, StacksInv
    <3>3. CASE status' = "aborted"
      <4>1. LiveInv' /\ WaitInv'
        BY <3>3, <1>5, <1>6 DEF LiveInv, WaitInv
      <4> QED  BY <3>1, <3>2, <4>1, <2>3, <1>7, <1>8, <1>10 DEF TaskInv
    <3>4. CASE status' = "running"
      <4>1. s.callee \in ToSet(SubSeq(live, place + 1, n))
        BY <3>4, <1>3
      <4>2. PICK m \in 2 .. n : live[m] = s.callee /\ place < m
        <5>1. /\ place \in Nat /\ place >= 1 /\ place <= n
              /\ DOMAIN SubSeq(live, place + 1, n) = 1 .. n - place
              /\ \A j \in 1 .. n - place : /\ j + place \in 2 .. n /\ place < j + place
                                          /\ SubSeq(live, place + 1, n)[j] = live[j + place]
          BY <2>6, <1>1
        <5>2. PICK j \in 1 .. n - place : s.callee = SubSeq(live, place + 1, n)[j]
          BY <4>1, <5>1 DEF ToSet
        <5>3. /\ j + place \in 2 .. n /\ live[j + place] = s.callee /\ place < j + place
          BY <5>1, <5>2
        <5> QED  BY <5>3
      <4>3. saved[current] = [on |-> live[place], callee |-> s.callee]
        BY <2>6, <1>1
      <4>4. LiveInv' /\ WaitInv'
        <5>1. m \in 2 .. Len(live)
          BY DEF n
        <5> QED  BY <5>1, <3>4, <4>2, <4>3, <2>1, <2>6, <1>1, <1>3, <1>5, PrefixWaits
      <4> QED  BY <3>1, <3>2, <4>4, <2>3, <1>7, <1>8, <1>10 DEF TaskInv
    <3> QED  BY <3>3, <3>4, <1>3
  <2> QED  BY <2>4, <2>5, <2>6
<1> QED  BY <1>1, <1>9, <1>10 DEF TaskInv, WaitInv

LEMMA TaskNext ==
  ASSUME NamesAreNoNumbers, TaskInv, [ContinuationsNext]_continuation_vars
  PROVE  TaskInv'
BY TaskCallCC, TaskReturn, TaskTaskEnds, TaskCameBack, TaskBeginTry, TaskEndTry, TaskThrow,
   TaskThrowUnhandled, TaskCollect, TaskStutters DEF ContinuationsNext

(***************************************************************************)
(* Programs that behave                                                    *)
(***************************************************************************)
LEMMA SafeInit ==
  ASSUME NamesAreNoNumbers, ContinuationsInit
  PROVE  SafeInv
BY DEF ContinuationsInit, SafeInv, Continuation, Created

LEMMA SafeNext ==
  ASSUME NamesAreNoNumbers, ProgramsBehave, TaskInv, SafeInv, [ContinuationsNext]_continuation_vars
  PROVE  SafeInv'
<1>0. ~({"throw", "collect"} \subseteq task_program) /\ ~({"call", "abort"} \subseteq task_program)
  BY DEF TaskInv, ContinuationTypes, ProgramsBehave
<1>1. /\ running \in [Continuation -> BOOLEAN] /\ live \in Seq(Continuation)
      /\ DOMAIN live = 1 .. Len(live) /\ Len(live) \in Nat
      /\ Created \subseteq Continuation /\ exception \in BOOLEAN
  BY DEF TaskInv, ContinuationTypes, Created, Continuation
\* A step that leaves the calls alone, and that no program forbids.
<1> DEFINE Quiet == UNCHANGED <<task_program, running, saved, live>>
<1>2. ASSUME Quiet, status' # "aborted",
             exception' = TRUE => "abort" \in task_program /\ status' # "running"
      PROVE  SafeInv'
  BY <1>2 DEF SafeInv, Continuation, Created
<1>3. CASE CallCC
  <2> DEFINE c == Cardinality(Created) + 1
  <2>1. /\ "call" \in task_program /\ status = "running" /\ live' = Append(live, c)
        /\ running' = With(running, c, TRUE)
        /\ UNCHANGED <<task_program, status, exception>>
    BY <1>3 DEF CallCC, Does
  <2> HIDE DEF c
  <2>2. exception' # TRUE /\ status' # "aborted"
    BY <1>0, <2>1 DEF SafeInv
  <2>3. /\ DOMAIN live' = 1 .. Len(live) + 1 /\ live'[Len(live) + 1] = c
        /\ \A k \in 1 .. Len(live) : live'[k] = live[k]
    BY <1>1, <2>1
  <2>4. ASSUME "throw" \notin task_program, NEW d \in Created'
        PROVE  running'[d] = FALSE \/ \E k \in DOMAIN live' : live'[k] = d
    <3>1. CASE d = c
      <4>1. Len(live) + 1 \in DOMAIN live'
        BY <1>1, <2>3
      <4> QED  BY <3>1, <4>1, <2>3
    <3>2. CASE d # c
      <4>1. d \in Created /\ running'[d] = running[d]
        BY <3>2, <2>1 DEF With, Created
      <4>2. CASE running[d] = FALSE
        BY <4>1, <4>2
      <4>3. CASE running[d] # FALSE
        <5>1. PICK k \in DOMAIN live : live[k] = d
          BY <4>1, <4>3, <2>4 DEF SafeInv
        <5>2. k \in DOMAIN live' /\ live'[k] = d
          BY <5>1, <1>1, <2>3
        <5> QED  BY <5>2
      <4> QED  BY <4>2, <4>3
    <3> QED  BY <3>1, <3>2
  <2> QED  BY <2>1, <2>2, <2>4 DEF SafeInv
<1>4. CASE Return
  <2>1. /\ status = "running" /\ at \in Created /\ at # Base
        /\ running[return_to[at]] = TRUE /\ please_clean[return_to[at]] = NullPointer
    BY <1>4, ReturnIsAwaited DEF Return
  <2>2. /\ running' = [running EXCEPT ![at] = FALSE] /\ status' = "resuming"
        /\ UNCHANGED <<task_program, exception, saved, live>>
    BY <1>4, <2>1 DEF Return, Resume
  <2>3. exception' # TRUE
    BY <2>1, <2>2 DEF SafeInv
  <2>4. "call" \in task_program
    BY <1>1, <2>1 DEF SafeInv
  <2>5. ASSUME "throw" \notin task_program, NEW d \in Created'
        PROVE  running'[d] = FALSE \/ \E k \in DOMAIN live' : live'[k] = d
    <3>1. d \in Created /\ d \in Continuation
      BY <1>1, <2>2 DEF Created, Continuation
    <3>2. running'[d] = FALSE \/ running'[d] = running[d]
      BY <1>1, <2>2, <3>1
    <3> QED  BY <3>1, <3>2, <2>2, <2>5 DEF SafeInv
  <2> QED  BY <2>2, <2>3, <2>4, <2>5 DEF SafeInv
<1>5. CASE TaskEnds
  BY <1>2, <1>5 DEF TaskEnds, SafeInv, members
<1>6. CASE CameBack
  <2>1. "call" \in task_program
    <3> SUFFICES ASSUME "call" \notin task_program PROVE FALSE
      OBVIOUS
    <3>1. current = Base /\ saved[Base].callee = NullPointer
      BY DEF SafeInv, TaskInv, ContinuationTypes
    <3> QED  BY <3>1, <1>6 DEF CameBack
  <2>2. exception # TRUE
    BY <1>0, <2>1 DEF SafeInv
  <2>3. Returning
    BY <1>6, <2>2 DEF TaskInv, WaitInv, Aborting, CameBack
  <2>4. /\ status' = "running" /\ live' = SubSeq(live, 1, Len(live) - 1)
        /\ UNCHANGED <<task_program, exception, running>>
    BY <1>6, <2>3, TaskCameBack DEF CameBack
  <2>5. /\ Len(live) >= 2 /\ live[Len(live)] = at /\ running[at] = FALSE
    BY <2>3, <1>6 DEF Returning, TaskInv, WaitInv, CameBack
  <2>6. /\ DOMAIN live' = 1 .. Len(live) - 1
        /\ \A k \in 1 .. Len(live) - 1 : live'[k] = live[k]
    BY <1>1, <2>4, <2>5
  <2>7. ASSUME "throw" \notin task_program, NEW d \in Created'
        PROVE  running'[d] = FALSE \/ \E k \in DOMAIN live' : live'[k] = d
    <3>1. d \in Created
      BY <2>4 DEF Created
    <3>2. CASE running[d] = FALSE
      BY <3>2, <2>4
    <3>3. CASE running[d] # FALSE
      <4>1. PICK k \in DOMAIN live : live[k] = d
        BY <3>1, <3>3, <2>7 DEF SafeInv
      <4>2. k # Len(live)
        BY <4>1, <3>3, <2>5
      <4>3. k \in 1 .. Len(live) - 1
        BY <4>2, <1>1
      <4> QED  BY <4>1, <4>3, <2>6
    <3> QED  BY <3>2, <3>3
  <2> QED  BY <2>1, <2>2, <2>4, <2>7 DEF SafeInv
<1>7. CASE BeginTry
  BY <1>2, <1>7 DEF BeginTry, Does, SafeInv, members
<1>8. CASE EndTry
  BY <1>2, <1>8 DEF EndTry, Does, SafeInv, members
<1>9. CASE Throw
  <2>1. /\ "throw" \in task_program /\ status = "running"
        /\ UNCHANGED <<task_program, status, exception, running, saved>>
    BY <1>9 DEF Throw, Does, members
  <2> QED  BY <2>1 DEF SafeInv, Continuation
<1>10. CASE ThrowUnhandled
  <2>1. exception # TRUE /\ "abort" \in task_program
    BY <1>10 DEF SafeInv, ThrowUnhandled, Does
  <2>2. /\ exception' = TRUE /\ status' = "resuming"
        /\ UNCHANGED <<task_program, running, saved, live>>
    BY <1>1, <1>10, <2>1 DEF ThrowUnhandled, Resume, members
  <2> QED  BY <1>2, <2>1, <2>2
<1>11. CASE \E c \in Created : CollectContinuation(c)
  <2>1. PICK c \in Created : CollectContinuation(c)
    BY <1>11
  <2>2. "throw" \notin task_program /\ status = "running" /\ c \notin ToSet(live)
    BY <1>0, <2>1 DEF CollectContinuation, Does
  <2>3. running[c] = FALSE
    BY <1>1, <2>2 DEF SafeInv, ToSet
  <2>4. UNCHANGED <<task_program, status, exception, running, saved, live>>
    BY <2>1, <2>3 DEF CollectContinuation
  <2> QED  BY <1>2, <2>2, <2>4 DEF SafeInv
<1>12. CASE UNCHANGED continuation_vars
  BY <1>2, <1>12 DEF continuation_vars, SafeInv
<1> QED  BY <1>3, <1>4, <1>5, <1>6, <1>7, <1>8, <1>9, <1>10, <1>11, <1>12 DEF ContinuationsNext

(***************************************************************************)
(* Theorems                                                                *)
(***************************************************************************)
\* StacksHaveOneOwner: whatever functions call, throw, collect and abort, also
\* when a resumed call is gone and the task ends in an assertion, each stack
\* has one owner or is free once (fixed-alloc.c, continuation.c:38-56).
THEOREM EachStackHasOneOwner ==
  ASSUME NamesAreNoNumbers
  PROVE  ContinuationsSpec => []StacksHaveOneOwner
<1>1. TaskInv => StacksHaveOneOwner
  <2> SUFFICES ASSUME TaskInv PROVE StacksHaveOneOwner
    OBVIOUS
  <2>1. free \in Seq(1 .. pages) /\ own_stack \in [Continuation -> (1 .. pages) \cup {NullPointer}]
    BY DEF TaskInv, StacksInv
  <2>2. \A c \in Created : own_stack[c] \notin ToSet(free)
    BY <2>1 DEF TaskInv, StacksInv, ToSet
  <2>3. IsInjective(free)
    BY DEF TaskInv, StacksInv, IsInjective
  <2> QED  BY <2>2, <2>3 DEF TaskInv, StacksInv, StacksHaveOneOwner
<1> QED  BY <1>1, TaskInit, TaskNext, PTL DEF ContinuationsSpec

\* ReturnsReachTheirCaller, for programs that do not call and abort, or throw
\* and collect: whatever calls and throws went before, the return of each
\* live function leads to the call that waits for it, and no assertion of
\* snow_continuation_return or of continuation_gc_cleanup fails
\* (continuation.c:38-124).
THEOREM EachReturnReachesItsCaller ==
  ASSUME NamesAreNoNumbers, ProgramsBehave
  PROVE  ContinuationsSpec => []ReturnsReachTheirCaller
<1>1. TaskInv /\ SafeInv => ReturnsReachTheirCaller
  <2> SUFFICES ASSUME TaskInv, SafeInv PROVE ReturnsReachTheirCaller
    OBVIOUS
  <2>1. status # "aborted"
    BY DEF SafeInv
  <2> SUFFICES ASSUME status = "running"
               PROVE  /\ at = Last(live)
                      /\ \A i \in 2 .. Len(live) :
                           /\ saved[return_to[live[i]]] = [on |-> live[i - 1], callee |-> live[i]]
                           /\ running[return_to[live[i]]]
                           /\ please_clean[return_to[live[i]]] = NullPointer
    BY <2>1 DEF ReturnsReachTheirCaller
  <2>2. at = Last(live)
    BY DEF TaskInv, WaitInv, Last
  <2>3. ASSUME NEW i \in 2 .. Len(live)
        PROVE  /\ saved[return_to[live[i]]] = [on |-> live[i - 1], callee |-> live[i]]
               /\ running[return_to[live[i]]]
               /\ please_clean[return_to[live[i]]] = NullPointer
    <3>1. Waits(i)
      BY DEF TaskInv, WaitInv
    <3>2. live[i] \in Created
      BY <2>1 DEF TaskInv, LiveInv
    <3>3. return_to[live[i]] = Base \/ return_to[live[i]] \in Created
      BY <3>2 DEF TaskInv, CallersInv
    <3>4. return_to[live[i]] \in Continuation
      BY <3>3 DEF TaskInv, ContinuationTypes, Created, Continuation
    <3>5. please_clean[return_to[live[i]]] = NullPointer
      BY <3>4 DEF TaskInv, WaitInv
    <3> QED  BY <3>1, <3>5 DEF Waits
  <2> QED  BY <2>2, <2>3
<1> QED  BY <1>1, TaskInit, TaskNext, SafeInit, SafeNext, PTL DEF ContinuationsSpec

-----------------------------------------------------------------------------
(***************************************************************************)
(* Link buffers                                                            *)
(***************************************************************************)
\* What may be in a buffer.
Content == Byte \cup {Behind}

\* All pages but the last are full.
Filled(ps) ==
  /\ ps \in Seq(Seq(Content))
  /\ \A k \in 1 .. Len(ps) :
       Len(ps[k]) \in 1 .. PageSize /\ (k # Len(ps) => Len(ps[k]) = PageSize)

BufferInv ==
  /\ Filled(buffer_pages)
  /\ \A o \in placeholders : o \in Nat /\ o + PatchLength <= BufferSize(buffer_pages)

(***************************************************************************)
(* Pages                                                                   *)
(***************************************************************************)
\* Where page k begins, in bytes.
Start(k) == (k - 1) * PageSize

LEMMA Starts ==
  /\ Start(1) = 0
  /\ \A k \in Nat \ {0} : Start(k) \in Nat /\ Start(k + 1) = Start(k) + PageSize
  /\ \A j \in Nat \ {0}, k \in Nat \ {0} : j < k => Start(j) + PageSize <= Start(k)
<1>1. PageSize \in Nat \ {0}
  BY LinkBufferAssumption
<1>2. ASSUME NEW m \in Nat PROVE m * PageSize \in Nat /\ (m + 1) * PageSize = m * PageSize + PageSize
  BY <1>1
<1>3. ASSUME NEW m \in Nat, NEW n \in Nat, m < n PROVE m * PageSize + PageSize <= n * PageSize
  <2>1. n = m + 1 + (n - m - 1) /\ n - m - 1 \in Nat
    BY <1>3
  <2> DEFINE d == n - m - 1
  <2>2. d * PageSize \in Nat
    BY <1>1, <2>1
  <2> QED  BY <1>1, <2>1, <2>2
<1>4. 0 * PageSize = 0
  BY <1>1
<1> QED  BY <1>2, <1>3, <1>4 DEF Start

\* The page and the place on it that an offset has.
LEMMA OffsetIs ==
  ASSUME NEW o \in Nat
  PROVE  \E k \in Nat \ {0} : o = Start(k) + (o % PageSize) /\ o % PageSize \in 0 .. PageSize - 1
<1>1. PageSize \in Nat \ {0}
  BY LinkBufferAssumption
<1>2. o = PageSize * (o \div PageSize) + (o % PageSize) /\ o % PageSize \in 0 .. PageSize - 1
  BY <1>1
<1>3. o \div PageSize \in Nat
  BY <1>1
<1>4. o = Start((o \div PageSize) + 1) + (o % PageSize)
  BY <1>1, <1>2, <1>3 DEF Start
<1> QED  BY <1>2, <1>3, <1>4

LEMMA FilledIs ==
  ASSUME NEW ps, Filled(ps)
  PROVE  /\ Len(ps) \in Nat /\ PageSize \in Nat \ {0}
         /\ \A k \in 1 .. Len(ps) :
              ps[k] \in Seq(Content) /\ Len(ps[k]) \in Nat \ {0} /\ Len(ps[k]) <= PageSize
BY LinkBufferAssumption DEF Filled

\* The first m pages: as many bytes as the offset where they end, each at the
\* offset that its page and place have.
Laid(ps, m) ==
  LET f == Flattened(ps, m)
  IN /\ f \in Seq(Content)
     /\ Len(f) = IF m = 0 THEN 0 ELSE Start(m) + Len(ps[m])
     /\ \A k \in 1 .. m : \A j \in 1 .. Len(ps[k]) :
          Start(k) + j \in 1 .. Len(f) /\ f[Start(k) + j] = ps[k][j]
     /\ \A n \in 1 .. Len(f) : \E k \in 1 .. m : \E j \in 1 .. Len(ps[k]) : n = Start(k) + j

LEMMA PagesAreLaid ==
  ASSUME NEW ps, Filled(ps)
  PROVE  \A m \in 0 .. Len(ps) : Laid(ps, m)
<1>1. /\ Len(ps) \in Nat /\ PageSize \in Nat \ {0} /\ ps \in Seq(Seq(Content))
      /\ \A k \in 1 .. Len(ps) : ps[k] \in Seq(Content) /\ Len(ps[k]) \in Nat \ {0} /\ Len(ps[k]) <= PageSize
  BY FilledIs DEF Filled
<1>2. /\ Flattened(ps, 0) = <<>>
      /\ \A m \in 0 .. Len(ps) : Flattened(ps, m) \in Seq(Content)
      /\ \A m \in 1 .. Len(ps) : Flattened(ps, m) = Flattened(ps, m - 1) \o ps[m]
  BY <1>1, FlattenedIs
<1> DEFINE Good == {m \in 0 .. Len(ps) : Laid(ps, m)}
<1>3. 0 \in Good
  BY <1>1, <1>2 DEF Laid
<1>4. ASSUME NEW m \in 1 .. Len(ps), m - 1 \in Good PROVE m \in Good
  <2> DEFINE prior == Flattened(ps, m - 1)
             f == Flattened(ps, m)
  <2>1. /\ prior \in Seq(Content) /\ ps[m] \in Seq(Content) /\ f = prior \o ps[m]
        /\ m \in 0 .. Len(ps) /\ m - 1 \in 0 .. Len(ps) /\ m \in Nat \ {0}
    <3>1. m \in 0 .. Len(ps) /\ m - 1 \in 0 .. Len(ps) /\ m \in Nat \ {0}
      BY <1>1
    <3>2. ps[m] \in Seq(Content)
      BY <1>1
    <3> QED  BY <3>1, <3>2, <1>2
  <2>2. /\ f \in Seq(Content) /\ Len(f) = Len(prior) + Len(ps[m])
        /\ \A n \in 1 .. Len(prior) : f[n] = prior[n]
        /\ \A j \in 1 .. Len(ps[m]) : f[Len(prior) + j] = ps[m][j]
        /\ Len(prior) \in Nat
    <3> HIDE DEF f, prior
    <3>1. Len(prior) \in Nat
      BY <2>1
    <3> QED  BY <2>1, <3>1, Joined
  <2>3. /\ Len(prior) = IF m - 1 = 0 THEN 0 ELSE Start(m - 1) + Len(ps[m - 1])
        /\ \A k \in 1 .. m - 1 : \A j \in 1 .. Len(ps[k]) :
             Start(k) + j \in 1 .. Len(prior) /\ prior[Start(k) + j] = ps[k][j]
        /\ \A n \in 1 .. Len(prior) :
             \E k \in 1 .. m - 1 : \E j \in 1 .. Len(ps[k]) : n = Start(k) + j
    BY <1>4 DEF Laid
  <2> HIDE DEF f, prior
  <2>4. Len(prior) = Start(m)
    <3>1. CASE m = 1
      BY <3>1, <2>3, Starts
    <3>2. CASE m # 1
      <4>1. m - 1 \in 1 .. Len(ps) /\ m - 1 # Len(ps) /\ m - 1 \in Nat \ {0}
        BY <2>1, <3>2
      <4>2. Len(ps[m - 1]) = PageSize
        BY <4>1 DEF Filled
      <4>3. Start(m - 1 + 1) = Start(m - 1) + PageSize
        BY <4>1, Starts
      <4>4. m - 1 + 1 = m
        BY <2>1
      <4> QED  BY <2>3, <3>2, <4>1, <4>2, <4>3, <4>4
    <3> QED  BY <3>1, <3>2
  <2>5. Len(ps[m]) \in Nat /\ Start(m) \in Nat
    BY <1>1, <2>2, <2>4
  <2>6. ASSUME NEW k \in 1 .. m, NEW j \in 1 .. Len(ps[k])
        PROVE  Start(k) + j \in 1 .. Len(f) /\ f[Start(k) + j] = ps[k][j]
    <3>1. CASE k = m
      <4>1. Start(k) + j = Len(prior) + j /\ j \in 1 .. Len(ps[m])
        BY <3>1, <2>4
      <4>2. Len(prior) + j \in 1 .. Len(prior) + Len(ps[m])
        BY <4>1, <2>2, <2>5
      <4> QED  BY <3>1, <4>1, <4>2, <2>2
    <3>2. CASE k # m
      <4>1. k \in 1 .. m - 1
        BY <3>2
      <4>2. Start(k) + j \in 1 .. Len(prior) /\ prior[Start(k) + j] = ps[k][j]
        BY <4>1, <2>3
      <4> QED  BY <4>2, <2>2, <2>5
    <3> QED  BY <3>1, <3>2
  <2>7. ASSUME NEW n \in 1 .. Len(f)
        PROVE  \E k \in 1 .. m : \E j \in 1 .. Len(ps[k]) : n = Start(k) + j
    <3>1. CASE n <= Len(prior)
      <4>1. PICK k \in 1 .. m - 1 : \E j \in 1 .. Len(ps[k]) : n = Start(k) + j
        BY <3>1, <2>2, <2>3
      <4>2. k \in 1 .. m
        OBVIOUS
      <4> QED  BY <4>1, <4>2
    <3>2. CASE ~ n <= Len(prior)
      <4>1. n - Start(m) \in 1 .. Len(ps[m]) /\ n = Start(m) + (n - Start(m)) /\ m \in 1 .. m
        BY <3>2, <2>1, <2>2, <2>4, <2>5
      <4> QED  BY <4>1
    <3> QED  BY <3>1, <3>2
  <2>8. Laid(ps, m)
    <3>1. Len(f) = IF m = 0 THEN 0 ELSE Start(m) + Len(ps[m])
      BY <2>1, <2>2, <2>4
    <3> QED  BY <2>2, <2>6, <2>7, <3>1 DEF Laid, f
  <2> QED  BY <2>1, <2>8
<1>5. \A m \in 0 .. Len(ps) : m \in Good
  <2> HIDE DEF Good
  <2> QED  BY <1>1, <1>3, <1>4, UpTo
<1> QED  BY <1>5

\* The buffer's own count of its bytes is right.
LEMMA BufferIsLaid ==
  ASSUME NEW ps, Filled(ps)
  PROVE  /\ FlattenSeq(ps) \in Seq(Content) /\ Len(FlattenSeq(ps)) = BufferSize(ps)
         /\ BufferSize(ps) \in Nat
         /\ Len(ps) # 0 => BufferSize(ps) = Start(Len(ps)) + Len(ps[Len(ps)])
         /\ \A k \in 1 .. Len(ps) : \A j \in 1 .. Len(ps[k]) :
              /\ Start(k) + j \in 1 .. BufferSize(ps)
              /\ FlattenSeq(ps)[Start(k) + j] = ps[k][j]
         /\ \A n \in 1 .. BufferSize(ps) :
              \E k \in 1 .. Len(ps) : \E j \in 1 .. Len(ps[k]) : n = Start(k) + j
<1>1. Len(ps) \in Nat /\ ps \in Seq(Seq(Content)) /\ Flattened(ps, Len(ps)) = FlattenSeq(ps)
  BY FilledIs, FlattenedIs DEF Filled
<1>2. Laid(ps, Len(ps))
  BY <1>1, PagesAreLaid
<1>3. Len(FlattenSeq(ps)) = BufferSize(ps)
  <2>1. CASE Len(ps) = 0
    BY <1>1, <1>2, <2>1 DEF Laid, BufferSize
  <2>2. CASE Len(ps) # 0
    <3>1. ps # <<>> /\ Last(ps) = ps[Len(ps)]
      BY <1>1, <2>2 DEF Last
    <3> QED  BY <1>1, <1>2, <2>2, <3>1 DEF Laid, BufferSize, Start
  <2> QED  BY <2>1, <2>2
<1> DEFINE f == FlattenSeq(ps)
           N == BufferSize(ps)
<1>4. /\ f \in Seq(Content) /\ Len(f) = IF Len(ps) = 0 THEN 0 ELSE Start(Len(ps)) + Len(ps[Len(ps)])
      /\ \A k \in 1 .. Len(ps) : \A j \in 1 .. Len(ps[k]) :
           Start(k) + j \in 1 .. Len(f) /\ f[Start(k) + j] = ps[k][j]
      /\ \A n \in 1 .. Len(f) :
           \E k \in 1 .. Len(ps) : \E j \in 1 .. Len(ps[k]) : n = Start(k) + j
  BY <1>1, <1>2 DEF Laid
<1>5. Len(f) = N /\ Len(f) \in Nat
  BY <1>3, <1>4
<1>6. Len(ps) # 0 => N = Start(Len(ps)) + Len(ps[Len(ps)])
  BY <1>4, <1>5
<1> HIDE DEF f, N
<1>7. f \in Seq(Content) /\ Len(f) = N /\ N \in Nat
  BY <1>4, <1>5
<1>8. /\ \A k \in 1 .. Len(ps) : \A j \in 1 .. Len(ps[k]) :
           Start(k) + j \in 1 .. N /\ f[Start(k) + j] = ps[k][j]
      /\ \A n \in 1 .. N : \E k \in 1 .. Len(ps) : \E j \in 1 .. Len(ps[k]) : n = Start(k) + j
  BY <1>4, <1>7
<1> QED  BY <1>6, <1>7, <1>8 DEF f, N

(***************************************************************************)
(* Pushing                                                                 *)
(***************************************************************************)
LEMMA ByteAfterBytes ==
  \A s \in Seq(Content), t \in Seq(Content), b \in Content : (s \o t) \o <<b>> = s \o Append(t, b)
<1>1. JoinsOneMore(Content)
  BY AllJoinOneMore
<1> QED  BY <1>1 DEF JoinsOneMore

LEMMA PushByteIs ==
  ASSUME NEW ps, Filled(ps), NEW b \in Content
  PROVE  Filled(PushByte(ps, b)) /\ FlattenSeq(PushByte(ps, b)) = FlattenSeq(ps) \o <<b>>
<1> DEFINE S == Seq(Content)
           N == Len(ps)
           new == PushByte(ps, b)
<1>1. /\ N \in Nat /\ PageSize \in Nat \ {0} /\ ps \in Seq(S)
      /\ \A k \in 1 .. N : /\ ps[k] \in S /\ Len(ps[k]) \in 1 .. PageSize
                           /\ k # N => Len(ps[k]) = PageSize
  BY FilledIs DEF Filled
<1>2. CASE ps = <<>> \/ Len(Last(ps)) = PageSize
  <2>1. new = Append(ps, <<b>>) /\ <<b>> \in S /\ Len(<<b>>) = 1
    BY <1>2 DEF PushByte
  <2>2. FlattenSeq(new) = FlattenSeq(ps) \o <<b>>
    BY <1>1, <2>1, FlattenAppend
  <2> HIDE DEF S
  <2>3. /\ new \in Seq(S) /\ Len(new) = N + 1 /\ new[N + 1] = <<b>>
        /\ \A k \in 1 .. N : new[k] = ps[k]
    <3> HIDE DEF new
    <3> QED  BY <1>1, <2>1, Appended
  <2>4. ASSUME NEW k \in 1 .. N + 1
        PROVE  Len(new[k]) \in 1 .. PageSize /\ (k # N + 1 => Len(new[k]) = PageSize)
    <3> HIDE DEF new
    <3>1. CASE k = N + 1
      BY <3>1, <1>1, <2>1, <2>3
    <3>2. CASE k # N + 1
      <4>1. k \in 1 .. N /\ new[k] = ps[k]
        BY <3>2, <1>1, <2>3
      <4>2. CASE k = N
        <5>1. Last(ps) = ps[N] /\ ps # <<>>
          BY <4>1, <4>2 DEF Last
        <5> QED  BY <5>1, <4>1, <4>2, <1>1, <1>2
      <4>3. CASE k # N
        BY <4>1, <4>3, <1>1
      <4> QED  BY <4>2, <4>3
    <3> QED  BY <3>1, <3>2
  <2> HIDE DEF new
  <2>5. Filled(new)
    BY <1>1, <2>3, <2>4 DEF Filled, S
  <2> QED  BY <2>2, <2>5 DEF new
<1>3. CASE ps # <<>> /\ Len(Last(ps)) # PageSize
  <2> DEFINE F == Front(ps)
             L == Last(ps)
             y == Append(L, b)
  <2>1. /\ N \in Nat \ {0} /\ F \in Seq(S) /\ Len(F) = N - 1
        /\ \A k \in 1 .. N - 1 : F[k] = ps[k]
        /\ L \in S /\ L = ps[N] /\ Append(F, L) = ps
    <3> HIDE DEF S
    <3> QED  BY <1>1, <1>3, FrontLast, Rebuilt
  <2>2. /\ y \in S /\ Len(y) = Len(L) + 1 /\ y = L \o <<b>> /\ <<b>> \in S
        /\ Len(L) \in Nat
    BY <2>1
  <2>3. new = [ps EXCEPT ![N] = y]
    BY <1>3, <2>1 DEF PushByte
  <2> HIDE DEF F, L, y
  <2>4. /\ new \in Seq(S) /\ Len(new) = N /\ new[N] = y
        /\ \A k \in 1 .. N - 1 : new[k] = ps[k]
    <3> HIDE DEF S, new
    <3> QED  BY <1>1, <2>1, <2>2, <2>3
  <2>5. new = Append(F, y)
    <3> HIDE DEF S, new
    <3>1. /\ Append(F, y) \in Seq(S) /\ Len(Append(F, y)) = N /\ Append(F, y)[N] = y
          /\ \A k \in 1 .. N - 1 : Append(F, y)[k] = ps[k]
      <4>1. N - 1 + 1 = N
        BY <2>1
      <4>2. F \in Seq(S) /\ y \in S
        BY <2>1, <2>2
      <4>3. /\ Append(F, y) \in Seq(S) /\ Len(Append(F, y)) = Len(F) + 1
            /\ Append(F, y)[Len(F) + 1] = y
            /\ \A k \in 1 .. Len(F) : Append(F, y)[k] = F[k]
        BY <4>2, Appended
      <4> QED  BY <4>1, <4>3, <2>1
    <3>2. \A k \in 1 .. N : new[k] = Append(F, y)[k]
      <4> TAKE k \in 1 .. N
      <4>1. k = N \/ k \in 1 .. N - 1
        BY <2>1
      <4> QED  BY <4>1, <3>1, <2>4
    <3> QED  BY <2>4, <3>1, <3>2, SameSequence
  <2>6. FlattenSeq(new) = FlattenSeq(F) \o y /\ FlattenSeq(ps) = FlattenSeq(F) \o L
        /\ FlattenSeq(F) \in S
    <3>1. FlattenSeq(Append(F, y)) = FlattenSeq(F) \o y /\ FlattenSeq(F) \in S
      BY <2>1, <2>2, FlattenAppend
    <3>2. FlattenSeq(Append(F, L)) = FlattenSeq(F) \o L
      BY <2>1, FlattenAppend
    <3> QED  BY <2>1, <2>5, <3>1, <3>2
  <2>7. FlattenSeq(new) = FlattenSeq(ps) \o <<b>>
    <3>1. FlattenSeq(F) \in Seq(Content)
      BY <2>6
    <3>2. L \in Seq(Content)
      BY <2>1
    <3>3. (FlattenSeq(F) \o L) \o <<b>> = FlattenSeq(F) \o Append(L, b)
      BY <3>1, <3>2, ByteAfterBytes
    <3> QED  BY <3>3, <2>6 DEF y
  <2>8. ASSUME NEW k \in 1 .. N
        PROVE  Len(new[k]) \in 1 .. PageSize /\ (k # N => Len(new[k]) = PageSize)
    <3> HIDE DEF S, new
    <3>1. CASE k = N
      <4>1. Len(L) \in 1 .. PageSize /\ Len(L) # PageSize
        BY <1>1, <1>3, <2>1 DEF L
      <4> QED  BY <3>1, <4>1, <2>2, <2>4, <1>1
    <3>2. CASE k # N
      <4>1. k \in 1 .. N - 1
        BY <3>2, <2>1
      <4> QED  BY <3>2, <4>1, <1>1, <2>4
    <3> QED  BY <3>1, <3>2
  <2>9. Filled(new)
    <3> HIDE DEF new
    <3> QED  BY <2>4, <2>8 DEF Filled
  <2> QED  BY <2>7, <2>9
<1> QED  BY <1>2, <1>3

\* Any number of pushes: the bytes end with those that were pushed.
LEMMA PushAllIs ==
  ASSUME NEW ps, Filled(ps), NEW bs \in Seq(Content)
  PROVE  Filled(PushAll(ps, bs)) /\ FlattenSeq(PushAll(ps, bs)) = FlattenSeq(ps) \o bs
<1> DEFINE S == {q \in Seq(Seq(Content)) : Filled(q)}
           N == Len(bs)
           step == [n \in 1 .. N |-> [q \in S |-> PushByte(q, bs[n])]]
           IsPushed(f) == f = [n \in 0 .. N |-> IF n = 0 THEN ps ELSE PushByte(f[n - 1], bs[n])]
<1>1. N \in Nat /\ \A n \in 1 .. N : bs[n] \in Content
  OBVIOUS
<1>2. ps \in S /\ \A q \in S : Filled(q)
  BY DEF Filled
<1>3. ASSUME NEW q \in S, NEW n \in 1 .. N PROVE PushByte(q, bs[n]) \in S
  <2>1. Filled(PushByte(q, bs[n]))
    BY <1>1, <1>2, PushByteIs
  <2> QED  BY <2>1 DEF Filled
<1>4. PICK g \in [0 .. N -> S] : g[0] = ps /\ \A n \in 1 .. N : g[n] = step[n][g[n - 1]]
  <2>1. step \in [1 .. N -> [S -> S]]
    <3> HIDE DEF S, N
    <3> QED  BY <1>3
  <2>2. N \in Nat /\ ps \in S
    BY <1>1, <1>2
  <2> HIDE DEF S, N, step
  <2> QED  BY <2>1, <2>2, Folded
<1>5. ASSUME NEW n \in 1 .. N PROVE g[n - 1] \in S /\ g[n] = PushByte(g[n - 1], bs[n])
  <2>1. n - 1 \in 0 .. N
    BY <1>1
  <2>2. g[n - 1] \in S
    <3> HIDE DEF S, N, step
    <3> QED  BY <2>1
  <2>3. step[n] = [q \in S |-> PushByte(q, bs[n])]
    OBVIOUS
  <2>4. step[n][g[n - 1]] = PushByte(g[n - 1], bs[n])
    <3> HIDE DEF S, N, step
    <3> QED  BY <2>2, <2>3
  <2> QED  BY <1>4, <2>2, <2>4
<1>6. IsPushed(g)
  <2>1. ASSUME NEW n \in 0 .. N PROVE g[n] = IF n = 0 THEN ps ELSE PushByte(g[n - 1], bs[n])
    <3>1. n = 0 \/ n \in 1 .. N
      BY <1>1
    <3> QED  BY <3>1, <1>4, <1>5
  <2> HIDE DEF S, N, step
  <2> QED  BY <2>1
<1> DEFINE c == CHOOSE f : IsPushed(f)
<1>7. IsPushed(c)
  <2> HIDE DEF IsPushed
  <2> QED  BY <1>6
<1>8. PushAll(ps, bs) = c[N]
  BY DEF PushAll
<1>9. c[0] = ps /\ \A n \in 1 .. N : c[n] = PushByte(c[n - 1], bs[n])
  <2> HIDE DEF c
  <2>1. 0 \in 0 .. N /\ \A n \in 1 .. N : n \in 0 .. N /\ n # 0
    BY <1>1
  <2> QED  BY <1>7, <2>1
<1> HIDE DEF c
<1> DEFINE Good == {n \in 0 .. N : /\ Filled(c[n])
                                   /\ FlattenSeq(c[n]) = FlattenSeq(ps) \o SubSeq(bs, 1, n)}
<1>10. FlattenSeq(ps) \in Seq(Content)
  BY BufferIsLaid
<1>11. 0 \in Good
  <2>1. SubSeq(bs, 1, 0) = <<>>
    BY PrefixIs
  <2>2. FlattenSeq(ps) \o <<>> = FlattenSeq(ps)
    BY <1>10
  <2>3. 0 \in 0 .. N
    BY <1>1
  <2> QED  BY <2>1, <2>2, <2>3, <1>9
<1>12. ASSUME NEW n \in 1 .. N, n - 1 \in Good PROVE n \in Good
  <2> DEFINE u == SubSeq(bs, 1, n - 1)
  <2>1. /\ n - 1 \in 0 .. N /\ n \in 0 .. N /\ bs[n] \in Content /\ <<bs[n]>> \in Seq(Content)
    BY <1>1
  <2>2. u \in Seq(Content) /\ SubSeq(bs, 1, n) = Append(u, bs[n])
    BY <2>1, PrefixIs
  <2>3. Filled(c[n - 1]) /\ FlattenSeq(c[n - 1]) = FlattenSeq(ps) \o u /\ c[n] = PushByte(c[n - 1], bs[n])
    BY <1>9, <1>12
  <2> HIDE DEF u
  <2>4. Filled(c[n]) /\ FlattenSeq(c[n]) = (FlattenSeq(ps) \o u) \o <<bs[n]>>
    BY <2>1, <2>3, PushByteIs
  <2>5. (FlattenSeq(ps) \o u) \o <<bs[n]>> = FlattenSeq(ps) \o SubSeq(bs, 1, n)
    <3>1. u \in Seq(Content)
      BY <2>2
    <3>2. bs[n] \in Content
      BY <2>1
    <3>3. (FlattenSeq(ps) \o u) \o <<bs[n]>> = FlattenSeq(ps) \o Append(u, bs[n])
      BY <1>10, <3>1, <3>2, ByteAfterBytes
    <3> QED  BY <3>3, <2>2
  <2> QED  BY <2>1, <2>4, <2>5
<1>13. N \in Good
  <2>1. \A n \in 0 .. N : n \in Good
    <3> HIDE DEF Good, N
    <3> QED  BY <1>1, <1>11, <1>12, UpTo
  <2>2. N \in 0 .. N
    BY <1>1
  <2> HIDE DEF Good, N
  <2> QED  BY <2>1, <2>2
<1>14. SubSeq(bs, 1, N) = bs
  BY PrefixIs
<1> QED  BY <1>8, <1>13, <1>14

(***************************************************************************)
(* Copying out                                                             *)
(***************************************************************************)
LEMMA CopyPageIs ==
  ASSUME NEW s \in Seq(Content), NEW n \in Nat
  PROVE  /\ CopyPage(s, n) \in Seq(Content)
         /\ Len(CopyPage(s, n)) = IF n < Len(s) THEN n ELSE Len(s)
         /\ \A j \in 1 .. Len(CopyPage(s, n)) : CopyPage(s, n)[j] = s[j]
<1> DEFINE m == IF n < Len(s) THEN n ELSE Len(s)
<1>1. m \in 0 .. Len(s)
  OBVIOUS
<1> HIDE DEF m
<1>2. /\ SubSeq(s, 1, m) \in Seq(Content) /\ Len(SubSeq(s, 1, m)) = m
      /\ \A j \in 1 .. m : SubSeq(s, 1, m)[j] = s[j]
  BY <1>1, PrefixIs
<1>3. CopyPage(s, n) = SubSeq(s, 1, m)
  BY DEF CopyPage, m
<1>4. m = IF n < Len(s) THEN n ELSE Len(s)
  BY DEF m
<1> QED  BY <1>2, <1>3, <1>4

\* What is left to copy after s is copied from t.
LEMMA CopiedOn ==
  ASSUME NEW s \in Seq(Content), NEW t \in Seq(Content), NEW n \in Nat
  PROVE  CopyPage(s, n) \o CopyPage(t, n - Len(CopyPage(s, n))) = CopyPage(s \o t, n)
<1> DEFINE u == CopyPage(s, n)
           w == CopyPage(t, n - Len(u))
           v == CopyPage(s \o t, n)
<1>0. Len(s) \in Nat /\ Len(t) \in Nat
  OBVIOUS
<1>1. /\ u \in Seq(Content) /\ Len(u) = IF n < Len(s) THEN n ELSE Len(s)
      /\ \A j \in 1 .. Len(u) : u[j] = s[j]
  BY CopyPageIs
<1>2. n - Len(u) \in Nat
  BY <1>0, <1>1
<1>3. /\ w \in Seq(Content) /\ Len(w) = IF n - Len(u) < Len(t) THEN n - Len(u) ELSE Len(t)
      /\ \A j \in 1 .. Len(w) : w[j] = t[j]
  <2> HIDE DEF u
  <2> QED  BY <1>2, CopyPageIs
<1>4. /\ s \o t \in Seq(Content) /\ Len(s \o t) = Len(s) + Len(t)
      /\ \A j \in 1 .. Len(s) : (s \o t)[j] = s[j]
      /\ \A j \in 1 .. Len(t) : (s \o t)[Len(s) + j] = t[j]
  BY Joined
<1>5. /\ v \in Seq(Content) /\ Len(v) = IF n < Len(s) + Len(t) THEN n ELSE Len(s) + Len(t)
      /\ \A j \in 1 .. Len(v) : v[j] = (s \o t)[j]
  <2> DEFINE st == s \o t
  <2>1. st \in Seq(Content) /\ Len(st) = Len(s) + Len(t)
    BY <1>4
  <2> HIDE DEF st
  <2>2. /\ CopyPage(st, n) \in Seq(Content)
        /\ Len(CopyPage(st, n)) = IF n < Len(st) THEN n ELSE Len(st)
        /\ \A j \in 1 .. Len(CopyPage(st, n)) : CopyPage(st, n)[j] = st[j]
    BY <2>1, CopyPageIs
  <2> QED  BY <2>1, <2>2 DEF st
<1> HIDE DEF u, v, w
<1>6. /\ u \o w \in Seq(Content) /\ Len(u \o w) = Len(u) + Len(w)
      /\ \A j \in 1 .. Len(u) : (u \o w)[j] = u[j]
      /\ \A j \in 1 .. Len(w) : (u \o w)[Len(u) + j] = w[j]
  <2>1. u \in Seq(Content) /\ w \in Seq(Content)
    BY <1>1, <1>3
  <2> QED  BY <2>1, Joined
<1>7. Len(u \o w) = Len(v)
  <2>1. /\ Len(u) = IF n < Len(s) THEN n ELSE Len(s)
        /\ Len(w) = IF n - Len(u) < Len(t) THEN n - Len(u) ELSE Len(t)
    BY <1>1, <1>3
  <2>2. Len(u) + Len(w) = IF n < Len(s) + Len(t) THEN n ELSE Len(s) + Len(t)
    <3>1. CASE n < Len(s)
      BY <3>1, <1>0, <2>1
    <3>2. CASE ~ n < Len(s)
      <4>1. Len(u) = Len(s)
        BY <3>2, <2>1
      <4>2. Len(w) = IF n - Len(s) < Len(t) THEN n - Len(s) ELSE Len(t)
        BY <4>1, <2>1
      <4>3. n - Len(s) < Len(t) <=> n < Len(s) + Len(t)
        BY <1>0
      <4>4. CASE n < Len(s) + Len(t)
        <5>1. Len(w) = n - Len(s)
          BY <4>2, <4>3, <4>4
        <5> QED  BY <5>1, <4>1, <4>4, <1>0
      <4>5. CASE ~ n < Len(s) + Len(t)
        <5>1. Len(w) = Len(t)
          BY <4>2, <4>3, <4>5
        <5> QED  BY <5>1, <4>1, <4>5, <1>0
      <4> QED  BY <4>4, <4>5
    <3> QED  BY <3>1, <3>2
  <2> QED  BY <2>2, <1>5, <1>6
<1>8. ASSUME NEW j \in 1 .. Len(v) PROVE (u \o w)[j] = v[j]
  <2>1. CASE j <= Len(u)
    <3>1. j \in 1 .. Len(u) /\ j \in 1 .. Len(s)
      BY <2>1, <1>0, <1>1
    <3> QED  BY <3>1, <1>1, <1>4, <1>5, <1>6
  <2>2. CASE ~ j <= Len(u)
    <3>1. Len(u) = Len(s) /\ j - Len(s) \in 1 .. Len(w) /\ j - Len(s) \in 1 .. Len(t)
          /\ j = Len(s) + (j - Len(s))
      BY <2>2, <1>0, <1>1, <1>3, <1>5
    <3>2. (u \o w)[j] = t[j - Len(s)]
      BY <3>1, <1>3, <1>6
    <3>3. (s \o t)[j] = t[j - Len(s)]
      BY <3>1, <1>4
    <3> QED  BY <3>2, <3>3, <1>5
  <2> QED  BY <2>1, <2>2
<1>9. u \o w = v
  BY <1>5, <1>6, <1>7, <1>8, SameSequence
<1> QED  BY <1>9 DEF u, v, w

\* The copy is what the bytes begin with.
LEMMA BytesOfIs ==
  ASSUME NEW ps, Filled(ps), NEW n \in 0 .. BufferSize(ps)
  PROVE  BytesOf(ps, n) = SubSeq(FlattenSeq(ps), 1, n)
<1> DEFINE N == Len(ps)
           f(k) == Flattened(ps, k)
           IsCopied(c) ==
             c = [k \in 0 .. N |->
                    IF k = 0 THEN <<>> ELSE c[k - 1] \o CopyPage(ps[k], n - Len(c[k - 1]))]
           g == [k \in 0 .. N |-> CopyPage(f(k), n)]
<1>1. /\ N \in Nat /\ ps \in Seq(Seq(Content)) /\ n \in Nat
      /\ \A k \in 1 .. N : ps[k] \in Seq(Content)
  BY FilledIs, BufferIsLaid DEF Filled
<1>2. /\ f(0) = <<>> /\ f(N) = FlattenSeq(ps)
      /\ \A k \in 0 .. N : f(k) \in Seq(Content)
      /\ \A k \in 1 .. N : f(k) = f(k - 1) \o ps[k]
  BY <1>1, FlattenedIs
<1> HIDE DEF f
<1>3. CopyPage(f(0), n) = <<>>
  <2>1. <<>> \in Seq(Content) /\ Len(<<>>) = 0
    OBVIOUS
  <2>3. CopyPage(<<>>, n) = <<>>
    BY <1>1, <2>1 DEF CopyPage
  <2> QED  BY <2>3, <1>2
<1>4. ASSUME NEW k \in 1 .. N
      PROVE  CopyPage(f(k), n) = CopyPage(f(k - 1), n) \o CopyPage(ps[k], n - Len(CopyPage(f(k - 1), n)))
  <2>1. k - 1 \in 0 .. N
    BY <1>1
  <2>2. f(k - 1) \in Seq(Content) /\ ps[k] \in Seq(Content) /\ f(k) = f(k - 1) \o ps[k]
    BY <2>1, <1>1, <1>2
  <2> QED  BY <2>2, <1>1, CopiedOn
<1>5. IsCopied(g)
  <2>1. ASSUME NEW k \in 0 .. N
        PROVE  g[k] = IF k = 0 THEN <<>> ELSE g[k - 1] \o CopyPage(ps[k], n - Len(g[k - 1]))
    <3>1. CASE k = 0
      BY <3>1, <1>3
    <3>2. CASE k # 0
      <4>1. k \in 1 .. N /\ k - 1 \in 0 .. N
        BY <3>2, <1>1
      <4>2. g[k] = CopyPage(f(k), n) /\ g[k - 1] = CopyPage(f(k - 1), n)
        BY <4>1
      <4> HIDE DEF g
      <4> QED  BY <3>2, <4>1, <4>2, <1>4
    <3> QED  BY <3>1, <3>2
  <2>2. g = [k \in 0 .. N |-> g[k]]
    OBVIOUS
  <2> HIDE DEF g
  <2> QED  BY <2>1, <2>2
<1> DEFINE c == CHOOSE h : IsCopied(h)
<1>6. IsCopied(c)
  <2> HIDE DEF IsCopied
  <2> QED  BY <1>5
<1>7. BytesOf(ps, n) = c[N]
  BY DEF BytesOf
<1>8. c[0] = <<>> /\ \A k \in 1 .. N : c[k] = c[k - 1] \o CopyPage(ps[k], n - Len(c[k - 1]))
  <2> HIDE DEF c
  <2>1. 0 \in 0 .. N /\ \A k \in 1 .. N : k \in 0 .. N /\ k # 0
    BY <1>1
  <2> QED  BY <1>6, <2>1
<1> HIDE DEF c
<1> DEFINE Good == {k \in 0 .. N : c[k] = CopyPage(f(k), n)}
<1>9. 0 \in Good
  BY <1>1, <1>3, <1>8
<1>10. ASSUME NEW k \in 1 .. N, k - 1 \in Good PROVE k \in Good
  <2>1. c[k - 1] = CopyPage(f(k - 1), n) /\ k \in 0 .. N
    BY <1>1, <1>10
  <2>2. c[k] = CopyPage(f(k), n)
    BY <2>1, <1>4, <1>8
  <2> QED  BY <2>1, <2>2
<1>11. c[N] = CopyPage(f(N), n)
  <2>1. \A k \in 0 .. N : k \in Good
    <3> HIDE DEF Good, N
    <3> QED  BY <1>1, <1>9, <1>10, UpTo
  <2>2. N \in 0 .. N
    BY <1>1
  <2> QED  BY <2>1, <2>2
<1>12. Len(FlattenSeq(ps)) = BufferSize(ps) /\ BufferSize(ps) \in Nat
  BY BufferIsLaid
<1>13. CopyPage(FlattenSeq(ps), n) = SubSeq(FlattenSeq(ps), 1, n)
  <2>1. n = IF n < Len(FlattenSeq(ps)) THEN n ELSE Len(FlattenSeq(ps))
    BY <1>12
  <2> QED  BY <2>1 DEF CopyPage
<1> QED  BY <1>2, <1>7, <1>11, <1>13

(***************************************************************************)
(* Patching                                                                *)
(***************************************************************************)
\* How much a patch writes, and what that makes of a byte.
Total(o, size) == PatchLength + Flat!Beyond(o, PatchLength, size)

Spliced(o, bs, total, n, b) ==
  IF n - o \in 1 .. PatchLength THEN bs[n - o]
  ELSE IF n - o \in PatchLength + 1 .. total THEN Behind ELSE b

SplicedPages(ps, o, bs, total) ==
  [k \in 1 .. Len(ps) |-> [j \in 1 .. Len(ps[k]) |-> Spliced(o, bs, total, Start(k) + j, ps[k][j])]]

\* The bytes before a page are those of the pages before it.
LEMMA BeforePage ==
  ASSUME NEW ps, Filled(ps), NEW j \in 1 .. Len(ps)
  PROVE  /\ Len(Flattened(ps, j - 1)) = Start(j)
         /\ Len(Flattened(ps, j)) = Start(j) + Len(ps[j])
         /\ Start(j) \in Nat /\ Start(j) + PageSize \in Nat
<1>1. /\ Len(ps) \in Nat /\ PageSize \in Nat \ {0} /\ j \in Nat \ {0} /\ j \in 0 .. Len(ps)
      /\ j - 1 \in 0 .. Len(ps)
  BY FilledIs
<1>2. Start(j) \in Nat
  BY <1>1, Starts
<1>3. Len(Flattened(ps, j)) = Start(j) + Len(ps[j])
  <2>1. Laid(ps, j)
    BY <1>1, PagesAreLaid
  <2> QED  BY <2>1, <1>1 DEF Laid
<1>4. Len(Flattened(ps, j - 1)) = Start(j)
  <2>1. Len(Flattened(ps, j - 1)) = IF j - 1 = 0 THEN 0 ELSE Start(j - 1) + Len(ps[j - 1])
    <3>1. Laid(ps, j - 1)
      BY <1>1, PagesAreLaid
    <3> QED  BY <3>1 DEF Laid
  <2>2. CASE j = 1
    BY <2>1, <2>2, Starts
  <2>3. CASE j # 1
    <3>1. j - 1 \in 1 .. Len(ps) /\ j - 1 # Len(ps) /\ j - 1 \in Nat \ {0} /\ j - 1 + 1 = j
      BY <1>1, <2>3
    <3>2. Len(ps[j - 1]) = PageSize
      BY <3>1 DEF Filled
    <3>3. Start(j - 1 + 1) = Start(j - 1) + PageSize
      BY <3>1, Starts
    <3> QED  BY <2>1, <2>3, <3>1, <3>2, <3>3
  <2> QED  BY <2>2, <2>3
<1> QED  BY <1>1, <1>2, <1>3, <1>4

\* Where a patch lies: r bytes into page k, and on the next page if k is too short.
OnFirst(ps, k, r) == IF Len(ps[k]) - r < PatchLength THEN Len(ps[k]) - r ELSE PatchLength

OnSecond(ps, k) == IF Len(ps[k + 1]) < PatchLength THEN Len(ps[k + 1]) ELSE PatchLength

OneEnough(ps, o, k, r) ==
  OnFirst(ps, k, r) = PatchLength => Total(o, BufferSize(ps)) = PatchLength

TwoNeeded(ps, o, k, r) ==
  OnFirst(ps, k, r) # PatchLength =>
    /\ k + 1 \in 1 .. Len(ps) /\ o + OnFirst(ps, k, r) = Start(k + 1)
    /\ OnFirst(ps, k, r) = Len(ps[k]) - r
    /\ Total(o, BufferSize(ps)) = OnFirst(ps, k, r) + OnSecond(ps, k)

LiesAt(ps, o, k, r) ==
  /\ r < Len(ps[k]) /\ o = Start(k) + r
  /\ OnFirst(ps, k, r) \in 1 .. PatchLength /\ r + OnFirst(ps, k, r) <= Len(ps[k])
  /\ Total(o, BufferSize(ps)) \in Nat /\ Total(o, BufferSize(ps)) >= PatchLength
  /\ OneEnough(ps, o, k, r)
  /\ TwoNeeded(ps, o, k, r)

LEMMA PatchLies ==
  ASSUME NEW ps, Filled(ps), NEW o \in Nat, o + PatchLength <= BufferSize(ps)
  PROVE  \E k \in 1 .. Len(ps) : \E r \in Nat : LiesAt(ps, o, k, r)
<1> DEFINE N == Len(ps)
           r == o % PageSize
           size == BufferSize(ps)
           total == Total(o, size)
<1>1. /\ N \in Nat /\ PageSize \in Nat \ {0} /\ PatchLength \in Nat \ {0} /\ PatchLength <= PageSize
      /\ \A j \in 1 .. N : /\ Len(ps[j]) \in Nat \ {0} /\ (j # N => Len(ps[j]) = PageSize)
                           /\ Len(ps[j]) <= PageSize
  BY FilledIs, LinkBufferAssumption DEF Filled
<1>2. PICK k \in Nat \ {0} : o = Start(k) + r /\ r \in 0 .. PageSize - 1
  BY OffsetIs
<1>3. Start(k) \in Nat /\ Start(k + 1) = Start(k) + PageSize
  BY Starts
<1>4. N # 0
  <2> SUFFICES ASSUME N = 0 PROVE FALSE
    OBVIOUS
  <2>1. ps = <<>>
    BY DEF Filled
  <2>2. BufferSize(ps) = 0
    BY <2>1 DEF BufferSize
  <2> QED  BY <2>2, <1>1
<1>5. N \in Nat \ {0} /\ size = Start(N) + Len(ps[N]) /\ Len(ps[N]) <= PageSize
      /\ Len(ps[N]) \in Nat /\ Start(N) \in Nat
  <2>1. N \in Nat \ {0} /\ N \in 1 .. N
    BY <1>1, <1>4
  <2>2. size = Start(N) + Len(ps[N])
    BY <1>4, BufferIsLaid
  <2>3. Start(N) \in Nat
    BY <2>1, Starts
  <2> QED  BY <2>1, <2>2, <2>3, <1>1
<1>6. total = PatchLength + (IF PatchLength <= PageSize - r THEN 0
                             ELSE IF size - (o + PatchLength) < PageSize - r
                                  THEN size - (o + PatchLength) ELSE PageSize - r)
  BY DEF Total, Flat!Beyond
<1>7. o + PatchLength <= size /\ size \in Nat /\ r \in Nat /\ r < PageSize
  BY <1>1, <1>2, <1>5
<1> HIDE DEF r, size, total
<1>8. k <= N
  <2> SUFFICES ASSUME N < k PROVE FALSE
    BY <1>5
  <2>1. Start(N) + PageSize <= Start(k)
    BY <1>5, Starts
  <2>2. size <= Start(k)
    BY <2>1, <1>1, <1>3, <1>5
  <2> QED  BY <2>2, <1>1, <1>2, <1>3, <1>7
<1>9. k \in 1 .. N
  BY <1>8, <1>1
<1> DEFINE first == OnFirst(ps, k, r)
<1>10. first = IF Len(ps[k]) - r < PatchLength THEN Len(ps[k]) - r ELSE PatchLength
  BY DEF OnFirst
<1>11. Len(ps[k]) \in Nat \ {0} /\ (k # N => Len(ps[k]) = PageSize) /\ Len(ps[k]) <= PageSize
  BY <1>1, <1>9
<1> HIDE DEF first
<1>12. CASE first = PatchLength
  <2>1. PatchLength <= Len(ps[k]) - r
    BY <1>1, <1>7, <1>10, <1>11, <1>12
  <2>2. PatchLength <= PageSize - r
    BY <2>1, <1>1, <1>7, <1>11
  <2>3. total = PatchLength
    BY <2>2, <1>1, <1>6
  <2>4. r < Len(ps[k]) /\ r + first <= Len(ps[k]) /\ first \in 1 .. PatchLength
    BY <2>1, <1>1, <1>7, <1>11, <1>12
  <2>5. total \in Nat /\ total >= PatchLength
    BY <2>3, <1>1
  <2>6. OneEnough(ps, o, k, r) /\ TwoNeeded(ps, o, k, r)
    BY <2>3, <1>12 DEF OneEnough, TwoNeeded, first, total, size
  <2>7. LiesAt(ps, o, k, r)
    BY <2>4, <2>5, <2>6, <1>2 DEF LiesAt, first, total, size
  <2> QED  BY <2>7, <1>7, <1>9
<1>13. CASE first # PatchLength
  <2>1. first = Len(ps[k]) - r /\ Len(ps[k]) - r < PatchLength
    BY <1>10, <1>13
  <2>2. k # N
    <3> SUFFICES ASSUME k = N PROVE FALSE
      OBVIOUS
    <3>1. size = o - r + Len(ps[k])
      BY <1>2, <1>3, <1>5, <1>7, <1>11
    <3> QED  BY <3>1, <2>1, <1>1, <1>7, <1>11
  <2>3. Len(ps[k]) = PageSize /\ first = PageSize - r
    BY <2>1, <2>2, <1>11
  <2>4. k + 1 \in 1 .. N /\ k + 1 \in Nat \ {0}
    BY <2>2, <1>1, <1>8
  <2>5. o + first = Start(k + 1)
    BY <2>3, <1>1, <1>2, <1>3, <1>7
  <2> DEFINE second == OnSecond(ps, k)
             next == Len(ps[k + 1])
  <2>6. second = (IF next < PatchLength THEN next ELSE PatchLength)
    BY DEF OnSecond
  <2>7. next \in Nat \ {0} /\ (k + 1 # N => next = PageSize)
    BY <2>4, <1>1
  <2> HIDE DEF second, next
  <2>8. size - (o + first) >= next
        /\ (k + 1 = N => size - (o + first) = next)
    <3>1. CASE k + 1 = N
      <4>1. size = Start(k + 1) + next
        BY <3>1, <1>5 DEF next
      <4> QED  BY <4>1, <2>5, <2>7, <3>1, <1>5, <1>7
    <3>2. CASE k + 1 # N
      <4>1. k + 1 < N
        BY <3>2, <2>4, <1>1
      <4>2. Start(k + 1) + PageSize <= Start(N)
        BY <4>1, <2>4, <1>5, Starts
      <4>3. next = PageSize
        BY <3>2, <2>7
      <4>4. Start(k + 1) \in Nat
        BY <2>4, Starts
      <4>5. Start(k + 1) + next <= size
        BY <4>2, <4>3, <4>4, <1>1, <1>5
      <4> QED  BY <4>5, <4>4, <2>5, <2>7, <3>2, <1>5, <1>7
    <3> QED  BY <3>1, <3>2
  <2>9. first \in Nat /\ first < PatchLength /\ first >= 1
    BY <2>1, <2>3, <1>1, <1>7
  <2> DEFINE rest == size - (o + PatchLength)
  <2>10. ~ PatchLength <= PageSize - r
    BY <2>1, <2>3, <1>1, <1>7
  <2>11. total = PatchLength + (IF rest < first THEN rest ELSE first)
    BY <2>3, <2>10, <1>6
  <2>12. rest \in Nat /\ rest = (size - (o + first)) + first - PatchLength
    BY <2>9, <1>1, <1>7
  <2> HIDE DEF rest
  <2>13. total = first + second
    <3>1. CASE k + 1 = N
      <4>1. rest = next + first - PatchLength
        BY <3>1, <2>8, <2>12, <2>7, <2>9, <1>1
      <4> QED  BY <4>1, <2>6, <2>7, <2>9, <2>11, <1>1
    <3>2. CASE k + 1 # N
      <4>1. next >= PatchLength
        BY <3>2, <2>7, <1>1
      <4>2. second = PatchLength
        BY <4>1, <2>6, <2>7, <1>1
      <4>3. size - (o + first) \in Int /\ size - (o + first) >= PatchLength
        BY <4>1, <2>8, <2>7, <2>9, <1>1, <1>7
      <4>4. rest >= first
        BY <4>3, <2>12, <2>9, <1>1
      <4> QED  BY <4>2, <4>4, <2>9, <2>11, <2>12, <1>1
    <3> QED  BY <3>1, <3>2
  <2>14. total \in Nat /\ total >= PatchLength
    BY <2>9, <2>11, <2>12, <1>1
  <2>15. r < Len(ps[k]) /\ r + first <= Len(ps[k]) /\ first \in 1 .. PatchLength
    BY <2>3, <2>9, <1>1, <1>7
  <2>16. TwoNeeded(ps, o, k, r)
    BY <2>1, <2>4, <2>5, <2>13 DEF TwoNeeded, first, second, total, size
  <2>17. OneEnough(ps, o, k, r)
    BY <1>13 DEF OneEnough, first
  <2>18. LiesAt(ps, o, k, r)
    BY <2>14, <2>15, <2>16, <2>17, <1>2 DEF LiesAt, first, total, size
  <2> QED  BY <2>18, <1>7, <1>9
<1> QED  BY <1>12, <1>13

LEMMA ModifyIs ==
  ASSUME NEW ps, Filled(ps), NEW o \in Nat, NEW k \in 1 .. Len(ps), NEW r \in Nat,
         LiesAt(ps, o, k, r), NEW bs \in [1 .. PatchLength -> Content]
  PROVE  /\ Modify(ps, o, bs).copied = Total(o, BufferSize(ps))
         /\ Modify(ps, o, bs).pages = SplicedPages(ps, o, bs, Total(o, BufferSize(ps)))
<1> DEFINE N == Len(ps)
           total == Total(o, BufferSize(ps))
           first == OnFirst(ps, k, r)
           second == OnSecond(ps, k)
           prior(j) == Len(Flattened(ps, j))
           part(j) == [n \in 1 .. Len(ps[j]) |-> Spliced(o, bs, total, Start(j) + n, ps[j][n])]
           new == [j \in 1 .. N |-> part(j)]
           count(j) == IF j < k THEN 0 ELSE IF j = k THEN first ELSE total
           done(j) == [copied |-> count(j), buffer_offset |-> prior(j), pages |-> SubSeq(new, 1, j)]
           start == [copied |-> 0, buffer_offset |-> 0, pages |-> <<>>]
           IsModified(m) ==
             m = [j \in 0 .. N |-> IF j = 0 THEN start ELSE ModifyPage(m[j - 1], ps[j], o, bs)]
           g == [j \in 0 .. N |-> done(j)]
<1>1. /\ N \in Nat /\ PageSize \in Nat \ {0} /\ PatchLength \in Nat \ {0}
      /\ PatchLength <= PageSize
      /\ \A j \in 1 .. N : /\ ps[j] \in Seq(Content) /\ Len(ps[j]) \in Nat \ {0}
                           /\ Len(ps[j]) <= PageSize /\ DOMAIN ps[j] = 1 .. Len(ps[j])
  BY FilledIs, LinkBufferAssumption
<1>2. bs \in Seq(Content) /\ Len(bs) = PatchLength /\ DOMAIN bs = 1 .. PatchLength
  BY <1>1
<1>3. k \in Nat \ {0} /\ Start(k) \in Nat /\ o = Start(k) + r
  <2>1. k \in Nat \ {0}
    BY <1>1
  <2>2. Start(k) \in Nat
    BY <2>1, Starts
  <2> QED  BY <2>1, <2>2 DEF LiesAt
<1>4. ASSUME NEW j \in 1 .. N
      PROVE  /\ prior(j - 1) = Start(j) /\ prior(j) = Start(j) + Len(ps[j])
             /\ Start(j) \in Nat /\ j \in Nat \ {0}
  BY <1>1, BeforePage
<1>5. /\ r < Len(ps[k]) /\ first \in 1 .. PatchLength /\ r + first <= Len(ps[k])
      /\ first = IF Len(ps[k]) - r < PatchLength THEN Len(ps[k]) - r ELSE PatchLength
      /\ total \in Nat /\ total >= PatchLength
      /\ first = PatchLength => total = PatchLength
      /\ first # PatchLength => /\ k + 1 \in 1 .. N /\ o + first = Start(k + 1)
                                /\ first = Len(ps[k]) - r /\ total = first + second
  BY DEF LiesAt, OneEnough, TwoNeeded, OnFirst
<1>6. second = IF Len(ps[k + 1]) < PatchLength THEN Len(ps[k + 1]) ELSE PatchLength
  BY DEF OnSecond
<1> DEFINE T == {new[j] : j \in 1 .. N}
<1>7. /\ new \in Seq(T) /\ Len(new) = N
      /\ SubSeq(new, 1, 0) = <<>> /\ SubSeq(new, 1, N) = new
      /\ \A j \in 1 .. N : SubSeq(new, 1, j) = Append(SubSeq(new, 1, j - 1), new[j])
  <2>1. new \in Seq(T) /\ Len(new) = N
    <3>1. new = [j \in 1 .. N |-> new[j]] /\ \A j \in 1 .. N : new[j] \in T
      OBVIOUS
    <3> HIDE DEF new, T
    <3> QED  BY <3>1, <1>1
  <2> HIDE DEF new, T
  <2> QED  BY <2>1, PrefixIs
<1>8. prior(0) = 0
  <2>1. ps \in Seq(Seq(Content)) /\ Len(<<>>) = 0
    BY DEF Filled
  <2>2. Flattened(ps, 0) = <<>>
    BY <2>1, FlattenedIs
  <2> QED  BY <2>1, <2>2
<1>9. \A j \in 1 .. N : new[j] = part(j)
  OBVIOUS
<1>10. new = SplicedPages(ps, o, bs, total)
  BY DEF SplicedPages
<1>11. count(0) = 0 /\ 0 < k
  BY <1>3
<1>12. done(0) = start
  BY <1>7, <1>8, <1>11
<1> HIDE DEF new, prior, total, first, second, part
<1>13. ASSUME NEW j \in 1 .. N PROVE ModifyPage(done(j - 1), ps[j], o, bs) = done(j)
  <2> DEFINE s == done(j - 1)
             page == ps[j]
             page_offset == o + s.copied - s.buffer_offset
             remaining == Len(page) - page_offset
             to_copy == IF remaining < Len(bs) THEN remaining ELSE Len(bs)
             found == s.copied < Len(bs) /\ page_offset \in 0 .. Len(page) - 1
             after == IF found THEN s.copied + to_copy ELSE s.copied
             turned == IF found THEN Overwritten(page, page_offset, to_copy, bs, s.copied) ELSE page
  <2>1. ModifyPage(s, page, o, bs) =
          [copied |-> after, buffer_offset |-> s.buffer_offset + Len(page),
           pages |-> Append(s.pages, turned)]
    BY DEF ModifyPage
  <2>2. /\ s.copied = count(j - 1) /\ s.buffer_offset = Start(j) /\ s.pages = SubSeq(new, 1, j - 1)
    BY <1>4
  <2>3. s.buffer_offset + Len(page) = prior(j)
    BY <1>4, <2>2
  <2>4. /\ page \in Seq(Content) /\ Len(page) \in Nat \ {0} /\ DOMAIN page = 1 .. Len(page)
        /\ Len(page) <= PageSize
    BY <1>1
  <2>5. Start(j) \in Nat /\ j \in Nat \ {0}
    BY <1>4
  <2>6. page = [n \in 1 .. Len(page) |-> page[n]]
    BY <2>4
  <2>7. part(j) = [n \in 1 .. Len(page) |-> Spliced(o, bs, total, Start(j) + n, page[n])]
    BY DEF part
  <2>8. page_offset = o + count(j - 1) - Start(j)
    BY <2>2
  <2>9. Overwritten(page, page_offset, to_copy, bs, s.copied) =
          [n \in 1 .. Len(page) |->
             LET m == n - page_offset
                 source == s.copied + m
             IN IF m \notin 1 .. to_copy THEN page[n]
                ELSE IF source \in DOMAIN bs THEN bs[source] ELSE Behind]
    BY <2>4 DEF Overwritten
  <2> HIDE DEF s, page
  <2>10. after = count(j) /\ turned = part(j)
    <3>1. CASE j < k
      <4>1. count(j - 1) = 0 /\ count(j) = 0
        BY <3>1, <1>3, <2>5
      <4>2. Start(j) + PageSize <= Start(k)
        BY <3>1, <1>3, <2>5, Starts
      <4>3. page_offset >= PageSize
        BY <4>1, <4>2, <2>5, <2>8, <1>1, <1>3
      <4>4. ~ found
        BY <4>3, <2>4, <2>5, <2>8, <4>1, <1>1, <1>3
      <4>5. ASSUME NEW n \in 1 .. Len(page)
            PROVE  Spliced(o, bs, total, Start(j) + n, page[n]) = page[n]
        <5>1. (Start(j) + n) - o <= 0 /\ (Start(j) + n) - o \in Int
          BY <4>2, <2>4, <2>5, <1>1, <1>3
        <5>2. (Start(j) + n) - o \notin 1 .. PatchLength
              /\ (Start(j) + n) - o \notin PatchLength + 1 .. total
          <6>1. PatchLength \in Nat /\ total \in Nat /\ total >= PatchLength
            BY <1>1, <1>5
          <6> DEFINE m == (Start(j) + n) - o
          <6> HIDE DEF m
          <6>2. m \notin 1 .. PatchLength /\ m \notin PatchLength + 1 .. total
            BY <5>1, <6>1 DEF m
          <6> QED  BY <6>2 DEF m
        <5> QED  BY <5>2 DEF Spliced
      <4>6. part(j) = page
        BY <4>5, <2>6, <2>7
      <4> HIDE DEF found, page_offset, to_copy
      <4> QED  BY <4>1, <4>4, <4>6, <2>2
    <3>2. CASE j = k
      <4>1. count(j - 1) = 0 /\ count(j) = first
        BY <3>2, <1>3
      <4>2. page_offset = r
        BY <4>1, <2>5, <2>8, <3>2, <1>3
      <4>3. page = ps[k]
        BY <3>2 DEF page
      <4>4. found /\ to_copy = first
        BY <4>1, <4>2, <4>3, <2>2, <2>4, <1>1, <1>2, <1>5
      <4>5. ASSUME NEW n \in 1 .. Len(page)
            PROVE  (LET m == n - r
                        source == 0 + m
                    IN IF m \notin 1 .. first THEN page[n]
                       ELSE IF source \in DOMAIN bs THEN bs[source] ELSE Behind)
                   = Spliced(o, bs, total, Start(j) + n, page[n])
        <5>1. (Start(j) + n) - o = n - r /\ n - r \in Int /\ 0 + (n - r) = n - r
          BY <2>4, <2>5, <3>2, <1>3
        <5>2. CASE n - r \in 1 .. first
          <6>1. n - r \in 1 .. PatchLength
            BY <5>2, <1>1, <1>5
          <6> QED  BY <5>1, <5>2, <6>1, <1>2 DEF Spliced
        <5>3. CASE n - r \notin 1 .. first
          <6>1. n - r \notin 1 .. PatchLength
            BY <5>3, <5>1, <4>3, <2>4, <1>1, <1>5
          <6>2. n - r \notin PatchLength + 1 .. total
            <7>1. CASE first = PatchLength
              <8>1. total = PatchLength /\ PatchLength \in Nat
                BY <7>1, <1>1, <1>5
              <8> QED  BY <8>1, <5>1
            <7>2. CASE first # PatchLength
              <8>1. n - r <= first
                BY <7>2, <4>3, <2>4, <1>1, <1>5
              <8> QED  BY <8>1, <5>1, <1>1, <1>5
            <7> QED  BY <7>1, <7>2
          <6> QED  BY <5>1, <5>3, <6>1, <6>2 DEF Spliced
        <5> QED  BY <5>2, <5>3
      <4>6. s.copied = 0
        BY <4>1, <2>2
      <4> HIDE DEF page_offset, to_copy, found
      <4>7. Overwritten(page, page_offset, to_copy, bs, s.copied) =
              [n \in 1 .. Len(page) |->
                LET m == n - r
                    source == 0 + m
                IN IF m \notin 1 .. first THEN page[n]
                   ELSE IF source \in DOMAIN bs THEN bs[source] ELSE Behind]
        BY <2>9, <4>2, <4>4, <4>6
      <4>8. Overwritten(page, page_offset, to_copy, bs, s.copied) = part(j)
        BY <4>5, <4>7, <2>7
      <4>9. 0 + first = first
        BY <1>1, <1>5
      <4> QED  BY <4>1, <4>4, <4>6, <4>8, <4>9
    <3>3. CASE j = k + 1 /\ first # PatchLength
      <4>1. count(j - 1) = first /\ count(j) = total
        BY <3>3, <1>3
      <4>2. page_offset = 0
        BY <4>1, <2>5, <2>8, <3>3, <1>5
      <4>3. page = ps[k + 1]
        BY <3>3 DEF page
      <4>4. found
        BY <4>1, <4>2, <2>2, <2>4, <3>3, <1>1, <1>2, <1>5
      <4>5. to_copy = second /\ second \in Nat /\ second <= Len(page) /\ second <= PatchLength
            /\ (second # Len(page) => second = PatchLength)
        BY <4>2, <4>3, <2>4, <1>1, <1>2, <1>6
      <4>6. total = first + second
        BY <3>3, <1>5
      <4>7. ASSUME NEW n \in 1 .. Len(page)
            PROVE  (LET m == n - 0
                        source == first + m
                    IN IF m \notin 1 .. second THEN page[n]
                       ELSE IF source \in DOMAIN bs THEN bs[source] ELSE Behind)
                   = Spliced(o, bs, total, Start(j) + n, page[n])
        <5>1. n \in Nat \ {0} /\ n - 0 = n /\ first \in Nat \ {0}
          BY <2>4, <1>1, <1>5
        <5>2. (Start(j) + n) - o = first + n
          <6>1. Start(j) = o + first
            BY <3>3, <1>5
          <6> QED  BY <6>1, <5>1
        <5>3. CASE n \in 1 .. second /\ first + n \in DOMAIN bs
          BY <5>1, <5>2, <5>3, <1>2 DEF Spliced
        <5>4. CASE n \in 1 .. second /\ first + n \notin DOMAIN bs
          <6>1. first + n \notin 1 .. PatchLength
            BY <5>4, <1>2
          <6>2. first + n \in PatchLength + 1 .. total
            <7>1. PatchLength \in Nat /\ first + n \in Nat \ {0} /\ n <= second
              BY <5>1, <5>4, <1>1
            <7>2. first + n > PatchLength
              BY <6>1, <7>1
            <7>3. first + n <= total
              BY <7>1, <5>1, <4>5, <4>6
            <7>4. total \in Nat
              BY <1>5
            <7> QED  BY <7>1, <7>2, <7>3, <7>4
          <6> QED  BY <5>1, <5>2, <5>4, <6>1, <6>2 DEF Spliced
        <5>5. CASE n \notin 1 .. second
          <6>1. n > second
            BY <5>1, <5>5, <4>5
          <6>2. second = PatchLength
            <7>1. n <= Len(page)
              BY <2>4
            <7>2. second # Len(page)
              <8>1. n \in Nat /\ Len(page) \in Nat
                BY <5>1, <2>4
              <8> QED  BY <6>1, <7>1, <8>1
            <7> QED  BY <7>2, <4>5
          <6>3. first + n > total /\ first + n > PatchLength
            BY <6>1, <6>2, <5>1, <4>5, <4>6, <1>1
          <6>4. first + n \notin 1 .. PatchLength /\ first + n \notin PatchLength + 1 .. total
            <7>1. PatchLength \in Nat /\ total \in Nat
              BY <1>1, <1>5
            <7> QED  BY <6>3, <7>1, <5>1
          <6> QED  BY <5>1, <5>2, <5>5, <6>4 DEF Spliced
        <5> QED  BY <5>3, <5>4, <5>5
      <4>8. s.copied = first
        BY <4>1, <2>2
      <4> HIDE DEF page_offset, to_copy, found
      <4>9. Overwritten(page, page_offset, to_copy, bs, s.copied) =
              [n \in 1 .. Len(page) |->
                LET m == n - 0
                    source == first + m
                IN IF m \notin 1 .. second THEN page[n]
                   ELSE IF source \in DOMAIN bs THEN bs[source] ELSE Behind]
        BY <2>9, <4>2, <4>5, <4>8
      <4>10. Overwritten(page, page_offset, to_copy, bs, s.copied) = part(j)
        BY <4>7, <4>9, <2>7
      <4> QED  BY <4>1, <4>4, <4>5, <4>6, <4>8, <4>10
    <3>4. CASE j > k /\ (j > k + 1 \/ first = PatchLength)
      <4>1. count(j) = total
        BY <3>4, <1>3, <2>5
      <4>2. count(j - 1) = total
        <5>1. CASE j > k + 1
          BY <5>1, <1>3, <2>5
        <5>2. CASE j = k + 1 /\ first = PatchLength
          BY <5>2, <1>3, <1>5
        <5> QED  BY <5>1, <5>2, <3>4, <1>3, <2>5
      <4>3. ~ found
        BY <4>2, <2>2, <1>1, <1>2, <1>5
      <4>4. o + total <= Start(j)
        <5>1. CASE first = PatchLength
          <6>1. Start(k) + PageSize <= Start(j)
            BY <3>4, <1>3, <2>5, Starts
          <6>2. Len(ps[k]) <= PageSize /\ Len(ps[k]) \in Nat
            BY <1>1
          <6>3. total = PatchLength /\ r + PatchLength <= Len(ps[k]) /\ PatchLength \in Nat
            BY <5>1, <1>1, <1>5
          <6>4. PageSize \in Nat
            BY <1>1
          <6> QED  BY <6>1, <6>2, <6>3, <6>4, <1>3, <2>5
        <5>2. CASE first # PatchLength
          <6>1. k + 1 < j /\ k + 1 \in Nat \ {0}
            BY <5>2, <3>4, <1>3
          <6>2. Start(k + 1) + PageSize <= Start(j) /\ Start(k + 1) \in Nat
            BY <6>1, <2>5, Starts
          <6>3. Len(ps[k + 1]) \in Nat
            BY <5>2, <1>1, <1>5
          <6>4. second \in Nat /\ second <= PageSize
            BY <6>3, <1>1, <1>6
          <6>5. first \in Nat
            BY <1>1, <1>5
          <6>6. o + first = Start(k + 1) /\ total = first + second
            BY <5>2, <1>5
          <6>7. PageSize \in Nat
            BY <1>1
          <6> QED  BY <6>2, <6>4, <6>5, <6>6, <6>7, <2>5
        <5> QED  BY <5>1, <5>2
      <4>5. ASSUME NEW n \in 1 .. Len(page)
            PROVE  Spliced(o, bs, total, Start(j) + n, page[n]) = page[n]
        <5>1. (Start(j) + n) - o > total /\ (Start(j) + n) - o \in Int
          BY <4>4, <2>4, <2>5, <1>5
        <5>2. (Start(j) + n) - o \notin 1 .. PatchLength
              /\ (Start(j) + n) - o \notin PatchLength + 1 .. total
          <6>1. PatchLength \in Nat /\ total \in Nat /\ total >= PatchLength
            BY <1>1, <1>5
          <6> DEFINE m == (Start(j) + n) - o
          <6> HIDE DEF m
          <6>2. m \notin 1 .. PatchLength /\ m \notin PatchLength + 1 .. total
            BY <5>1, <6>1 DEF m
          <6> QED  BY <6>2 DEF m
        <5> QED  BY <5>2 DEF Spliced
      <4>6. part(j) = page
        BY <4>5, <2>6, <2>7
      <4> HIDE DEF found, page_offset, to_copy
      <4> QED  BY <4>1, <4>2, <4>3, <4>6, <2>2
    <3>5. j < k \/ j = k \/ j = k + 1 \/ j > k + 1
      BY <1>3, <2>5
    <3> QED  BY <3>1, <3>2, <3>3, <3>4, <3>5, <1>3, <2>5
  <2> HIDE DEF after, turned
  <2>11. ModifyPage(s, page, o, bs) =
           [copied |-> count(j), buffer_offset |-> prior(j),
            pages |-> Append(SubSeq(new, 1, j - 1), new[j])]
    BY <2>1, <2>2, <2>3, <2>10, <1>9
  <2>12. Append(SubSeq(new, 1, j - 1), new[j]) = SubSeq(new, 1, j)
    BY <1>7
  <2> QED  BY <2>11, <2>12 DEF s, page
<1> HIDE DEF done, start
<1>14. IsModified(g)
  <2>1. ASSUME NEW j \in 0 .. N
        PROVE  g[j] = IF j = 0 THEN start ELSE ModifyPage(g[j - 1], ps[j], o, bs)
    <3>1. CASE j = 0
      BY <3>1, <1>12
    <3>2. CASE j # 0
      <4>1. j \in 1 .. N /\ j - 1 \in 0 .. N
        BY <3>2, <1>1
      <4>2. g[j] = done(j) /\ g[j - 1] = done(j - 1)
        BY <4>1
      <4> HIDE DEF g
      <4> QED  BY <3>2, <4>1, <4>2, <1>13
    <3> QED  BY <3>1, <3>2
  <2>2. g = [j \in 0 .. N |-> g[j]]
    OBVIOUS
  <2> HIDE DEF g
  <2> QED  BY <2>1, <2>2
<1> DEFINE c == CHOOSE m : IsModified(m)
<1>15. IsModified(c)
  <2> HIDE DEF IsModified
  <2> QED  BY <1>14
<1>16. Modify(ps, o, bs) = c[N]
  BY DEF Modify, start
<1>17. c[0] = start /\ \A j \in 1 .. N : c[j] = ModifyPage(c[j - 1], ps[j], o, bs)
  <2> HIDE DEF c
  <2>1. 0 \in 0 .. N /\ \A j \in 1 .. N : j \in 0 .. N /\ j # 0
    BY <1>1
  <2> QED  BY <1>15, <2>1
<1> HIDE DEF c
<1> DEFINE Good == {j \in 0 .. N : c[j] = done(j)}
<1>18. 0 \in Good
  BY <1>1, <1>12, <1>17
<1>19. ASSUME NEW j \in 1 .. N, j - 1 \in Good PROVE j \in Good
  <2>1. c[j - 1] = done(j - 1) /\ j \in 0 .. N
    BY <1>1, <1>19
  <2>2. c[j] = done(j)
    BY <2>1, <1>13, <1>17
  <2> QED  BY <2>1, <2>2
<1>20. c[N] = done(N)
  <2>1. \A j \in 0 .. N : j \in Good
    <3> HIDE DEF Good, N
    <3> QED  BY <1>1, <1>18, <1>19, UpTo
  <2>2. N \in 0 .. N
    BY <1>1
  <2> QED  BY <2>1, <2>2
<1>21. count(N) = total
  <2>1. CASE N = k
    <3>1. first = PatchLength
      BY <2>1, <1>1, <1>5
    <3> QED  BY <2>1, <3>1, <1>3, <1>5
  <2>2. CASE N # k
    BY <2>2, <1>1
  <2> QED  BY <2>1, <2>2
<1>22. done(N).copied = total /\ done(N).pages = new
  BY <1>7, <1>21 DEF done
<1> QED  BY <1>10, <1>16, <1>20, <1>22 DEF total

LEMMA PatchIs ==
  ASSUME NEW ps, Filled(ps), NEW o \in Nat, o + PatchLength <= BufferSize(ps),
         NEW bs \in [1 .. PatchLength -> Content]
  PROVE  /\ Modify(ps, o, bs).copied = Total(o, BufferSize(ps))
         /\ Filled(Modify(ps, o, bs).pages)
         /\ BufferSize(Modify(ps, o, bs).pages) = BufferSize(ps)
         /\ FlattenSeq(Modify(ps, o, bs).pages) =
              [n \in DOMAIN FlattenSeq(ps) |->
                 Spliced(o, bs, Total(o, BufferSize(ps)), n, FlattenSeq(ps)[n])]
<1> DEFINE N == Len(ps)
           total == Total(o, BufferSize(ps))
           new == SplicedPages(ps, o, bs, total)
           f == FlattenSeq(ps)
           h == FlattenSeq(new)
           S == BufferSize(ps)
<1>1. PICK k \in 1 .. N : \E r \in Nat : LiesAt(ps, o, k, r)
  BY PatchLies
<1>2. PICK r \in Nat : LiesAt(ps, o, k, r)
  BY <1>1
<1>3. Modify(ps, o, bs).copied = total /\ Modify(ps, o, bs).pages = new
  BY <1>2, ModifyIs
<1> HIDE DEF total
<1>4. /\ N \in Nat /\ PatchLength \in Nat
      /\ \A j \in 1 .. N : /\ ps[j] \in Seq(Content) /\ Len(ps[j]) \in 1 .. PageSize
                           /\ j # N => Len(ps[j]) = PageSize
  BY FilledIs, LinkBufferAssumption DEF Filled
<1>5. ASSUME NEW j \in 1 .. N
      PROVE  /\ new[j] \in Seq(Content) /\ Len(new[j]) = Len(ps[j])
             /\ \A n \in 1 .. Len(ps[j]) : new[j][n] = Spliced(o, bs, total, Start(j) + n, ps[j][n])
  <2> DEFINE q == new[j]
             page == ps[j]
  <2>1. page \in Seq(Content) /\ Len(page) \in Nat
    BY <1>4
  <2>2. q = [n \in 1 .. Len(page) |-> Spliced(o, bs, total, Start(j) + n, page[n])]
    BY DEF SplicedPages
  <2> HIDE DEF q, page
  <2>3. ASSUME NEW n \in 1 .. Len(page)
        PROVE  Spliced(o, bs, total, Start(j) + n, page[n]) \in Content
    <3>1. page[n] \in Content
      BY <2>1
    <3> QED  BY <3>1 DEF Spliced, Content
  <2>4. q \in [1 .. Len(page) -> Content]
    BY <2>2, <2>3
  <2>5. q \in Seq(Content) /\ Len(q) = Len(page)
    BY <2>1, <2>4
  <2> QED  BY <2>2, <2>5 DEF q, page
<1>6. new \in Seq(Seq(Content)) /\ Len(new) = N
  <2> DEFINE R == Seq(Content)
  <2>1. new = [j \in 1 .. N |-> new[j]]
    BY DEF SplicedPages
  <2>2. \A j \in 1 .. N : new[j] \in R
    BY <1>5
  <2> HIDE DEF new, R
  <2>3. new \in [1 .. N -> R]
    BY <2>1, <2>2
  <2>4. new \in Seq(R) /\ Len(new) = N
    BY <2>3, <1>4
  <2> QED  BY <2>4 DEF R
<1> HIDE DEF new
<1>7. Filled(new)
  BY <1>4, <1>5, <1>6 DEF Filled
<1>8. BufferSize(new) = BufferSize(ps)
  <2>1. N \in 1 .. N /\ N # 0
    BY <1>4
  <2>2. BufferSize(ps) = Start(N) + Len(ps[N])
    BY <2>1, BufferIsLaid
  <2>3. BufferSize(new) = Start(N) + Len(new[N])
    BY <2>1, <1>6, <1>7, BufferIsLaid
  <2> QED  BY <2>1, <2>2, <2>3, <1>5
<1>9. /\ f \in Seq(Content) /\ Len(f) = S /\ S \in Nat
      /\ \A q \in 1 .. N : \A j \in 1 .. Len(ps[q]) : f[Start(q) + j] = ps[q][j]
      /\ \A n \in 1 .. S : \E q \in 1 .. N : \E j \in 1 .. Len(ps[q]) : n = Start(q) + j
  BY BufferIsLaid
<1>10. /\ h \in Seq(Content) /\ Len(h) = S
       /\ \A q \in 1 .. N : \A j \in 1 .. Len(ps[q]) : h[Start(q) + j] = new[q][j]
  <2>1. /\ h \in Seq(Content) /\ Len(h) = BufferSize(new)
        /\ \A q \in 1 .. Len(new) : \A j \in 1 .. Len(new[q]) : h[Start(q) + j] = new[q][j]
    BY <1>7, BufferIsLaid
  <2> HIDE DEF h
  <2> QED  BY <2>1, <1>5, <1>6, <1>8
<1> HIDE DEF f, h, S
<1>11. ASSUME NEW n \in 1 .. S
       PROVE  h[n] = Spliced(o, bs, total, n, f[n])
  <2>1. PICK q \in 1 .. N : \E j \in 1 .. Len(ps[q]) : n = Start(q) + j
    BY <1>9
  <2>2. PICK j \in 1 .. Len(ps[q]) : n = Start(q) + j
    BY <2>1
  <2>3. h[n] = new[q][j] /\ f[n] = ps[q][j]
    BY <2>2, <1>9, <1>10
  <2> QED  BY <2>2, <2>3, <1>5
<1>12. h = [n \in DOMAIN f |-> Spliced(o, bs, total, n, f[n])]
  <2>1. DOMAIN f = 1 .. S /\ h = [n \in 1 .. S |-> h[n]]
    BY <1>9, <1>10
  <2> QED  BY <2>1, <1>11
<1> QED  BY <1>3, <1>7, <1>8, <1>12 DEF f, h, total

(***************************************************************************)
(* The steps                                                               *)
(***************************************************************************)
LEMMA BufferInvInit == ASSUME BufferInit PROVE BufferInv
<1>1. buffer_pages = <<>> /\ placeholders = {}
  BY DEF BufferInit
<1>2. Filled(<<>>)
  BY DEF Filled
<1> QED  BY <1>1, <1>2 DEF BufferInv

\* After a push, placeholders lie where they lay.
LEMMA PushKeeps ==
  ASSUME BufferInv, NEW bs \in Seq(Content), buffer_pages' = PushAll(buffer_pages, bs)
  PROVE  /\ Filled(buffer_pages') /\ Bytes' = Bytes \o bs
         /\ BufferSize(buffer_pages) \in Nat
         /\ BufferSize(buffer_pages') = BufferSize(buffer_pages) + Len(bs)
         /\ \A o \in placeholders : o + PatchLength <= BufferSize(buffer_pages')
<1>1. Filled(buffer_pages') /\ Bytes' = Bytes \o bs
  BY PushAllIs DEF BufferInv, Bytes
<1>2. /\ Bytes \in Seq(Content) /\ Len(Bytes) = BufferSize(buffer_pages)
      /\ BufferSize(buffer_pages) \in Nat
  BY BufferIsLaid DEF BufferInv, Bytes
<1>3. Len(Bytes') = BufferSize(buffer_pages')
  BY <1>1, BufferIsLaid DEF Bytes
<1>4. Len(Bytes') = Len(Bytes) + Len(bs) /\ Len(bs) \in Nat
  <2>1. Len(Bytes \o bs) = Len(Bytes) + Len(bs)
    BY <1>2, Joined
  <2> QED  BY <2>1, <1>1
<1>5. BufferSize(buffer_pages') = BufferSize(buffer_pages) + Len(bs)
  BY <1>2, <1>3, <1>4
<1>6. ASSUME NEW o \in placeholders PROVE o + PatchLength <= BufferSize(buffer_pages')
  <2>1. o \in Nat /\ o + PatchLength <= BufferSize(buffer_pages) /\ PatchLength \in Nat
    BY LinkBufferAssumption DEF BufferInv
  <2> QED  BY <2>1, <1>2, <1>4, <1>5
<1> QED  BY <1>1, <1>2, <1>5, <1>6

LEMMA PushDataStep ==
  ASSUME BufferInv, NEW b \in Byte, PushData(<<b>>)
  PROVE  BufferInv' /\ Flat!Push(<<b>>)
<1> DEFINE bs == <<b>>
<1>1. bs \in Seq(Content)
  BY DEF Content
<1>2. buffer_pages' = PushAll(buffer_pages, bs) /\ copied' = Len(bs) /\ dst' = <<>>
      /\ placeholders' = placeholders
  BY DEF PushData
<1> HIDE DEF bs
<1>3. /\ Filled(buffer_pages') /\ Bytes' = Bytes \o bs
      /\ \A o \in placeholders : o + PatchLength <= BufferSize(buffer_pages')
  BY <1>1, <1>2, PushKeeps
<1>4. BufferInv'
  BY <1>2, <1>3 DEF BufferInv
<1>5. Bytes' = Bytes \o <<b>> /\ copied' = Len(<<b>>) /\ dst' = <<>>
  BY <1>2, <1>3 DEF bs
<1> QED  BY <1>4, <1>5 DEF Flat!Push

LEMMA PushPlaceholderStep ==
  ASSUME BufferInv, PushPlaceholder
  PROVE  BufferInv' /\ Flat!Push([n \in 1 .. PatchLength |-> Zero])
<1> DEFINE bs == [n \in 1 .. PatchLength |-> Zero]
           offset == BufferSize(buffer_pages)
<1>1. bs \in Seq(Content) /\ Len(bs) = PatchLength /\ PatchLength \in Nat
  <2>1. PatchLength \in Nat /\ Zero \in Content
    BY LinkBufferAssumption DEF Content
  <2>2. bs \in [1 .. PatchLength -> Content]
    BY <2>1
  <2> HIDE DEF bs
  <2> QED  BY <2>1, <2>2
<1>2. /\ buffer_pages' = PushAll(buffer_pages, bs) /\ copied' = Len(bs) /\ dst' = <<>>
      /\ placeholders' = placeholders \cup {offset}
  BY <1>1 DEF PushPlaceholder
<1> HIDE DEF bs, offset
<1>3. /\ Filled(buffer_pages') /\ Bytes' = Bytes \o bs /\ offset \in Nat
      /\ BufferSize(buffer_pages') = offset + Len(bs)
      /\ \A o \in placeholders : o + PatchLength <= BufferSize(buffer_pages')
  BY <1>1, <1>2, PushKeeps DEF offset
<1>4. offset + PatchLength <= BufferSize(buffer_pages')
  BY <1>1, <1>3
<1>5. BufferInv'
  BY <1>2, <1>3, <1>4 DEF BufferInv
<1> QED  BY <1>2, <1>3, <1>5 DEF Flat!Push, bs

LEMMA LinkStep ==
  ASSUME BufferInv, NEW o \in placeholders, NEW bs \in Patches, Link(o, bs)
  PROVE  BufferInv' /\ Flat!Patch(o, bs)
<1>1. /\ Filled(buffer_pages) /\ o \in Nat /\ o + PatchLength <= BufferSize(buffer_pages)
  BY DEF BufferInv
<1>2. bs \in [1 .. PatchLength -> Content] /\ PatchLength \in Nat /\ Len(bs) = PatchLength
  BY LinkBufferAssumption DEF Patches, Content
<1>3. /\ buffer_pages' = Modify(buffer_pages, o, bs).pages
      /\ copied' = Modify(buffer_pages, o, bs).copied
      /\ dst' = <<>> /\ placeholders' \subseteq placeholders
  BY DEF Link
<1>4. /\ copied' = Total(o, BufferSize(buffer_pages)) /\ Filled(buffer_pages')
      /\ BufferSize(buffer_pages') = BufferSize(buffer_pages)
      /\ Bytes' = [n \in DOMAIN Bytes |->
                     Spliced(o, bs, Total(o, BufferSize(buffer_pages)), n, Bytes[n])]
  BY <1>1, <1>2, <1>3, PatchIs DEF Bytes
<1>5. BufferInv'
  BY <1>3, <1>4 DEF BufferInv
<1>6. Len(Bytes) = BufferSize(buffer_pages)
  BY <1>1, BufferIsLaid DEF Bytes
<1>7. /\ copied' = Len(bs) + Flat!Beyond(o, Len(bs), Len(Bytes))
      /\ Bytes' = [n \in DOMAIN Bytes |->
                     IF n - o \in 1 .. Len(bs) THEN bs[n - o]
                     ELSE IF n - o \in Len(bs) + 1 .. Len(bs) + Flat!Beyond(o, Len(bs), Len(Bytes))
                          THEN Behind ELSE Bytes[n]]
  BY <1>2, <1>4, <1>6 DEF Total, Spliced
<1> QED  BY <1>3, <1>5, <1>7 DEF Flat!Patch

LEMMA CopyOutStep ==
  ASSUME BufferInv, NEW n \in 0 .. BufferSize(buffer_pages), CopyOut(n)
  PROVE  BufferInv' /\ Flat!Copy(n)
<1>1. /\ Bytes \in Seq(Content) /\ Len(Bytes) = BufferSize(buffer_pages)
      /\ BufferSize(buffer_pages) \in Nat
  BY BufferIsLaid DEF BufferInv, Bytes
<1>2. dst' = SubSeq(Bytes, 1, n)
  BY BytesOfIs DEF CopyOut, BufferInv, Bytes
<1>3. copied' = n
  <2>1. Len(SubSeq(Bytes, 1, n)) = n
    BY <1>1, PrefixIs
  <2> QED  BY <2>1, <1>2 DEF CopyOut
<1>4. buffer_pages' = buffer_pages /\ placeholders' = placeholders
  BY DEF CopyOut
<1>5. BufferInv'
  BY <1>4 DEF BufferInv
<1>6. Bytes' = Bytes
  BY <1>4 DEF Bytes
<1> QED  BY <1>2, <1>3, <1>5, <1>6 DEF Flat!Copy

LEMMA ClearStep ==
  ASSUME BufferInv, Clear
  PROVE  BufferInv' /\ Flat!Clear
<1>1. buffer_pages' = <<>> /\ placeholders' = {} /\ copied' = 0 /\ dst' = <<>>
  BY DEF Clear
<1>2. Filled(<<>>)
  BY DEF Filled
<1>3. BufferInv'
  BY <1>1, <1>2 DEF BufferInv
<1>4. Bytes' = <<>>
  BY <1>1, FlattenNone DEF Bytes
<1> QED  BY <1>1, <1>3, <1>4 DEF Flat!Clear

LEMMA BufferStep == BufferInv /\ [BufferNext]_buffer_vars => BufferInv'
<1> SUFFICES ASSUME BufferInv, [BufferNext]_buffer_vars PROVE BufferInv'
  OBVIOUS
<1>1. CASE UNCHANGED buffer_vars
  BY <1>1 DEF buffer_vars, BufferInv
<1>2. CASE \E b \in Byte : PushData(<<b>>)
  BY <1>2, PushDataStep
<1>3. CASE \E n \in 0 .. MaxBytes : n <= BufferSize(buffer_pages) /\ CopyOut(n)
  <2>1. PICK n \in 0 .. MaxBytes : n <= BufferSize(buffer_pages) /\ CopyOut(n)
    BY <1>3
  <2>2. BufferSize(buffer_pages) \in Nat
    BY BufferIsLaid DEF BufferInv
  <2>3. n \in 0 .. BufferSize(buffer_pages)
    BY <2>1, <2>2
  <2> QED  BY <2>1, <2>3, CopyOutStep
<1> QED  BY <1>1, <1>2, <1>3, PushPlaceholderStep, LinkStep, ClearStep DEF BufferNext

LEMMA OperationsAre == BufferInv => OperationsAreOfTheSequence
<1> SUFFICES ASSUME BufferInv PROVE OperationsAreOfTheSequence
  OBVIOUS
<1>1. ASSUME NEW b \in Byte, PushData(<<b>>) PROVE Flat!Push(<<b>>)
  BY <1>1, PushDataStep
<1>2. PushPlaceholder => Flat!Push([n \in 1 .. PatchLength |-> Zero])
  BY PushPlaceholderStep
<1>3. ASSUME NEW o \in placeholders, NEW bs \in Patches, Link(o, bs) PROVE Flat!Patch(o, bs)
  BY <1>3, LinkStep
<1>4. ASSUME NEW n \in 0 .. BufferSize(buffer_pages), CopyOut(n) PROVE Flat!Copy(n)
  BY <1>4, CopyOutStep
<1>5. Clear => Flat!Clear
  BY ClearStep
<1> QED  BY <1>1, <1>2, <1>3, <1>4, <1>5 DEF OperationsAreOfTheSequence

\* However pushes, patches and copies fall on pages of any size, each operation
\* is the one that a single sequence of bytes would do when asked the same: a
\* patch goes to the offset it was given and changes no byte but its own, and
\* behind one that lies on two pages exactly those that linkbuffer.c:100 copies
\* too many of.
THEOREM BufferIsOneSequence == BufferSpec => ImplementsByteSequence
<1>1. BufferInit => BufferInv
  BY BufferInvInit
<1>2. BufferInv /\ [BufferNext]_buffer_vars => BufferInv'
  BY BufferStep
<1>3. BufferInv => OperationsAreOfTheSequence
  BY OperationsAre
<1>4. BufferInv /\ [BufferNext]_buffer_vars => [OperationsAreOfTheSequence]_buffer_vars
  BY <1>3
<1> QED  BY <1>1, <1>2, <1>4, PTL DEF BufferSpec, ImplementsByteSequence
=============================================================================
