---------------------------- MODULE ArrayMethods ----------------------------
(***************************************************************************)
(* The methods of arrays that call a closure for each element (array.c):   *)
(* each, map, select, reject, inject and detect.  The closure may change   *)
(* the array that is being walked: push, pop and set, with growth and      *)
(* negative indices (array-intern.h).                                      *)
(***************************************************************************)
EXTENDS Integers, SequencesExt

CONSTANTS
  Value, Truthy, \* values, and those of them that are true
  Nil, Null, Garbage,
  Methods,       \* subset of the methods above
  Initial,       \* what the array is at the start
  MaxChanges,    \* bound: changes by closures
  MaxAlloc       \* bound: words of the array

VARIABLES
  method,
  array,     \* the array: its data, all words that are allocated, and its size
  i, len,    \* locals of the method: len in inject only
  new_array, carry, \* what it makes: an array, or a value
  place,     \* loop, closure, done
  got,       \* the element that the closure was given
  before,    \* ghost: the elements at the start
  answers,   \* ghost: what the closure answered, while it changed nothing
  changes    \* ghost: how often the closures changed the array

method_vars == <<method, array, i, len, new_array, carry, place, got, before, answers, changes>>

(***************************************************************************)
(* struct array_t, as one thread sees it                                   *)
(***************************************************************************)
FreshWords(n) == [k \in 1 .. n |-> Garbage]
ArrayWithSize(n) == [data |-> FreshWords(n), size |-> 0]

\* Mutant: a new element has a value at once, those before it have none.
GrowToLast(a, new_size) ==
  IF new_size <= a.size THEN a
  ELSE [data |-> [k \in 1 .. IF new_size > Len(a.data) THEN new_size ELSE Len(a.data) |->
                    IF k <= a.size THEN a.data[k]
                    ELSE IF k = new_size THEN Nil ELSE Garbage],
        size |-> new_size]

\* array_grow: only the first size words are copied to a larger blob.
Grown(a, new_size) ==
  LET larger == new_size > Len(a.data)
      words == IF larger THEN new_size ELSE Len(a.data)
  IN IF new_size <= a.size THEN a
     ELSE [data |-> [k \in 1 .. words |->
                       CASE k <= a.size -> a.data[k]
                         [] k > a.size /\ k <= new_size -> Nil
                         [] OTHER -> IF larger THEN Garbage ELSE a.data[k]],
           size |-> new_size]

\* The word that an index means: beyond the end, or from the end if negative.
Index(a, idx) == IF idx < 0 THEN idx + a.size ELSE idx

\* array_set, of an index that is not before the first element
SetAt(a, idx, val) ==
  LET grown == IF idx >= a.size THEN Grown(a, idx + 1) ELSE a
  IN [grown EXCEPT !.data[Index(a, idx) + 1] = val]

Pushed(a, val) == SetAt(a, a.size, val)

\* array_pop
Popped(a) == IF a.size = 0 THEN a ELSE [data |-> [a.data EXCEPT ![a.size] = Nil], size |-> a.size - 1]

\* INTERN->data[k]: no bounds are checked.
Word(a, k) == IF k < Len(a.data) THEN a.data[k + 1] ELSE Garbage

\* array_get
GetAt(a, idx) ==
  IF idx >= a.size \/ Index(a, idx) < 0 THEN Null ELSE Word(a, Index(a, idx))

Elements(a) == SubSeq(a.data, 1, a.size)

(***************************************************************************)
(* The methods                                                             *)
(***************************************************************************)
MethodsInit ==
  /\ method \in Methods
  /\ array \in Initial
  /\ len = array.size
  /\ new_array = ArrayWithSize(IF method \in {"map", "select", "reject"} THEN array.size ELSE 0)
  /\ IF method = "inject" /\ len > 0 THEN carry = Word(array, 0) /\ i = 1
                                     ELSE carry = Nil /\ i = 0
  /\ place = "loop"
  /\ got = Nil
  /\ before = Elements(array)
  /\ answers = <<>>
  /\ changes = 0

\* inject looks at the size once, the others before each element.
Going == i < IF method = "inject" THEN len ELSE array.size

CallClosure ==
  /\ place = "loop" /\ Going
  /\ got' = IF method \in {"each", "map", "detect"} THEN GetAt(array, i) ELSE Word(array, i)
  /\ place' = "closure"
  /\ UNCHANGED <<method, array, i, len, new_array, carry, before, answers, changes>>

\* The closure changes the array.
Change(changed) ==
  /\ place = "closure" /\ changes < MaxChanges
  /\ Len(changed.data) <= MaxAlloc
  /\ array' = changed /\ changes' = changes + 1
  /\ UNCHANGED <<method, i, len, new_array, carry, place, got, before, answers>>

ClosurePushes(v) == Change(Pushed(array, v))
ClosurePops == Change(Popped(array))
ClosureSets(idx, v) == Index(array, idx) >= 0 /\ Change(SetAt(array, idx, v))

\* Mutant: reject is select.
KeepsTruthy(answer) == answer \in Truthy

\* Whether select or reject keeps the element.
Keeps(answer) == (answer \in Truthy) = (method = "select")

\* The closure returns. What is kept is the element that is at the index now.
Answer(v) ==
  /\ place = "closure"
  /\ new_array' = CASE method = "map" -> SetAt(new_array, i, v)
                    [] method \in {"select", "reject"} /\ Keeps(v) ->
                         Pushed(new_array, Word(array, i))
                    [] OTHER -> new_array
  /\ carry' = CASE method = "inject" -> v
                [] method = "detect" /\ v \in Truthy -> got
                [] OTHER -> carry
  /\ place' = IF method = "detect" /\ v \in Truthy THEN "done" ELSE "loop"
  /\ i' = i + 1
  /\ got' = Nil
  /\ answers' = IF changes = 0 THEN Append(answers, v) ELSE <<>>
  /\ UNCHANGED <<method, array, len, before, changes>>

Finish ==
  /\ place = "loop" /\ ~Going
  /\ place' = "done"
  /\ UNCHANGED <<method, array, i, len, new_array, carry, got, before, answers, changes>>

MethodsNext ==
  \/ CallClosure
  \/ \E v \in Value : ClosurePushes(v)
  \/ ClosurePops
  \/ \E v \in Value, idx \in -1 .. MaxAlloc : ClosureSets(idx, v)
  \/ \E v \in Value \cup {Nil} : Answer(v)
  \/ Finish

MethodsSpec == MethodsInit /\ [][MethodsNext]_method_vars

(***************************************************************************)
(* Properties                                                              *)
(***************************************************************************)
\* Whatever the closures did to the array, a closure is given a value that
\* somebody put there, or nil, and never a word that nobody wrote or that lies
\* beyond the data: also by inject, which does not see that the array shrank,
\* and whatever growth copied (array.c:208-345). So are the results' elements.
ClosuresGetElements ==
  /\ got \notin {Garbage, Null}
  /\ \A k \in 1 .. new_array.size : new_array.data[k] \notin {Garbage, Null}

\* The new array has those elements whose answers were true, or were not, in order.
HasPicked(truth) ==
  \E from \in [1 .. new_array.size -> DOMAIN answers] :
    /\ \A j, k \in DOMAIN from : j < k => from[j] < from[k]
    /\ {from[k] : k \in DOMAIN from} = {n \in DOMAIN answers : (answers[n] \in Truthy) = truth}
    /\ \A k \in DOMAIN from : new_array.data[k] = before[from[k]]

\* When the closures leave the array alone, every element is asked about once
\* and in order, and the result is what map, select, reject, inject and detect
\* mean for the answers (array.c:208-345).
ResultsFollowTheAnswers ==
  place = "done" /\ changes = 0 =>
    LET n == Len(answers) IN
    CASE method = "each" -> n = Len(before)
      [] method = "map" -> n = Len(before) /\ Elements(new_array) = answers
      [] method = "select" -> n = Len(before) /\ HasPicked(TRUE)
      [] method = "reject" -> n = Len(before) /\ HasPicked(FALSE)
      [] method = "inject" ->
           IF before = <<>> THEN n = 0 /\ carry = Nil
           ELSE n = Len(before) - 1 /\ carry = IF n = 0 THEN before[1] ELSE Last(answers)
      [] method = "detect" ->
           LET first == SelectInSeq(answers, LAMBDA a : a \in Truthy)
           IN IF first = 0 THEN n = Len(before) /\ carry = Nil
              ELSE n = first /\ carry = before[first]
=============================================================================
