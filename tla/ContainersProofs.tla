-------------------------- MODULE ContainersProofs --------------------------
(***************************************************************************)
(* Theorems about what lives on the heap: arrays and objects.              *)
(*                                                                         *)
(* Arrays, for any number of threads and elements. In the program "store"  *)
(* one thread adds: until it has published the larger blob nobody else has *)
(* it in hand, and what it writes lies beyond every key that was given     *)
(* out, in whichever blob a reader still looks. In the program "map" the   *)
(* first blob is never replaced. ArrayMethods, for any values, arrays and  *)
(* closures.                                                               *)
(*                                                                         *)
(* Objects, for any programs, names, values and functions. Prototypes are  *)
(* older than their objects, and superclasses than their classes; modules  *)
(* are not, so what they include is ranked: that a module does not reach   *)
(* the object that is to include it is what a new rank is made from. What  *)
(* the code computes by recursion is said with the least set that is       *)
(* closed; that the recursions of ObjectModel end, and find what the loops *)
(* of the code find, follows from the ranks.                               *)
(***************************************************************************)
EXTENDS Arrays, Objects, SequenceLemmas

(***************************************************************************)
(* Arrays                                                                  *)
(***************************************************************************)
\* What the code's two users of a shared array are.
ArraysAreUsed ==
  /\ ArrayPrograms \subseteq {"store", "map"}
  /\ InitialRoom \in Nat /\ MaxSize \in Nat

Words == (0 .. MaxSize) \cup {Nil, Unwritten, Null}
Blobs == Seq(Seq(Words))
Growing == {"copy", "publish"}
Adding == {"set", "grow", "copy", "publish", "publish_alloc_size", "fill", "filling"}
Reading == {"get", "read"}

ArrayTypes ==
  /\ array_program \in {"store", "map"}
  /\ size \in Nat /\ alloc_size \in Nat /\ begun \in 0 .. MaxSize
  /\ blobs \in Blobs /\ data \in 1 .. Len(blobs)
  /\ pc \in [Worker -> Adding \cup Reading \cup {"idle", "write"}]
  /\ idx \in [Worker -> Nat] /\ val \in [Worker -> Words]
  /\ new_data \in [Worker -> 0 .. Len(blobs)]
  /\ bound \in [Worker -> Nat] /\ i \in [Worker -> Nat]
  /\ given \subseteq Nat \X Words

\* The members of the array promise no more than there is.
SizesFit == size <= alloc_size /\ alloc_size <= Len(blobs[data])

\* In the store, what was given out is there, and only one thread adds.
GivenIsThere ==
  \A g \in given : g[1] < size /\ blobs[data][g[1] + 1] = g[2]

AdderAdds(t) ==
  /\ pc[t] \in Adding \cup {"idle", "write"}
  /\ pc[t] \in Adding => idx[t] = size
  /\ pc[t] = "write" => size = idx[t] + 1 /\ \A g \in given : g[1] < idx[t]
  /\ pc[t] \in Growing =>
       /\ new_data[t] \in DOMAIN blobs \ {data}
       /\ Len(blobs[new_data[t]]) = idx[t] + 1 /\ alloc_size < idx[t] + 1
       /\ \A u \in Worker \ {t} : pc[u] = "read" => new_data[u] # new_data[t]
  /\ pc[t] = "publish" =>
       \A k \in 1 .. size : blobs[new_data[t]][k] = blobs[data][k]
  /\ pc[t] = "publish_alloc_size" => Len(blobs[data]) = idx[t] + 1 /\ alloc_size < idx[t] + 1
  /\ pc[t] \in {"fill", "filling"} => idx[t] + 1 <= alloc_size
  /\ pc[t] = "filling" => i[t] \in size .. size + 1

ReaderReads(t) ==
  /\ pc[t] \in Reading \cup {"idle"}
  /\ pc[t] \in Reading => <<idx[t], val[t]>> \in given
  /\ pc[t] = "get" => idx[t] < bound[t]
  /\ pc[t] = "read" => /\ new_data[t] \in DOMAIN blobs
                       /\ idx[t] < Len(blobs[new_data[t]])
                       /\ blobs[new_data[t]][idx[t] + 1] = val[t]

StoreInv ==
  array_program = "store" =>
    /\ GivenIsThere
    /\ \A t \in Worker : IF t = Adder THEN AdderAdds(t) ELSE ReaderReads(t)

\* The result of map_parallel has its full length from the start.
MapInv ==
  array_program = "map" =>
    /\ alloc_size = MaxSize
    /\ \A t \in Worker :
         /\ pc[t] \in {"idle", "set", "grow", "fill", "filling", "write"}
         /\ pc[t] # "idle" => idx[t] < MaxSize

ArrayInv == ArrayTypes /\ SizesFit /\ StoreInv /\ MapInv
-----------------------------------------------------------------------------
(***************************************************************************)
(* Blobs                                                                   *)
(***************************************************************************)
\* One word of one blob changes.
LEMMA WordWritten ==
  ASSUME NEW W, NEW B \in Seq(Seq(W)), NEW d \in 1 .. Len(B), NEW k \in 1 .. Len(B[d]),
         NEW w \in W, NEW C, C = [B EXCEPT ![d][k] = w]
  PROVE  /\ C \in Seq(Seq(W)) /\ Len(C) = Len(B)
         /\ \A e \in 1 .. Len(B) :
              /\ Len(C[e]) = Len(B[e])
              /\ \A n \in 1 .. Len(B[e]) : C[e][n] = IF e = d /\ n = k THEN w ELSE B[e][n]
<1> DEFINE b == [B[d] EXCEPT ![k] = w]
<1>1. C = [B EXCEPT ![d] = b]
  OBVIOUS
<1>2. B[d] \in Seq(W)
  OBVIOUS
<1>3. /\ b \in Seq(W) /\ Len(b) = Len(B[d])
      /\ \A n \in 1 .. Len(B[d]) : b[n] = IF n = k THEN w ELSE B[d][n]
  BY <1>2
<1> HIDE DEF b
<1>4. C \in Seq(Seq(W)) /\ Len(C) = Len(B) /\ C[d] = b /\ \A e \in 1 .. Len(B) : e # d => C[e] = B[e]
  BY <1>1, <1>3
<1> QED
  BY <1>3, <1>4

LEMMA BlobReplaced ==
  ASSUME NEW W, NEW B \in Seq(Seq(W)), NEW e \in 1 .. Len(B), NEW b \in Seq(W),
         NEW C, C = [B EXCEPT ![e] = b]
  PROVE  /\ C \in Seq(Seq(W)) /\ Len(C) = Len(B) /\ C[e] = b
         /\ \A o \in 1 .. Len(B) : o # e => C[o] = B[o]
  OBVIOUS

\* A blob is copied into another: only that one changes, and not its length.
LEMMA WordsCopied ==
  ASSUME NEW W, NEW B \in Seq(Seq(W)), NEW d \in 1 .. Len(B), NEW e \in 1 .. Len(B),
         NEW n \in Nat, n <= Len(B[d]), NEW b,
         b = [k \in DOMAIN B[e] |-> IF k <= n THEN B[d][k] ELSE B[e][k]]
  PROVE  /\ b \in Seq(W) /\ Len(b) = Len(B[e])
         /\ \A k \in 1 .. Len(B[e]) : k <= n => b[k] = B[d][k]
<1>1. B[d] \in Seq(W) /\ B[e] \in Seq(W)
  OBVIOUS
<1>2. DOMAIN B[e] = 1 .. Len(B[e]) /\ Len(B[e]) \in Nat
  BY <1>1
<1>3. \A k \in 1 .. Len(B[e]) : b[k] \in W
  BY <1>1, <1>2
<1>4. b \in Seq(W) /\ Len(b) = Len(B[e])
  BY <1>2, <1>3
<1> QED
  BY <1>2, <1>4

\* A new blob is one more.
LEMMA BlobAppended ==
  ASSUME NEW W, NEW B \in Seq(Seq(W)), NEW n \in Nat, Unwritten \in W,
         NEW C, C = Append(B, Blob(n))
  PROVE  /\ C \in Seq(Seq(W)) /\ Len(C) = Len(B) + 1 /\ Len(C[Len(B) + 1]) = n
         /\ \A o \in 1 .. Len(B) : C[o] = B[o]
<1>1. Blob(n) \in Seq(W) /\ Len(Blob(n)) = n
  BY DEF Blob
<1> QED
  BY <1>1

-----------------------------------------------------------------------------
(***************************************************************************)
(* ArrayInv is inductive                                                   *)
(***************************************************************************)
LEMMA ArrayInit == ASSUME ArraysAreUsed PROVE ArraysInit => ArrayInv
<1> SUFFICES ASSUME ArraysInit PROVE ArrayInv
  OBVIOUS
<1> USE DEF ArraysAreUsed, ArraysInit
<1>1. alloc_size \in Nat /\ Blob(alloc_size) \in Seq(Words) /\ Len(Blob(alloc_size)) = alloc_size
  BY DEF Blob, Words
<1>2. ArrayTypes
  BY <1>1 DEF ArrayTypes, Words, Blobs
<1>3. SizesFit
  BY <1>1 DEF SizesFit
<1>4. StoreInv
  BY DEF StoreInv, GivenIsThere, AdderAdds, ReaderReads, Adding, Reading, Growing
<1>5. MapInv
  BY DEF MapInv
<1> QED
  BY <1>2, <1>3, <1>4, <1>5 DEF ArrayInv

\* Where the threads that write are, in either program.
LEMMA WritesFit ==
  ASSUME ArraysAreUsed, ArrayInv, NEW t \in Worker
  PROVE  /\ At(t, "filling") /\ i[t] < idx[t] + 1 => i[t] + 1 \in 1 .. Len(blobs[data])
         /\ At(t, "write") => idx[t] + 1 \in 1 .. Len(blobs[data])
         /\ pc[t] \in Adding \cup {"write"} => array_program = "map" \/ t = Adder
         /\ pc[t] \in Growing => array_program = "store" /\ t = Adder
         /\ blobs[data] \in Seq(Words) /\ Len(blobs[data]) \in Nat
<1>1. /\ blobs[data] \in Seq(Words) /\ Len(blobs[data]) \in Nat
      /\ size \in Nat /\ alloc_size \in Nat /\ idx[t] \in Nat /\ i[t] \in Nat
      /\ size <= alloc_size /\ alloc_size <= Len(blobs[data])
      /\ array_program \in {"store", "map"}
  BY DEF ArrayInv, ArrayTypes, SizesFit, Blobs
<1>2. CASE array_program = "store" /\ t = Adder
  <2>1. AdderAdds(t)
    BY <1>2 DEF ArrayInv, StoreInv
  <2>2. /\ pc[t] = "filling" => idx[t] = size /\ idx[t] + 1 <= alloc_size
        /\ pc[t] = "write" => size = idx[t] + 1
    BY <2>1 DEF AdderAdds, Adding
  <2> QED
    BY <1>1, <1>2, <2>2 DEF At
<1>3. CASE array_program = "store" /\ t # Adder
  <2>1. pc[t] \in Reading \cup {"idle"}
    BY <1>3 DEF ArrayInv, StoreInv, ReaderReads
  <2> QED
    BY <1>1, <2>1 DEF At, Adding, Growing, Reading
<1>4. CASE array_program = "map"
  <2>1. /\ alloc_size = MaxSize
        /\ pc[t] # "idle" => idx[t] < MaxSize
        /\ pc[t] \in {"idle", "set", "grow", "fill", "filling", "write"}
    BY <1>4 DEF ArrayInv, MapInv
  <2> QED
    BY <1>1, <1>4, <2>1 DEF At, Growing
<1> QED
  BY <1>1, <1>2, <1>3, <1>4

\* Where those are that read.
LEMMA ReadsFit ==
  ASSUME ArrayInv, NEW t \in Worker, pc[t] \in Reading
  PROVE  /\ array_program = "store" /\ t # Adder /\ ReaderReads(t)
         /\ pc[t] = "get" => ~(idx[t] >= bound[t])
         /\ pc[t] = "read" => blobs[new_data[t]][idx[t] + 1] = val[t]
<1>1. array_program = "store"
  BY DEF ArrayInv, ArrayTypes, MapInv, Reading
<1>2. t # Adder
  <2>1. CASE t = Adder
    <3>1. AdderAdds(t)
      BY <1>1, <2>1 DEF ArrayInv, StoreInv
    <3> QED
      BY <3>1 DEF AdderAdds, Adding, Reading
  <2> QED
    BY <2>1
<1>3. ReaderReads(t)
  BY <1>1, <1>2 DEF ArrayInv, StoreInv
<1>4. idx[t] \in Nat /\ bound[t] \in Nat
  BY DEF ArrayInv, ArrayTypes
<1> QED
  BY <1>1, <1>2, <1>3, <1>4 DEF ReaderReads

\* What each writer does to the blobs.
LEMMA FillEffect ==
  ASSUME ArraysAreUsed, ArrayInv, NEW t \in Worker, FillNil(t)
  PROVE  /\ blobs' \in Blobs /\ Len(blobs') = Len(blobs)
         /\ \A e \in 1 .. Len(blobs) :
              /\ Len(blobs'[e]) = Len(blobs[e])
              /\ \A n \in 1 .. Len(blobs[e]) :
                   blobs'[e][n] = IF e = data /\ n = i[t] + 1 THEN Nil ELSE blobs[e][n]
<1>1. blobs' = [blobs EXCEPT ![data][i[t] + 1] = Nil] /\ i[t] + 1 \in 1 .. Len(blobs[data])
  BY WritesFit DEF FillNil
<1>2. blobs \in Seq(Seq(Words)) /\ data \in 1 .. Len(blobs) /\ Nil \in Words
  BY DEF ArrayInv, ArrayTypes, Words, Blobs
<1> QED
  BY <1>1, <1>2, WordWritten DEF Blobs

LEMMA WriteEffect ==
  ASSUME ArraysAreUsed, ArrayInv, NEW t \in Worker, Write(t)
  PROVE  /\ blobs' \in Blobs /\ Len(blobs') = Len(blobs)
         /\ \A e \in 1 .. Len(blobs) :
              /\ Len(blobs'[e]) = Len(blobs[e])
              /\ \A n \in 1 .. Len(blobs[e]) :
                   blobs'[e][n] = IF e = data /\ n = idx[t] + 1 THEN val[t] ELSE blobs[e][n]
<1>1. blobs' = [blobs EXCEPT ![data][idx[t] + 1] = val[t]] /\ idx[t] + 1 \in 1 .. Len(blobs[data])
  BY WritesFit DEF Write
<1>2. blobs \in Seq(Seq(Words)) /\ data \in 1 .. Len(blobs) /\ val[t] \in Words
  BY DEF ArrayInv, ArrayTypes, Blobs
<1> QED
  BY <1>1, <1>2, WordWritten DEF Blobs

LEMMA CopyEffect ==
  ASSUME ArraysAreUsed, ArrayInv, NEW t \in Worker, CopyData(t)
  PROVE  /\ array_program = "store" /\ t = Adder /\ AdderAdds(t)
         /\ new_data[t] \in 1 .. Len(blobs) /\ new_data[t] # data
         /\ blobs' \in Blobs /\ Len(blobs') = Len(blobs)
         /\ Len(blobs'[new_data[t]]) = Len(blobs[new_data[t]])
         /\ \A o \in 1 .. Len(blobs) : o # new_data[t] => blobs'[o] = blobs[o]
         /\ \A k \in 1 .. size : blobs'[new_data[t]][k] = blobs[data][k]
<1>1. array_program = "store" /\ t = Adder /\ pc[t] = "copy" /\ Len(blobs[data]) \in Nat
  BY WritesFit DEF CopyData, At, Growing
<1>2. AdderAdds(t)
  BY <1>1 DEF ArrayInv, StoreInv
<1>3. /\ blobs \in Seq(Seq(Words)) /\ data \in 1 .. Len(blobs) /\ size \in Nat
      /\ size <= Len(blobs[data]) /\ alloc_size \in Nat /\ size <= alloc_size
  BY <1>1 DEF ArrayInv, ArrayTypes, SizesFit, Blobs
<1>4. /\ new_data[t] \in 1 .. Len(blobs) /\ new_data[t] # data /\ idx[t] = size
      /\ Len(blobs[new_data[t]]) = size + 1
  BY <1>1, <1>2, <1>3 DEF AdderAdds, Growing, Adding
<1>5. blobs' = [blobs EXCEPT ![new_data[t]] =
                 [k \in DOMAIN @ |-> IF k <= size THEN blobs[data][k] ELSE @[k]]]
  BY DEF CopyData
<1>6. /\ blobs' \in Blobs /\ Len(blobs') = Len(blobs)
      /\ Len(blobs'[new_data[t]]) = Len(blobs[new_data[t]])
      /\ \A o \in 1 .. Len(blobs) : o # new_data[t] => blobs'[o] = blobs[o]
      /\ \A k \in 1 .. Len(blobs[new_data[t]]) : k <= size => blobs'[new_data[t]][k] = blobs[data][k]
  <2> DEFINE e == new_data[t]
             b == [k \in DOMAIN blobs[e] |-> IF k <= size THEN blobs[data][k] ELSE blobs[e][k]]
  <2>1. blobs' = [blobs EXCEPT ![e] = b]
    BY <1>5
  <2>2. e \in 1 .. Len(blobs)
    BY <1>4
  <2>b. b = [k \in DOMAIN blobs[e] |-> IF k <= size THEN blobs[data][k] ELSE blobs[e][k]]
    OBVIOUS
  <2> HIDE DEF e, b
  <2>3. /\ b \in Seq(Words) /\ Len(b) = Len(blobs[e])
        /\ \A k \in 1 .. Len(blobs[e]) : k <= size => b[k] = blobs[data][k]
    <3>1. blobs \in Seq(Seq(Words)) /\ size \in Nat /\ size <= Len(blobs[data])
      BY <1>3
    <3>2. data \in 1 .. Len(blobs) /\ e \in 1 .. Len(blobs)
      BY <1>3, <2>2
    <3>3. ASSUME NEW W, blobs \in Seq(Seq(W))
          PROVE  /\ b \in Seq(W) /\ Len(b) = Len(blobs[e])
                 /\ \A k \in 1 .. Len(blobs[e]) : k <= size => b[k] = blobs[data][k]
      BY <3>1, <3>2, <3>3, <2>b, WordsCopied
    <3> QED
      BY <3>1, <3>3
  <2>4. /\ blobs' \in Blobs /\ Len(blobs') = Len(blobs) /\ blobs'[e] = b
        /\ \A o \in 1 .. Len(blobs) : o # e => blobs'[o] = blobs[o]
    BY <1>3, <2>1, <2>2, <2>3, BlobReplaced DEF Blobs
  <2> QED
    BY <2>3, <2>4 DEF e
<1> QED
  BY <1>1, <1>2, <1>3, <1>4, <1>6

LEMMA GrowEffect ==
  ASSUME ArraysAreUsed, ArrayInv, NEW t \in Worker, Grow(t), idx[t] + 1 > alloc_size
  PROVE  /\ array_program = "store" /\ t = Adder
         /\ blobs' \in Blobs /\ Len(blobs') = Len(blobs) + 1
         /\ Len(blobs'[Len(blobs) + 1]) = idx[t] + 1
         /\ \A o \in 1 .. Len(blobs) : blobs'[o] = blobs[o]
<1>1. pc[t] = "grow" /\ blobs' = Append(blobs, Blob(idx[t] + 1))
  BY DEF Grow, At
<1>2. idx[t] + 1 \in Nat /\ Unwritten \in Words /\ blobs \in Seq(Seq(Words))
  BY DEF ArrayInv, ArrayTypes, Words, Blobs
<1>3. array_program = "store"
  <2>1. array_program = "map" => alloc_size = MaxSize /\ idx[t] < MaxSize
    BY <1>1 DEF ArrayInv, MapInv
  <2>2. idx[t] \in Nat /\ MaxSize \in Nat
    BY DEF ArrayInv, ArrayTypes, ArraysAreUsed
  <2> QED
    BY <2>1, <2>2 DEF ArrayInv, ArrayTypes
<1>4. t = Adder
  BY <1>1, <1>3, WritesFit DEF Adding
<1> QED
  BY <1>1, <1>2, <1>3, <1>4, BlobAppended DEF Blobs
LEMMA ArrayTypesNext ==
  ASSUME ArraysAreUsed, ArrayInv, [ArraysNext]_array_vars PROVE ArrayTypes'
<1>a. Null \in Words /\ begun \in Words
  BY DEF Words, ArrayInv, ArrayTypes
<1>b. /\ blobs \in Blobs /\ Len(blobs) \in Nat /\ data \in 1 .. Len(blobs)
      /\ array_program \in {"store", "map"} /\ size \in Nat /\ alloc_size \in Nat
      /\ MaxSize \in Nat /\ begun \in 0 .. MaxSize
  BY DEF ArrayInv, ArrayTypes, ArraysAreUsed, Blobs
<1>c. /\ pc \in [Worker -> Adding \cup Reading \cup {"idle", "write"}]
      /\ idx \in [Worker -> Nat] /\ val \in [Worker -> Words]
      /\ new_data \in [Worker -> 0 .. Len(blobs)]
      /\ bound \in [Worker -> Nat] /\ i \in [Worker -> Nat]
      /\ given \subseteq Nat \X Words
  BY DEF ArrayInv, ArrayTypes
<1> USE <1>a, <1>b, <1>c DEF ArrayTypes, Adding, Reading, At, Goto, Set, array, locals, ghosts
<1>1. ASSUME NEW t \in Worker, StoreAdd(t) PROVE ArrayTypes'
  BY <1>1 DEF StoreAdd
<1>2. ASSUME NEW t \in Worker, MapNext(t) PROVE ArrayTypes'
  BY <1>2 DEF MapNext
<1>3. ASSUME NEW t \in Worker, SetElement(t) PROVE ArrayTypes'
  BY <1>3 DEF SetElement
<1>4. ASSUME NEW t \in Worker, Grow(t) PROVE ArrayTypes'
  <2>1. CASE idx[t] + 1 > alloc_size
    <3>1. blobs' \in Blobs /\ Len(blobs') = Len(blobs) + 1
      BY <1>4, <2>1, GrowEffect
    <3>2. new_data' \in [Worker -> 0 .. Len(blobs')]
      <4>1. new_data' = [new_data EXCEPT ![t] = Len(blobs) + 1]
        BY <1>4, <2>1 DEF Grow
      <4>2. 0 .. Len(blobs) \subseteq 0 .. Len(blobs') /\ Len(blobs) + 1 \in 0 .. Len(blobs')
        BY <3>1
      <4> QED
        BY <4>1, <4>2
    <3>3. pc' = [pc EXCEPT ![t] = "copy"] /\ UNCHANGED <<size, alloc_size, data, idx, val, bound, i, array_program, begun, given>>
      BY <1>4, <2>1 DEF Grow
    <3>4. data \in 1 .. Len(blobs')
      BY <3>1
    <3> QED
      BY <3>1, <3>2, <3>3, <3>4
  <2>2. CASE ~(idx[t] + 1 > alloc_size)
    BY <1>4, <2>2 DEF Grow
  <2> QED
    BY <2>1, <2>2
<1>5. ASSUME NEW t \in Worker, CopyData(t) PROVE ArrayTypes'
  <2>1. blobs' \in Blobs /\ Len(blobs') = Len(blobs)
    BY <1>5, CopyEffect
  <2> QED
    BY <1>5, <2>1 DEF CopyData
<1>6. ASSUME NEW t \in Worker, Publish(t) PROVE ArrayTypes'
  <2>1. new_data[t] \in 1 .. Len(blobs)
    <3>1. array_program = "store" /\ t = Adder /\ pc[t] \in Growing
      BY <1>6, WritesFit DEF Publish, Growing
    <3>2. AdderAdds(t)
      BY <3>1 DEF ArrayInv, StoreInv
    <3> QED
      BY <3>1, <3>2 DEF AdderAdds
  <2> QED
    BY <1>6, <2>1 DEF Publish
<1>7. ASSUME NEW t \in Worker, PublishAllocSize(t) PROVE ArrayTypes'
  BY <1>7 DEF PublishAllocSize
<1>8. ASSUME NEW t \in Worker, FillStart(t) PROVE ArrayTypes'
  BY <1>8 DEF FillStart
<1>9. ASSUME NEW t \in Worker, FillNil(t) PROVE ArrayTypes'
  <2>1. blobs' \in Blobs /\ Len(blobs') = Len(blobs)
    BY <1>9, FillEffect
  <2> QED
    BY <1>9, <2>1, SMTT(30) DEF FillNil
<1>10. ASSUME NEW t \in Worker, SetSize(t) PROVE ArrayTypes'
  BY <1>10 DEF SetSize
<1>11. ASSUME NEW t \in Worker, Write(t) PROVE ArrayTypes'
  <2>1. blobs' \in Blobs /\ Len(blobs') = Len(blobs)
    BY <1>11, WriteEffect
  <2>2. <<idx[t], val[t]>> \in Nat \X Words
    OBVIOUS
  <2> QED
    BY <1>11, <2>1, <2>2 DEF Write
<1>12. ASSUME NEW t \in Worker, NEW g \in given, StoreGet(t, g) PROVE ArrayTypes'
  <2>1. g[1] \in Nat /\ g[2] \in Words
    OBVIOUS
  <2> QED
    BY <1>12, <2>1 DEF StoreGet
<1>13. ASSUME NEW t \in Worker, GetData(t) PROVE ArrayTypes'
  <2>1. pc[t] = "get" /\ ~(idx[t] >= bound[t])
    BY <1>13, ReadsFit DEF GetData
  <2>2. data \in 0 .. Len(blobs)
    OBVIOUS
  <2> QED
    BY <1>13, <2>1, <2>2 DEF GetData
<1>14. ASSUME NEW t \in Worker, ReadElement(t) PROVE ArrayTypes'
  <2>1. pc[t] = "read" /\ blobs[new_data[t]][idx[t] + 1] = val[t]
    BY <1>14, ReadsFit DEF ReadElement
  <2> QED
    BY <1>14, <2>1 DEF ReadElement
<1>15. CASE UNCHANGED array_vars
  BY <1>15 DEF array_vars
<1> QED
  BY <1>1, <1>2, <1>3, <1>4, <1>5, <1>6, <1>7, <1>8, <1>9, <1>10, <1>11, <1>12, <1>13, <1>14, <1>15 DEF ArraysNext

LEMMA SizesNext ==
  ASSUME ArraysAreUsed, ArrayInv, [ArraysNext]_array_vars PROVE SizesFit'
<1>a. /\ SizesFit /\ size \in Nat /\ alloc_size \in Nat /\ data \in 1 .. Len(blobs)
      /\ Len(blobs[data]) \in Nat /\ size <= alloc_size /\ alloc_size <= Len(blobs[data])
      /\ array_program \in {"store", "map"}
  BY DEF ArrayInv, ArrayTypes, SizesFit, Blobs
<1>1. ASSUME NEW t \in Worker, StoreAdd(t) PROVE SizesFit'
  <2>1. UNCHANGED <<size, alloc_size, data, blobs>>
    BY <1>1 DEF StoreAdd, array
  <2> QED
    BY <1>a, <2>1 DEF SizesFit
<1>2. ASSUME NEW t \in Worker, MapNext(t) PROVE SizesFit'
  <2>1. UNCHANGED <<size, alloc_size, data, blobs>>
    BY <1>2 DEF MapNext, array
  <2> QED
    BY <1>a, <2>1 DEF SizesFit
<1>3. ASSUME NEW t \in Worker, SetElement(t) PROVE SizesFit'
  <2>1. UNCHANGED <<size, alloc_size, data, blobs>>
    BY <1>3 DEF SetElement, array
  <2> QED
    BY <1>a, <2>1 DEF SizesFit
<1>4. ASSUME NEW t \in Worker, Grow(t) PROVE SizesFit'
  <2>1. CASE idx[t] + 1 > alloc_size
    <3>1. blobs'[data] = blobs[data]
      BY <1>4, <1>a, <2>1, GrowEffect
    <3> QED
      BY <1>4, <1>a, <3>1 DEF Grow, SizesFit
  <2>2. CASE ~(idx[t] + 1 > alloc_size)
    BY <1>4, <1>a, <2>2 DEF Grow, SizesFit
  <2> QED
    BY <2>1, <2>2
<1>5. ASSUME NEW t \in Worker, CopyData(t) PROVE SizesFit'
  <2>1. blobs'[data] = blobs[data]
    BY <1>5, <1>a, CopyEffect
  <2> QED
    BY <1>5, <1>a, <2>1 DEF CopyData, SizesFit
<1>6. ASSUME NEW t \in Worker, Publish(t) PROVE SizesFit'
  <2>1. array_program = "store" /\ t = Adder /\ pc[t] \in Growing
    BY <1>6, WritesFit DEF Publish, Growing, At
  <2>2. AdderAdds(t)
    BY <2>1 DEF ArrayInv, StoreInv
  <2>3. Len(blobs[new_data[t]]) = idx[t] + 1 /\ alloc_size < idx[t] + 1 /\ idx[t] \in Nat
    BY <2>1, <2>2 DEF AdderAdds, ArrayInv, ArrayTypes
  <2>4. UNCHANGED <<size, alloc_size, blobs>> /\ data' = new_data[t]
    BY <1>6 DEF Publish
  <2> QED
    BY <1>a, <2>3, <2>4 DEF SizesFit
<1>7. ASSUME NEW t \in Worker, PublishAllocSize(t) PROVE SizesFit'
  <2>1. array_program = "store" /\ t = Adder
    <3>1. pc[t] = "publish_alloc_size"
      BY <1>7 DEF PublishAllocSize, At
    <3>2. array_program # "map"
      BY <3>1 DEF ArrayInv, MapInv
    <3> QED
      BY <1>a, <3>1, <3>2, WritesFit DEF Adding
  <2>2. AdderAdds(t) /\ pc[t] = "publish_alloc_size"
    BY <1>7, <2>1 DEF ArrayInv, StoreInv, PublishAllocSize, At
  <2>3. Len(blobs[data]) = idx[t] + 1 /\ idx[t] = size
    BY <2>2 DEF AdderAdds, Adding
  <2>4. UNCHANGED <<size, data, blobs>> /\ alloc_size' = idx[t] + 1
    BY <1>7 DEF PublishAllocSize
  <2> QED
    BY <1>a, <2>3, <2>4 DEF SizesFit
<1>8. ASSUME NEW t \in Worker, FillStart(t) PROVE SizesFit'
  <2>1. UNCHANGED <<size, alloc_size, data, blobs>>
    BY <1>8 DEF FillStart, array
  <2> QED
    BY <1>a, <2>1 DEF SizesFit
<1>9. ASSUME NEW t \in Worker, FillNil(t) PROVE SizesFit'
  <2>1. Len(blobs'[data]) = Len(blobs[data])
    BY <1>9, <1>a, FillEffect
  <2> QED
    BY <1>9, <1>a, <2>1 DEF FillNil, SizesFit
<1>10. ASSUME NEW t \in Worker, SetSize(t) PROVE SizesFit'
  <2>1. pc[t] = "filling" /\ UNCHANGED <<alloc_size, data, blobs>> /\ size' = idx[t] + 1
    BY <1>10 DEF SetSize, At
  <2>2. idx[t] + 1 <= alloc_size
    <3>1. CASE array_program = "store"
      <4>1. t = Adder
        BY <2>1, <3>1, WritesFit DEF Adding
      <4>2. AdderAdds(t)
        BY <3>1, <4>1 DEF ArrayInv, StoreInv
      <4> QED
        BY <2>1, <4>2 DEF AdderAdds
    <3>2. CASE array_program = "map"
      <4>1. alloc_size = MaxSize
        BY <3>2 DEF ArrayInv, MapInv
      <4>2. idx[t] < MaxSize
        BY <2>1, <3>2 DEF ArrayInv, MapInv
      <4>3. idx[t] \in Nat
        BY DEF ArrayInv, ArrayTypes
      <4> QED
        BY <1>a, <4>1, <4>2, <4>3
    <3> QED
      BY <1>a, <3>1, <3>2
  <2> QED
    BY <1>a, <2>1, <2>2 DEF SizesFit
<1>11. ASSUME NEW t \in Worker, Write(t) PROVE SizesFit'
  <2>1. Len(blobs'[data]) = Len(blobs[data])
    BY <1>11, <1>a, WriteEffect
  <2> QED
    BY <1>11, <1>a, <2>1 DEF Write, SizesFit
<1>12. ASSUME NEW t \in Worker, NEW g \in given, StoreGet(t, g) PROVE SizesFit'
  <2>1. UNCHANGED <<size, alloc_size, data, blobs>>
    BY <1>12 DEF StoreGet, array
  <2> QED
    BY <1>a, <2>1 DEF SizesFit
<1>13. ASSUME NEW t \in Worker, GetData(t) PROVE SizesFit'
  <2>1. UNCHANGED <<size, alloc_size, data, blobs>>
    BY <1>13 DEF GetData, array
  <2> QED
    BY <1>a, <2>1 DEF SizesFit
<1>14. ASSUME NEW t \in Worker, ReadElement(t) PROVE SizesFit'
  <2>1. UNCHANGED <<size, alloc_size, data, blobs>>
    BY <1>14 DEF ReadElement, array
  <2> QED
    BY <1>a, <2>1 DEF SizesFit
<1>15. CASE UNCHANGED array_vars
  <2>1. UNCHANGED <<size, alloc_size, data, blobs>>
    BY <1>15 DEF array_vars
  <2> QED
    BY <1>a, <2>1 DEF SizesFit
<1> QED
  BY <1>1, <1>2, <1>3, <1>4, <1>5, <1>6, <1>7, <1>8, <1>9, <1>10, <1>11, <1>12, <1>13, <1>14, <1>15 DEF ArraysNext

LEMMA MapInvNext ==
  ASSUME ArraysAreUsed, ArrayInv, [ArraysNext]_array_vars PROVE MapInv'
<1> USE DEF ArrayInv, ArrayTypes, MapInv, ArraysAreUsed, At, Goto, Set, array, locals, ghosts
<1>1. ASSUME NEW t \in Worker, StoreAdd(t) PROVE MapInv'
  BY <1>1 DEF StoreAdd
<1>2. ASSUME NEW t \in Worker, MapNext(t) PROVE MapInv'
  BY <1>2 DEF MapNext
<1>3. ASSUME NEW t \in Worker, SetElement(t) PROVE MapInv'
  BY <1>3 DEF SetElement
<1>4. ASSUME NEW t \in Worker, Grow(t) PROVE MapInv'
  <2>1. CASE array_program = "map"
    <3>1. pc[t] = "grow" /\ alloc_size = MaxSize /\ idx[t] < MaxSize /\ idx[t] \in Nat
      BY <1>4, <2>1 DEF Grow
    <3>2. ~(idx[t] + 1 > alloc_size)
      BY <3>1 DEF ArraysAreUsed
    <3> QED
      BY <1>4, <2>1, <3>2 DEF Grow
  <2>2. CASE array_program # "map"
    BY <1>4, <2>2 DEF Grow
  <2> QED
    BY <2>1, <2>2
<1>5. ASSUME NEW t \in Worker, CopyData(t) PROVE MapInv'
  BY <1>5 DEF CopyData
<1>6. ASSUME NEW t \in Worker, Publish(t) PROVE MapInv'
  BY <1>6 DEF Publish
<1>7. ASSUME NEW t \in Worker, PublishAllocSize(t) PROVE MapInv'
  BY <1>7 DEF PublishAllocSize
<1>8. ASSUME NEW t \in Worker, FillStart(t) PROVE MapInv'
  BY <1>8 DEF FillStart
<1>9. ASSUME NEW t \in Worker, FillNil(t) PROVE MapInv'
  BY <1>9 DEF FillNil
<1>10. ASSUME NEW t \in Worker, SetSize(t) PROVE MapInv'
  BY <1>10 DEF SetSize
<1>11. ASSUME NEW t \in Worker, Write(t) PROVE MapInv'
  BY <1>11 DEF Write
<1>12. ASSUME NEW t \in Worker, NEW g \in given, StoreGet(t, g) PROVE MapInv'
  BY <1>12 DEF StoreGet
<1>13. ASSUME NEW t \in Worker, GetData(t) PROVE MapInv'
  BY <1>13 DEF GetData
<1>14. ASSUME NEW t \in Worker, ReadElement(t) PROVE MapInv'
  BY <1>14 DEF ReadElement
<1>15. CASE UNCHANGED array_vars
  BY <1>15 DEF array_vars
<1> QED
  BY <1>1, <1>2, <1>3, <1>4, <1>5, <1>6, <1>7, <1>8, <1>9, <1>10, <1>11, <1>12, <1>13, <1>14, <1>15 DEF ArraysNext
\* A reader whose words stay reads on.
LEMMA ReaderStays ==
  ASSUME NEW u \in Worker, ReaderReads(u),
         pc'[u] = pc[u], idx'[u] = idx[u], val'[u] = val[u], bound'[u] = bound[u],
         new_data'[u] = new_data[u], given \subseteq given',
         pc[u] = "read" => LET e == new_data[u] IN
           /\ e \in DOMAIN blobs' /\ Len(blobs'[e]) = Len(blobs[e])
           /\ blobs'[e][idx[u] + 1] = blobs[e][idx[u] + 1]
  PROVE  ReaderReads(u)'
  BY DEF ReaderReads, Reading

\* Steps of the thread that adds.
LEMMA AdderNext ==
  ASSUME ArraysAreUsed, ArrayInv, array_program = "store", Adder \in Worker,
         \/ StoreAdd(Adder) \/ SetElement(Adder) \/ Grow(Adder) \/ CopyData(Adder)
         \/ Publish(Adder) \/ PublishAllocSize(Adder) \/ FillStart(Adder)
         \/ FillNil(Adder) \/ SetSize(Adder) \/ Write(Adder)
  PROVE  StoreInv'
<1> DEFINE t == Adder
           Others == \A u \in Worker \ {t} :
             /\ pc'[u] = pc[u] /\ idx'[u] = idx[u] /\ val'[u] = val[u]
             /\ bound'[u] = bound[u] /\ new_data'[u] = new_data[u]
<1>a. /\ AdderAdds(t) /\ GivenIsThere /\ \A u \in Worker \ {t} : ReaderReads(u)
  BY DEF ArrayInv, StoreInv
<1>b. /\ Len(blobs) \in Nat /\ data \in 1 .. Len(blobs) /\ DOMAIN blobs = 1 .. Len(blobs)
      /\ size \in Nat /\ alloc_size \in Nat /\ Len(blobs[data]) \in Nat
      /\ size <= alloc_size /\ alloc_size <= Len(blobs[data])
      /\ \A e \in 1 .. Len(blobs) : DOMAIN blobs[e] = 1 .. Len(blobs[e]) /\ Len(blobs[e]) \in Nat
  BY DEF ArrayInv, ArrayTypes, Blobs, SizesFit
<1>c. /\ pc \in [Worker -> Adding \cup Reading \cup {"idle", "write"}]
      /\ idx \in [Worker -> Nat] /\ val \in [Worker -> Words]
      /\ new_data \in [Worker -> 0 .. Len(blobs)]
      /\ bound \in [Worker -> Nat] /\ i \in [Worker -> Nat]
      /\ given \subseteq Nat \X Words
  BY DEF ArrayInv, ArrayTypes
<1>d. \A g \in given : g[1] \in Nat /\ g[1] < size /\ blobs[data][g[1] + 1] = g[2]
  BY <1>a, <1>c DEF GivenIsThere
<1>e. \A u \in Worker \ {t} : pc[u] = "read" =>
        /\ new_data[u] \in 1 .. Len(blobs) /\ idx[u] < Len(blobs[new_data[u]]) /\ idx[u] < size
        /\ \E g \in given : g[1] = idx[u]
  <2> SUFFICES ASSUME NEW u \in Worker \ {t}, pc[u] = "read"
               PROVE  /\ new_data[u] \in 1 .. Len(blobs) /\ idx[u] < Len(blobs[new_data[u]])
                      /\ idx[u] < size /\ \E g \in given : g[1] = idx[u]
    OBVIOUS
  <2>1. <<idx[u], val[u]>> \in given /\ new_data[u] \in 1 .. Len(blobs)
        /\ idx[u] < Len(blobs[new_data[u]])
    BY <1>a, <1>b DEF ReaderReads, Reading
  <2> QED
    BY <1>d, <2>1
<1>f. Others
  BY <1>c DEF StoreAdd, SetElement, Grow, CopyData, Publish, PublishAllocSize, FillStart, FillNil,
       SetSize, Write, Goto, Set, locals
<1>g. ASSUME GivenIsThere', AdderAdds(t)', given \subseteq given',
             \A u \in Worker \ {t} : pc[u] = "read" => LET e == new_data[u] IN
               /\ e \in DOMAIN blobs' /\ Len(blobs'[e]) = Len(blobs[e])
               /\ blobs'[e][idx[u] + 1] = blobs[e][idx[u] + 1]
      PROVE  StoreInv'
  <2>1. \A u \in Worker \ {t} : ReaderReads(u)'
    BY <1>a, <1>f, <1>g, ReaderStays
  <2> QED
    BY <1>g, <2>1 DEF StoreInv
<1>h. ASSUME UNCHANGED <<size, data, given>>, blobs' = blobs PROVE GivenIsThere'
  BY <1>a, <1>h DEF GivenIsThere
<1>i. blobs' = blobs => \A u \in Worker \ {t} : pc[u] = "read" => LET e == new_data[u] IN
               /\ e \in DOMAIN blobs' /\ Len(blobs'[e]) = Len(blobs[e])
               /\ blobs'[e][idx[u] + 1] = blobs[e][idx[u] + 1]
  BY <1>b, <1>e
<1>1. CASE StoreAdd(t)
  <2>1. UNCHANGED <<size, alloc_size, data, blobs, given>> /\ pc'[t] = "set" /\ idx'[t] = size
    BY <1>1, <1>c DEF StoreAdd, array, Goto, Set
  <2>2. AdderAdds(t)'
    BY <2>1 DEF AdderAdds, Adding, Growing
  <2> QED
    BY <1>g, <1>h, <1>i, <2>1, <2>2
<1>2. CASE SetElement(t)
  <2>1. UNCHANGED <<size, alloc_size, data, blobs, given, idx>> /\ pc[t] = "set"
        /\ pc'[t] = (IF idx[t] >= size THEN "grow" ELSE "write")
    BY <1>2, <1>c DEF SetElement, array, locals, ghosts, Goto, Set, At
  <2>2. idx[t] = size
    BY <1>a, <2>1 DEF AdderAdds, Adding
  <2>3. pc'[t] = "grow"
    BY <1>b, <2>1, <2>2
  <2>4. AdderAdds(t)'
    BY <2>1, <2>2, <2>3 DEF AdderAdds, Adding, Growing
  <2> QED
    BY <1>g, <1>h, <1>i, <2>1, <2>4
<1>3. CASE Grow(t)
  <2>0. pc[t] = "grow" /\ UNCHANGED <<size, alloc_size, data, idx, given>>
    BY <1>3 DEF Grow, At, ghosts
  <2>1. idx[t] = size
    BY <1>a, <2>0 DEF AdderAdds, Adding
  <2>2. CASE idx[t] + 1 > alloc_size
    <3>1. /\ Len(blobs') = Len(blobs) + 1 /\ Len(blobs'[Len(blobs) + 1]) = idx[t] + 1
          /\ \A o \in 1 .. Len(blobs) : blobs'[o] = blobs[o]
          /\ blobs' \in Blobs
      BY <1>3, <2>2, GrowEffect
    <3>2. pc'[t] = "copy" /\ new_data'[t] = Len(blobs) + 1
      BY <1>3, <1>c, <2>2 DEF Grow, Goto, Set
    <3>3. DOMAIN blobs' = 1 .. Len(blobs) + 1
      BY <3>1 DEF Blobs
    <3>4. AdderAdds(t)'
      <4>1. new_data'[t] \in DOMAIN blobs' \ {data'}
        BY <1>b, <2>0, <3>2, <3>3
      <4>2. Len(blobs'[new_data'[t]]) = idx'[t] + 1 /\ alloc_size' < idx'[t] + 1
        BY <1>b, <2>0, <2>1, <2>2, <3>1, <3>2
      <4>3. \A u \in Worker \ {t} : pc'[u] = "read" => new_data'[u] # new_data'[t]
        BY <1>b, <1>e, <1>f, <3>2
      <4> QED
        BY <2>0, <2>1, <3>2, <4>1, <4>2, <4>3 DEF AdderAdds, Adding, Growing
    <3>5. GivenIsThere'
      BY <1>b, <1>d, <2>0, <3>1 DEF GivenIsThere
    <3> QED
      BY <1>b, <1>e, <1>g, <2>0, <3>1, <3>3, <3>4, <3>5
  <2>3. CASE ~(idx[t] + 1 > alloc_size)
    <3>1. pc'[t] = "fill" /\ blobs' = blobs
      BY <1>3, <1>c, <2>3 DEF Grow, Goto, Set
    <3>2. AdderAdds(t)'
      BY <1>b, <2>0, <2>1, <2>3, <3>1 DEF AdderAdds, Adding, Growing
    <3> QED
      BY <1>g, <1>h, <1>i, <2>0, <3>1, <3>2
  <2> QED
    BY <2>2, <2>3
<1>4. CASE CopyData(t)
  <2>1. /\ new_data[t] \in 1 .. Len(blobs) /\ new_data[t] # data
        /\ blobs' \in Blobs /\ Len(blobs') = Len(blobs)
        /\ Len(blobs'[new_data[t]]) = Len(blobs[new_data[t]])
        /\ \A o \in 1 .. Len(blobs) : o # new_data[t] => blobs'[o] = blobs[o]
        /\ \A k \in 1 .. size : blobs'[new_data[t]][k] = blobs[data][k]
    BY <1>4, CopyEffect
  <2>2. /\ UNCHANGED <<size, alloc_size, data, idx, new_data, given>>
        /\ pc[t] = "copy" /\ pc'[t] = "publish"
    BY <1>4, <1>c DEF CopyData, At, Goto, Set, locals, ghosts
  <2>3. /\ idx[t] = size /\ Len(blobs[new_data[t]]) = idx[t] + 1 /\ alloc_size < idx[t] + 1
        /\ \A u \in Worker \ {t} : pc[u] = "read" => new_data[u] # new_data[t]
    BY <1>a, <2>2 DEF AdderAdds, Adding, Growing
  <2>4. DOMAIN blobs' = 1 .. Len(blobs)
    BY <2>1 DEF Blobs
  <2>5. blobs'[data] = blobs[data]
    BY <1>b, <2>1
  <2>6. AdderAdds(t)'
    BY <1>f, <2>1, <2>2, <2>3, <2>4, <2>5 DEF AdderAdds, Adding, Growing
  <2>7. GivenIsThere'
    BY <1>d, <2>2, <2>5 DEF GivenIsThere
  <2> QED
    BY <1>e, <1>g, <2>1, <2>2, <2>3, <2>4, <2>6, <2>7
<1>5. CASE Publish(t)
  <2>1. /\ UNCHANGED <<size, alloc_size, blobs, idx, given>> /\ data' = new_data[t]
        /\ pc[t] = "publish" /\ pc'[t] = "publish_alloc_size"
    BY <1>5, <1>c DEF Publish, At, Goto, Set, locals, ghosts
  <2>2. /\ idx[t] = size /\ Len(blobs[new_data[t]]) = idx[t] + 1 /\ alloc_size < idx[t] + 1
        /\ \A k \in 1 .. size : blobs[new_data[t]][k] = blobs[data][k]
    BY <1>a, <2>1 DEF AdderAdds, Adding, Growing
  <2>3. AdderAdds(t)'
    BY <2>1, <2>2 DEF AdderAdds, Adding, Growing
  <2>4. GivenIsThere'
    <3> SUFFICES ASSUME NEW g \in given
                 PROVE  g[1] < size /\ blobs[new_data[t]][g[1] + 1] = g[2]
      BY <2>1 DEF GivenIsThere
    <3>1. g[1] \in Nat /\ g[1] < size /\ blobs[data][g[1] + 1] = g[2]
      BY <1>d
    <3>2. g[1] + 1 \in 1 .. size
      BY <1>b, <3>1
    <3> QED
      BY <2>2, <3>1, <3>2
  <2> QED
    BY <1>g, <1>i, <2>1, <2>3, <2>4
<1>6. CASE PublishAllocSize(t)
  <2>1. /\ UNCHANGED <<size, data, blobs, idx, given>> /\ alloc_size' = idx[t] + 1
        /\ pc[t] = "publish_alloc_size" /\ pc'[t] = "fill"
    BY <1>6, <1>c DEF PublishAllocSize, At, Goto, Set, locals, ghosts
  <2>2. idx[t] = size
    BY <1>a, <2>1 DEF AdderAdds, Adding
  <2>3. AdderAdds(t)'
    BY <1>b, <2>1, <2>2 DEF AdderAdds, Adding, Growing
  <2> QED
    BY <1>g, <1>h, <1>i, <2>1, <2>3
<1>7. CASE FillStart(t)
  <2>1. /\ UNCHANGED <<size, alloc_size, data, blobs, idx, given>> /\ i'[t] = size
        /\ pc[t] = "fill" /\ pc'[t] = (IF idx[t] + 1 > size THEN "filling" ELSE "write")
    BY <1>7, <1>c DEF FillStart, At, Goto, Set, array, ghosts
  <2>2. idx[t] = size /\ idx[t] + 1 <= alloc_size
    BY <1>a, <2>1 DEF AdderAdds, Adding
  <2>3. pc'[t] = "filling"
    BY <1>b, <2>1, <2>2
  <2>4. i'[t] \in size .. size + 1
    BY <1>b, <2>1
  <2>5. AdderAdds(t)'
    BY <2>1, <2>2, <2>3, <2>4 DEF AdderAdds, Adding, Growing
  <2> QED
    BY <1>g, <1>h, <1>i, <2>1, <2>5
<1>8. CASE FillNil(t)
  <2>1. /\ UNCHANGED <<size, alloc_size, data, idx, pc, given>> /\ i'[t] = i[t] + 1
        /\ pc[t] = "filling" /\ i[t] < idx[t] + 1
    BY <1>8, <1>c DEF FillNil, At, Goto, Set, ghosts
  <2>2. idx[t] = size /\ idx[t] + 1 <= alloc_size /\ i[t] \in size .. size + 1
    BY <1>a, <2>1 DEF AdderAdds, Adding
  <2>3. i[t] = size /\ i'[t] \in size .. size + 1
    BY <1>b, <2>1, <2>2
  <2>4. /\ blobs' \in Blobs /\ Len(blobs') = Len(blobs)
        /\ \A e \in 1 .. Len(blobs) :
             /\ Len(blobs'[e]) = Len(blobs[e])
             /\ \A n \in 1 .. Len(blobs[e]) :
                  blobs'[e][n] = IF e = data /\ n = i[t] + 1 THEN Nil ELSE blobs[e][n]
    BY <1>8, FillEffect
  <2>5. DOMAIN blobs' = 1 .. Len(blobs)
    BY <2>4 DEF Blobs
  <2>6. \A e \in 1 .. Len(blobs) : \A n \in Nat :
          n < size /\ n < Len(blobs[e]) => blobs'[e][n + 1] = blobs[e][n + 1]
    <3> SUFFICES ASSUME NEW e \in 1 .. Len(blobs), NEW n \in Nat, n < size, n < Len(blobs[e])
                 PROVE  blobs'[e][n + 1] = blobs[e][n + 1]
      OBVIOUS
    <3>1. n + 1 \in 1 .. Len(blobs[e]) /\ n + 1 # i[t] + 1
      BY <1>b, <2>3
    <3> QED
      BY <2>4, <3>1
  <2>7. AdderAdds(t)'
    BY <2>1, <2>2, <2>3 DEF AdderAdds, Adding, Growing
  <2>8. GivenIsThere'
    <3>1. \A g \in given : blobs'[data][g[1] + 1] = blobs[data][g[1] + 1]
      <4> SUFFICES ASSUME NEW g \in given
                   PROVE  blobs'[data][g[1] + 1] = blobs[data][g[1] + 1]
        OBVIOUS
      <4>1. g[1] \in Nat /\ g[1] < size /\ g[1] < Len(blobs[data])
        BY <1>b, <1>d
      <4> QED
        BY <1>b, <2>6, <4>1
    <3> QED
      BY <1>d, <2>1, <3>1 DEF GivenIsThere
  <2>9. \A u \in Worker \ {t} : pc[u] = "read" => LET e == new_data[u] IN
               /\ e \in DOMAIN blobs' /\ Len(blobs'[e]) = Len(blobs[e])
               /\ blobs'[e][idx[u] + 1] = blobs[e][idx[u] + 1]
    BY <1>c, <1>e, <2>4, <2>5, <2>6
  <2> QED
    BY <1>g, <2>1, <2>7, <2>8, <2>9
<1>9. CASE SetSize(t)
  <2>1. /\ UNCHANGED <<alloc_size, data, blobs, idx, given>> /\ size' = idx[t] + 1
        /\ pc[t] = "filling" /\ pc'[t] = "write"
    BY <1>9, <1>c DEF SetSize, At, Goto, Set, locals, ghosts
  <2>2. idx[t] = size
    BY <1>a, <2>1 DEF AdderAdds, Adding
  <2>3. AdderAdds(t)'
    BY <1>d, <2>1, <2>2 DEF AdderAdds, Adding, Growing
  <2>4. GivenIsThere'
    <3> SUFFICES ASSUME NEW g \in given
                 PROVE  g[1] < idx[t] + 1 /\ blobs[data][g[1] + 1] = g[2]
      BY <2>1 DEF GivenIsThere
    <3> QED
      BY <1>b, <1>d, <2>2
  <2> QED
    BY <1>g, <1>i, <2>1, <2>3, <2>4
<1>10. CASE Write(t)
  <2>1. /\ UNCHANGED <<size, alloc_size, data, idx>> /\ given' = given \cup {<<idx[t], val[t]>>}
        /\ pc[t] = "write" /\ pc'[t] = "idle"
    BY <1>10, <1>c DEF Write, At, Goto, Set, locals
  <2>2. size = idx[t] + 1 /\ \A g \in given : g[1] < idx[t]
    BY <1>a, <2>1 DEF AdderAdds
  <2>3. /\ blobs' \in Blobs /\ Len(blobs') = Len(blobs)
        /\ \A e \in 1 .. Len(blobs) :
             /\ Len(blobs'[e]) = Len(blobs[e])
             /\ \A n \in 1 .. Len(blobs[e]) :
                  blobs'[e][n] = IF e = data /\ n = idx[t] + 1 THEN val[t] ELSE blobs[e][n]
    BY <1>10, WriteEffect
  <2>4. DOMAIN blobs' = 1 .. Len(blobs)
    BY <2>3 DEF Blobs
  <2>a. idx[t] \in Nat
    BY <1>c
  <2>5. \A e \in 1 .. Len(blobs) : \A n \in Nat :
          n < idx[t] /\ n < Len(blobs[e]) => blobs'[e][n + 1] = blobs[e][n + 1]
    <3> SUFFICES ASSUME NEW e \in 1 .. Len(blobs), NEW n \in Nat, n < idx[t], n < Len(blobs[e])
                 PROVE  blobs'[e][n + 1] = blobs[e][n + 1]
      OBVIOUS
    <3>1. n + 1 \in 1 .. Len(blobs[e]) /\ n + 1 # idx[t] + 1
      BY <1>b, <2>a
    <3> QED
      BY <2>3, <3>1
  <2>6. blobs'[data][idx[t] + 1] = val[t]
    <3>1. idx[t] + 1 \in 1 .. Len(blobs[data])
      BY <1>b, <2>a, <2>2
    <3> QED
      BY <1>b, <2>3, <3>1
  <2>7. AdderAdds(t)'
    BY <2>1 DEF AdderAdds, Adding, Growing
  <2>8. GivenIsThere'
    <3> SUFFICES ASSUME NEW g \in given' PROVE g[1] < size /\ blobs'[data][g[1] + 1] = g[2]
      BY <2>1 DEF GivenIsThere
    <3>1. CASE g \in given
      <4>1. g[1] \in Nat /\ g[1] < idx[t] /\ g[1] < size /\ g[1] < Len(blobs[data])
        BY <1>b, <1>d, <2>2, <3>1
      <4> QED
        BY <1>b, <1>d, <2>5, <3>1, <4>1
    <3>2. CASE g = <<idx[t], val[t]>>
      BY <1>c, <2>2, <2>6, <3>2
    <3> QED
      BY <2>1, <3>1, <3>2
  <2>9. \A u \in Worker \ {t} : pc[u] = "read" => LET e == new_data[u] IN
               /\ e \in DOMAIN blobs' /\ Len(blobs'[e]) = Len(blobs[e])
               /\ blobs'[e][idx[u] + 1] = blobs[e][idx[u] + 1]
    BY <1>c, <1>e, <2>2, <2>3, <2>4, <2>5
  <2> QED
    BY <1>g, <2>1, <2>7, <2>8, <2>9
<1> QED
  BY <1>1, <1>2, <1>3, <1>4, <1>5, <1>6, <1>7, <1>8, <1>9, <1>10
\* Steps of those that get.
LEMMA ReaderNext ==
  ASSUME ArraysAreUsed, ArrayInv, array_program = "store", NEW t \in Worker, t # Adder,
         \/ \E g \in given : StoreGet(t, g)
         \/ GetData(t) \/ ReadElement(t)
  PROVE  StoreInv'
<1>a. /\ GivenIsThere /\ \A u \in Worker : IF u = Adder THEN AdderAdds(u) ELSE ReaderReads(u)
  BY DEF ArrayInv, StoreInv
<1>b. /\ Len(blobs) \in Nat /\ data \in 1 .. Len(blobs) /\ DOMAIN blobs = 1 .. Len(blobs)
      /\ size \in Nat /\ alloc_size \in Nat /\ Len(blobs[data]) \in Nat
      /\ size <= alloc_size /\ alloc_size <= Len(blobs[data])
  BY DEF ArrayInv, ArrayTypes, Blobs, SizesFit
<1>c. /\ pc \in [Worker -> Adding \cup Reading \cup {"idle", "write"}]
      /\ idx \in [Worker -> Nat] /\ val \in [Worker -> Words]
      /\ new_data \in [Worker -> 0 .. Len(blobs)]
      /\ bound \in [Worker -> Nat] /\ i \in [Worker -> Nat]
      /\ given \subseteq Nat \X Words
  BY DEF ArrayInv, ArrayTypes
<1>d. \A g \in given : g[1] \in Nat /\ g[1] < size /\ blobs[data][g[1] + 1] = g[2]
                       /\ g = <<g[1], g[2]>>
  BY <1>a, <1>c DEF GivenIsThere
<1>e. /\ UNCHANGED <<size, alloc_size, data, given>> /\ blobs' = blobs /\ i' = i
      /\ \A u \in Worker \ {t} :
           /\ pc'[u] = pc[u] /\ idx'[u] = idx[u] /\ val'[u] = val[u]
           /\ bound'[u] = bound[u] /\ new_data'[u] = new_data[u]
  BY <1>c DEF StoreGet, GetData, ReadElement, Goto, Set, array, ghosts
<1>f. GivenIsThere'
  BY <1>a, <1>e DEF GivenIsThere
<1>g. \A u \in Worker \ {t, Adder} : ReaderReads(u)'
  BY <1>a, <1>e, ReaderStays DEF ReaderReads
<1>h. ASSUME ReaderReads(t)', pc'[t] = "read" => new_data'[t] = data PROVE StoreInv'
  <2>1. ASSUME Adder \in Worker PROVE AdderAdds(Adder)'
    <3>1. AdderAdds(Adder)
      BY <1>a, <2>1
    <3>2. /\ pc'[Adder] = pc[Adder] /\ idx'[Adder] = idx[Adder] /\ new_data'[Adder] = new_data[Adder]
          /\ i'[Adder] = i[Adder]
      BY <1>e, <2>1
    <3>3. pc[Adder] \in Growing => \A u \in Worker \ {Adder} :
            pc'[u] = "read" => new_data'[u] # new_data[Adder]
      BY <1>e, <1>h, <3>1 DEF AdderAdds
    <3> QED
      BY <1>e, <3>1, <3>2, <3>3 DEF AdderAdds
  <2> QED
    BY <1>f, <1>g, <1>h, <2>1 DEF StoreInv
<1>1. ASSUME NEW g \in given, StoreGet(t, g) PROVE StoreInv'
  <2>1. pc'[t] = "get" /\ idx'[t] = g[1] /\ val'[t] = g[2] /\ bound'[t] = size
    BY <1>1, <1>c DEF StoreGet, Goto, Set
  <2>2. <<idx'[t], val'[t]>> \in given'
    BY <1>d, <1>e, <2>1, Zenon
  <2>3. idx'[t] < bound'[t]
    BY <1>d, <2>1
  <2>4. ReaderReads(t)'
    BY <2>1, <2>2, <2>3 DEF ReaderReads, Reading
  <2> QED
    BY <1>h, <2>1, <2>4
<1>2. CASE GetData(t)
  <2>1. pc[t] = "get" /\ ~(idx[t] >= bound[t])
    BY <1>2, ReadsFit DEF GetData, At, Reading
  <2>2. pc'[t] = "read" /\ new_data'[t] = data /\ UNCHANGED <<idx, val, bound>>
    BY <1>2, <1>c, <2>1 DEF GetData, Goto, Set
  <2>3. <<idx[t], val[t]>> \in given
    BY <1>a, <2>1 DEF ReaderReads, Reading
  <2>4. idx[t] < size /\ blobs[data][idx[t] + 1] = val[t] /\ idx[t] \in Nat
    <3> DEFINE g == <<idx[t], val[t]>>
    <3>1. g \in given /\ g[1] = idx[t] /\ g[2] = val[t]
      BY <2>3
    <3> HIDE DEF g
    <3> QED
      BY <1>d, <3>1
  <2>5. idx[t] < Len(blobs[data])
    BY <1>b, <2>4
  <2>6. ReaderReads(t)'
    BY <1>b, <1>e, <2>2, <2>3, <2>4, <2>5 DEF ReaderReads, Reading
  <2>7. new_data'[t] = data
    BY <2>2
  <2> QED
    BY <1>h, <2>6, <2>7
<1>3. CASE ReadElement(t)
  <2>1. pc[t] = "read" /\ blobs[new_data[t]][idx[t] + 1] = val[t]
    BY <1>3, ReadsFit DEF ReadElement, At, Reading
  <2>2. pc'[t] = "idle"
    BY <1>3, <1>c, <2>1 DEF ReadElement, Goto
  <2>3. ReaderReads(t)'
    BY <2>2 DEF ReaderReads, Reading
  <2> QED
    BY <1>h, <2>2, <2>3
<1> QED
  BY <1>1, <1>2, <1>3

LEMMA StoreInvNext == ASSUME ArraysAreUsed, ArrayInv, [ArraysNext]_array_vars PROVE StoreInv'
<1>1. array_program' = array_program
  BY DEF ArraysNext, StoreAdd, MapNext, SetElement, Grow, CopyData, Publish, PublishAllocSize, FillStart,
     FillNil, SetSize, Write, StoreGet, GetData, ReadElement, ghosts, array_vars
<1>2. CASE array_program # "store"
  BY <1>1, <1>2 DEF StoreInv
<1>3. CASE UNCHANGED array_vars
  BY <1>3 DEF ArrayInv, StoreInv, GivenIsThere, AdderAdds, ReaderReads, array_vars
<1>4. CASE array_program = "store" /\ ArraysNext
  <2>1. PICK t \in Worker :
          \/ StoreAdd(t) \/ MapNext(t) \/ SetElement(t) \/ Grow(t) \/ CopyData(t) \/ Publish(t)
          \/ PublishAllocSize(t) \/ FillStart(t) \/ FillNil(t) \/ SetSize(t) \/ Write(t)
          \/ (\E g \in given : StoreGet(t, g)) \/ GetData(t) \/ ReadElement(t)
    BY <1>4 DEF ArraysNext
  <2>2. ~MapNext(t)
    BY <1>4 DEF MapNext
  <2>3. ASSUME SetElement(t) \/ Grow(t) \/ CopyData(t) \/ Publish(t) \/ PublishAllocSize(t)
               \/ FillStart(t) \/ FillNil(t) \/ SetSize(t) \/ Write(t) \/ StoreAdd(t)
        PROVE  StoreInv'
    <3>1. t = Adder
      <4>1. StoreAdd(t) \/ pc[t] \in Adding \cup {"write"}
        BY <2>3 DEF SetElement, Grow, CopyData, Publish, PublishAllocSize, FillStart, FillNil,
           SetSize, Write, At, Adding
      <4> QED
        BY <1>4, <4>1, WritesFit DEF StoreAdd
    <3> QED
      BY <1>4, <2>3, <3>1, AdderNext
  <2>4. ASSUME (\E g \in given : StoreGet(t, g)) \/ GetData(t) \/ ReadElement(t)
        PROVE  StoreInv'
    <3>1. t # Adder
      BY <2>4, ReadsFit DEF StoreGet, GetData, ReadElement, At, Reading
    <3> QED
      BY <1>4, <2>4, <3>1, ReaderNext
  <2> QED
    BY <2>1, <2>2, <2>3, <2>4
<1> QED
  BY <1>2, <1>3, <1>4

-----------------------------------------------------------------------------
(***************************************************************************)
(* The theorems                                                            *)
(***************************************************************************)
LEMMA ArrayAlways == ASSUME ArraysAreUsed PROVE ArraysSpec => []ArrayInv
<1>1. ArraysInit => ArrayInv
  BY ArrayInit
<1>2. ArrayInv /\ [ArraysNext]_array_vars => ArrayInv'
  BY ArrayTypesNext, SizesNext, StoreInvNext, MapInvNext DEF ArrayInv
<1> QED
  BY <1>1, <1>2, PTL DEF ArraysSpec

\* Without a lock, no thread reads or writes beyond the blob it has in hand, and
\* the size promises no more than the data holds, with one thread that adds and
\* any number that get, and in map_parallel (array-intern.h:29-69).
THEOREM ArraysStayInBounds == ASSUME ArraysAreUsed PROVE ArraysSpec => []InBounds
<1>1. ArrayInv => InBounds
  <2> SUFFICES ASSUME ArrayInv PROVE InBounds
    OBVIOUS
  <2>1. size <= Len(blobs[data])
    BY DEF ArrayInv, ArrayTypes, SizesFit, Blobs
  <2>2. ASSUME NEW t \in Worker PROVE At(t, "filling") /\ i[t] <= idx[t] => i[t] < Len(blobs[data])
    <3>1. i[t] \in Nat /\ idx[t] \in Nat
      BY DEF ArrayInv, ArrayTypes
    <3>2. At(t, "filling") /\ i[t] < idx[t] + 1 => i[t] + 1 \in 1 .. Len(blobs[data])
      BY WritesFit
    <3>3. Len(blobs[data]) \in Nat
      BY WritesFit
    <3> QED
      BY <3>1, <3>2, <3>3
  <2>3. ASSUME NEW t \in Worker PROVE At(t, "write") => idx[t] < Len(blobs[data])
    BY WritesFit DEF ArrayInv, ArrayTypes
  <2>4. ASSUME NEW t \in Worker PROVE At(t, "read") => idx[t] < Len(blobs[new_data[t]])
    BY ReadsFit DEF ReaderReads, At, Reading
  <2> QED
    BY <2>1, <2>2, <2>3, <2>4 DEF InBounds
<1> QED
  BY <1>1, ArrayAlways, PTL

\* A key that snow_store_add returned gets its value, in whichever blob a thread
\* looks while another one grows the store (snow.c:608-622).
THEOREM StoreKeepsItsPromise == ASSUME ArraysAreUsed PROVE ArraysSpec => []StoreGetsWhatWasAdded
<1>1. ArrayInv => StoreGetsWhatWasAdded
  BY DEF ArrayInv, ArrayTypes, Adding, Reading, StoreGetsWhatWasAdded
<1> QED
  BY <1>1, ArrayAlways, PTL

-----------------------------------------------------------------------------
(***************************************************************************)
(* The methods that walk an array: ArrayMethods, with other names for the  *)
(* array and the index that its method is at.                              *)
(***************************************************************************)
CONSTANTS Element, Truthy, Garbage, Methods, Initial, MaxChanges, MaxAlloc

VARIABLES method, walked, position, len, new_array, carry, place, got, before, answers, changes

INSTANCE ArrayMethods WITH Value <- Element, array <- walked, i <- position

Elem == Element \cup {Nil}
IsArray(a) == a \in [data : Seq(Elem \cup {Garbage}), size : Nat]

\* The first n words of an array were written.
Written(a, n) == n <= Len(a.data) /\ \A k \in 1 .. n : a.data[k] \in Elem

\* NULL, and a word that nobody wrote, are no elements; arrays start with elements.
ArraysAreWalked ==
  /\ Garbage \notin Elem /\ Null \notin Elem
  /\ MaxAlloc \in Nat
  /\ Methods \subseteq {"each", "map", "select", "reject", "inject", "detect"}
  /\ \A a \in Initial : IsArray(a) /\ Written(a, a.size)

\* What a method may ask for is written: also beyond the size, for inject, which
\* does not look at the size again.
WalkInv ==
  /\ method \in Methods
  /\ IsArray(walked) /\ Written(walked, walked.size)
  /\ IsArray(new_array) /\ Written(new_array, new_array.size)
  /\ position \in Nat /\ len \in Nat /\ changes \in Nat
  /\ place \in {"loop", "closure", "done"}
  /\ got \in Elem
  /\ place = "closure" => Written(walked, position + 1)
  /\ method = "inject" => Written(walked, len)

\* Growth writes what it adds, and keeps what was written.
LEMMA GrowWrites ==
  ASSUME NEW a, IsArray(a), Written(a, a.size), NEW n \in Nat, NEW m \in Nat, Written(a, m)
  PROVE  LET g == Grown(a, n)
         IN /\ IsArray(g) /\ Written(g, g.size) /\ Written(g, m)
            /\ g.size = IF n <= a.size THEN a.size ELSE n
            /\ \A k \in 1 .. a.size : g.data[k] = a.data[k]
<1>1. a.size \in Nat /\ Len(a.data) \in Nat /\ a.data \in Seq(Elem \cup {Garbage})
  BY DEF IsArray
<1>2. CASE n <= a.size
  BY <1>2, <1>1 DEF Grown
<1>3. CASE n > a.size
  <2> DEFINE larger == n > Len(a.data)
             words == IF larger THEN n ELSE Len(a.data)
             fresh == [k \in 1 .. words |->
                       CASE k <= a.size -> a.data[k]
                         [] k > a.size /\ k <= n -> Nil
                         [] OTHER -> IF larger THEN Garbage ELSE a.data[k]]
  <2>1. Grown(a, n) = [data |-> fresh, size |-> n]
    BY <1>3, <1>1 DEF Grown
  <2>2. words \in Nat /\ n <= words /\ a.size <= words /\ Len(a.data) <= words
    BY <1>1, <1>3
  <2>3. ASSUME NEW k \in 1 .. words PROVE fresh[k] \in Elem \cup {Garbage}
    <3>1. k \in Nat /\ k >= 1 /\ words = IF larger THEN n ELSE Len(a.data)
      BY <2>2
    <3>2. k <= Len(a.data) => a.data[k] \in Elem \cup {Garbage}
      BY <1>1, <3>1
    <3>3. Nil \in Elem
      BY DEF Elem
    <3>4. k <= a.size => k <= Len(a.data)
      BY <1>1, <3>1 DEF Written
    <3>5. k > n /\ ~larger => k <= Len(a.data)
      BY <3>1
    <3>6. CASE k <= a.size
      BY <1>1, <3>1, <3>2, <3>4, <3>6
    <3>7. CASE ~(k <= a.size) /\ k > a.size /\ k <= n
      BY <3>3, <3>7
    <3>8. CASE ~(k <= a.size) /\ ~(k <= n)
      BY <3>1, <3>2, <3>5, <3>8
    <3> QED  BY <3>6, <3>7, <3>8, <3>1, <1>1
  <2>4. fresh \in Seq(Elem \cup {Garbage}) /\ Len(fresh) = words
    <3> HIDE DEF words
    <3>1. fresh \in [1 .. words -> Elem \cup {Garbage}]
      BY <2>3
    <3> QED  BY <2>2, <3>1
  <2>5. \A k \in 1 .. a.size : fresh[k] = a.data[k]
    BY <2>2, <1>1
  <2>6. \A k \in 1 .. n : fresh[k] \in Elem
    BY <2>2, <1>1 DEF Elem, Written
  <2>7. \A k \in 1 .. m : fresh[k] \in Elem
    BY <2>2, <1>1 DEF Elem, Written
  <2>8. m <= words
    BY <2>2, <1>1 DEF Written
  <2> HIDE DEF fresh, words
  <2> QED  BY <2>1, <2>2, <2>4, <2>5, <2>6, <2>7, <2>8, <1>3 DEF IsArray, Written
<1> QED  BY <1>1, <1>2, <1>3

\* So does array_set, which puts the value in its place.
LEMMA SetWrites ==
  ASSUME NEW a, IsArray(a), Written(a, a.size), NEW x \in Int, NEW w \in Elem,
         Index(a, x) >= 0, NEW m \in Nat, Written(a, m)
  PROVE  LET s == SetAt(a, x, w)
         IN /\ IsArray(s) /\ Written(s, s.size) /\ Written(s, m)
            /\ s.size = IF x >= a.size THEN x + 1 ELSE a.size
            /\ s.data[Index(a, x) + 1] = w
            /\ \A k \in 1 .. a.size : k # Index(a, x) + 1 => s.data[k] = a.data[k]
<1> DEFINE at == Index(a, x) + 1
           g == IF x >= a.size THEN Grown(a, x + 1) ELSE a
           s == SetAt(a, x, w)
<1>1. a.size \in Nat /\ Len(a.data) \in Nat /\ a.data \in Seq(Elem \cup {Garbage})
  BY DEF IsArray
<1>2. at \in Nat \ {0}
  BY <1>1 DEF Index
<1>3. /\ IsArray(g) /\ Written(g, g.size) /\ Written(g, m)
      /\ g.size = IF x >= a.size THEN x + 1 ELSE a.size
      /\ \A k \in 1 .. a.size : g.data[k] = a.data[k]
  <2>1. CASE x >= a.size
    <3>1. x + 1 \in Nat /\ ~(x + 1 <= a.size)
      BY <2>1, <1>1
    <3> QED  BY <2>1, <3>1, GrowWrites, <1>1
  <2>2. CASE ~(x >= a.size)
    BY <2>2, <1>1
  <2> QED  BY <2>1, <2>2
<1>4. at \in 1 .. g.size
  BY <1>1, <1>2, <1>3 DEF Index
<1>5. s = [g EXCEPT !.data[at] = w]
  BY DEF SetAt
<1> HIDE DEF g, at, s
<1>6. g.data \in Seq(Elem \cup {Garbage}) /\ g.size \in Nat /\ g.size <= Len(g.data)
  BY <1>3 DEF IsArray, Written
<1>7. at \in 1 .. Len(g.data)
  BY <1>4, <1>6
<1>8. s = [data |-> [g.data EXCEPT ![at] = w], size |-> g.size]
  BY <1>5, <1>3 DEF IsArray
<1>9. [g.data EXCEPT ![at] = w] \in Seq(Elem \cup {Garbage}) /\ Len([g.data EXCEPT ![at] = w]) = Len(g.data)
  BY <1>6, <1>7
<1>10. \A k \in 1 .. Len(g.data) : s.data[k] = IF k = at THEN w ELSE g.data[k]
  BY <1>6, <1>7, <1>8
<1>11. IsArray(s) /\ Len(s.data) = Len(g.data) /\ s.size = g.size
  BY <1>8, <1>9, <1>6 DEF IsArray
<1>12. Written(s, s.size) /\ Written(s, m)
  <2>1. ASSUME NEW n \in Nat, Written(g, n) PROVE Written(s, n)
    <3>1. n <= Len(g.data) /\ \A k \in 1 .. n : k \in 1 .. Len(g.data)
      BY <2>1, <1>6 DEF Written
    <3> QED  BY <2>1, <3>1, <1>10, <1>11 DEF Written
  <2> QED  BY <2>1, <1>3, <1>6, <1>11
<1>13. s.data[at] = w /\ \A k \in 1 .. a.size : k # at => s.data[k] = a.data[k]
  <2>1. a.size <= Len(g.data)
    BY <1>3, <1>1, <1>6
  <2> QED  BY <2>1, <1>10, <1>7, <1>3, <1>1
<1> QED  BY <1>3, <1>11, <1>12, <1>13 DEF s, at

LEMMA PopWrites ==
  ASSUME NEW a, IsArray(a), Written(a, a.size), NEW m \in Nat, Written(a, m)
  PROVE  LET p == Popped(a) IN IsArray(p) /\ Written(p, p.size) /\ Written(p, m)
<1>1. a.size \in Nat /\ Len(a.data) \in Nat /\ a.data \in Seq(Elem \cup {Garbage})
  BY DEF IsArray
<1>2. CASE a.size = 0
  BY <1>2 DEF Popped
<1>3. CASE a.size # 0
  <2> DEFINE fresh == [a.data EXCEPT ![a.size] = Nil]
  <2>1. Popped(a) = [data |-> fresh, size |-> a.size - 1]
    BY <1>3 DEF Popped
  <2>2. fresh \in Seq(Elem \cup {Garbage}) /\ Len(fresh) = Len(a.data)
    <3>1. a.size \in 1 .. Len(a.data) /\ Nil \in Elem \cup {Garbage}
      BY <1>1, <1>3 DEF Elem, Written
    <3> QED  BY <1>1, <3>1
  <2>3. \A k \in 1 .. Len(a.data) : fresh[k] = IF k = a.size THEN Nil ELSE a.data[k]
    BY <1>1
  <2>4. a.size - 1 \in Nat
    BY <1>1, <1>3
  <2> HIDE DEF fresh
  <2> QED  BY <1>1, <2>1, <2>2, <2>3, <2>4 DEF IsArray, Written, Elem
<1> QED  BY <1>2, <1>3

\* The closures change the array.
LEMMA ChangeWrites ==
  ASSUME WalkInv, NEW changed, Change(changed),
         IsArray(changed), Written(changed, changed.size),
         Written(changed, position + 1), method = "inject" => Written(changed, len)
  PROVE  WalkInv'
BY DEF WalkInv, Change, Written

LEMMA WalkNext == ASSUME ArraysAreWalked, WalkInv, [MethodsNext]_method_vars PROVE WalkInv'
<1>1. CASE UNCHANGED method_vars
  BY <1>1 DEF WalkInv, method_vars
<1>2. CASE CallClosure
  <2>1. walked.size \in Nat /\ Len(walked.data) \in Nat /\ position \in Nat /\ len \in Nat
    BY DEF WalkInv, IsArray
  <2>2. Written(walked, position + 1)
    BY <1>2, <2>1 DEF WalkInv, CallClosure, Going, Written
  <2>3. got' \in Elem
    <3>1. position < Len(walked.data) /\ walked.data[position + 1] \in Elem
      BY <2>1, <2>2 DEF Written
    <3>2. Word(walked, position) \in Elem
      BY <3>1 DEF Word
    <3>3. method # "inject" => GetAt(walked, position) = Word(walked, position)
      BY <1>2, <2>1 DEF GetAt, Index, CallClosure, Going
    <3> QED  BY <3>2, <3>3, <1>2 DEF CallClosure
  <2> QED  BY <1>2, <2>2, <2>3 DEF WalkInv, CallClosure
<1>3. ASSUME NEW v \in Element, ClosurePushes(v) PROVE WalkInv'
  <2>1. walked.size \in Nat /\ position + 1 \in Nat /\ len \in Nat /\ v \in Elem
    BY DEF WalkInv, IsArray, Elem
  <2>2. place = "closure" /\ IsArray(walked) /\ Written(walked, walked.size) /\ Written(walked, position + 1)
    BY <1>3 DEF WalkInv, ClosurePushes, Change
  <2>3. Index(walked, walked.size) >= 0 /\ walked.size \in Int
    BY <2>1 DEF Index
  <2>4. /\ IsArray(Pushed(walked, v)) /\ Written(Pushed(walked, v), Pushed(walked, v).size)
        /\ Written(Pushed(walked, v), position + 1)
        /\ method = "inject" => Written(Pushed(walked, v), len)
    BY <2>1, <2>2, <2>3, SetWrites DEF Pushed, WalkInv
  <2> QED  BY <1>3, <2>4, ChangeWrites DEF ClosurePushes
<1>4. CASE ClosurePops
  <2>1. position + 1 \in Nat /\ len \in Nat
    BY DEF WalkInv
  <2>2. place = "closure" /\ IsArray(walked) /\ Written(walked, walked.size) /\ Written(walked, position + 1)
    BY <1>4 DEF WalkInv, ClosurePops, Change
  <2>3. /\ IsArray(Popped(walked)) /\ Written(Popped(walked), Popped(walked).size)
        /\ Written(Popped(walked), position + 1)
        /\ method = "inject" => Written(Popped(walked), len)
    BY <2>1, <2>2, PopWrites DEF WalkInv
  <2> QED  BY <1>4, <2>3, ChangeWrites DEF ClosurePops
<1>5. ASSUME NEW v \in Element, NEW x \in -1 .. MaxAlloc, ClosureSets(x, v) PROVE WalkInv'
  <2>1. position + 1 \in Nat /\ len \in Nat /\ v \in Elem /\ x \in Int
    BY DEF WalkInv, Elem
  <2>2. place = "closure" /\ IsArray(walked) /\ Written(walked, walked.size) /\ Written(walked, position + 1)
    BY <1>5 DEF WalkInv, ClosureSets, Change
  <2>3. Index(walked, x) >= 0 /\ Change(SetAt(walked, x, v))
    BY <1>5 DEF ClosureSets
  <2> DEFINE s == SetAt(walked, x, v)
  <2>4. /\ IsArray(s) /\ Written(s, s.size) /\ Written(s, position + 1)
        /\ method = "inject" => Written(s, len)
    BY <2>1, <2>2, <2>3, SetWrites DEF WalkInv
  <2> QED  BY <2>3, <2>4, ChangeWrites
<1>6. ASSUME NEW v \in Elem, Answer(v) PROVE WalkInv'
  <2>1. position \in Nat /\ new_array.size \in Nat /\ position + 1 \in Nat
    BY DEF WalkInv, IsArray
  <2>2. place = "closure" /\ Written(walked, position + 1)
    BY <1>6 DEF WalkInv, Answer
  <2>3. Word(walked, position) \in Elem
    BY <2>1, <2>2 DEF Word, Written, WalkInv, IsArray
  <2>4. IsArray(new_array') /\ Written(new_array', new_array'.size)
    <3>1. IsArray(new_array) /\ Written(new_array, new_array.size)
      BY DEF WalkInv
    <3>2. /\ Index(new_array, position) >= 0 /\ Index(new_array, new_array.size) >= 0
          /\ position \in Int /\ new_array.size \in Int
      BY <2>1 DEF Index
    <3>3. IsArray(SetAt(new_array, position, v))
          /\ Written(SetAt(new_array, position, v), SetAt(new_array, position, v).size)
      BY <2>1, <3>1, <3>2, SetWrites
    <3>4. LET p == Pushed(new_array, Word(walked, position))
          IN IsArray(p) /\ Written(p, p.size)
      BY <2>1, <2>3, <3>1, <3>2, SetWrites DEF Pushed
    <3>5. new_array' \in {SetAt(new_array, position, v),
                          Pushed(new_array, Word(walked, position)), new_array}
      BY <1>6 DEF Answer
    <3> QED  BY <3>1, <3>3, <3>4, <3>5
  <2> QED  BY <1>6, <2>1, <2>4 DEF WalkInv, Answer, Elem
<1>7. CASE Finish
  BY <1>7 DEF WalkInv, Finish
<1> QED  BY <1>1, <1>2, <1>3, <1>4, <1>5, <1>6, <1>7 DEF MethodsNext, Elem

LEMMA WalkInit == ASSUME ArraysAreWalked, MethodsInit PROVE WalkInv
<1>1. IsArray(walked) /\ Written(walked, walked.size) /\ method \in Methods
  BY DEF MethodsInit, ArraysAreWalked
<1>2. walked.size \in Nat /\ len = walked.size
  BY <1>1 DEF MethodsInit, IsArray
<1>3. IsArray(new_array) /\ Written(new_array, new_array.size)
  <2>1. PICK n \in Nat : new_array = ArrayWithSize(n)
    BY <1>2 DEF MethodsInit
  <2>2. FreshWords(n) \in Seq(Elem \cup {Garbage})
    BY DEF FreshWords
  <2> QED  BY <2>1, <2>2 DEF ArrayWithSize, IsArray, Written
<1> QED  BY <1>1, <1>2, <1>3 DEF WalkInv, MethodsInit, Elem

\* A closure is given a value that somebody put there, or nil, and the results have
\* no other elements, whatever the closures before did to the array (array.c:208-345).
THEOREM ClosuresAreGivenElements ==
  ASSUME ArraysAreWalked PROVE MethodsSpec => []ClosuresGetElements
<1>1. MethodsInit => WalkInv
  BY WalkInit
<1>2. WalkInv /\ [MethodsNext]_method_vars => WalkInv'
  BY WalkNext
<1>3. WalkInv => ClosuresGetElements
  BY DEF WalkInv, ClosuresGetElements, ArraysAreWalked, Written
<1> QED  BY <1>1, <1>2, <1>3, PTL DEF MethodsSpec
(***************************************************************************)
(* What the methods mean, while the closures leave the array alone         *)
(***************************************************************************)
IsTrue(v) == v \in Truthy

\* inject starts with the second element.
Skipped == IF method = "inject" /\ before # <<>> THEN 1 ELSE 0

HasMapped ==
  new_array.size = Len(answers) /\ \A k \in 1 .. Len(answers) : new_array.data[k] = answers[k]

HasInjected ==
  carry = IF before = <<>> THEN Nil
          ELSE IF answers = <<>> THEN before[1] ELSE answers[Len(answers)]

HasDetected ==
  \/ carry = Nil /\ \A k \in DOMAIN answers : ~IsTrue(answers[k])
  \/ /\ place = "done" /\ answers # <<>> /\ IsTrue(answers[Len(answers)])
     /\ \A k \in 1 .. Len(answers) - 1 : ~IsTrue(answers[k])
     /\ carry = before[Len(answers)]

\* The closures were asked about the first elements of the array, and what there
\* is so far is what the method means for those.
AnswersInv ==
  changes = 0 =>
    /\ before \in Seq(Elem) /\ walked.size = Len(before) /\ len = Len(before)
    /\ \A k \in 1 .. Len(before) : walked.data[k] = before[k]
    /\ answers \in Seq(Elem) /\ position = Len(answers) + Skipped
    /\ position <= Len(before)
    /\ place = "closure" => position < Len(before) /\ got = before[position + 1]
    /\ place = "done" =>
         \/ position = Len(before)
         \/ method = "detect" /\ answers # <<>> /\ IsTrue(answers[Len(answers)])
    /\ method = "map" => HasMapped
    /\ method = "select" => HasPicked(TRUE)
    /\ method = "reject" => HasPicked(FALSE)
    /\ method = "inject" => HasInjected
    /\ method = "detect" => HasDetected

LEMMA MappedGrows ==
  ASSUME WalkInv, AnswersInv, changes = 0, NEW v \in Elem, Answer(v), method = "map"
  PROVE  HasMapped'
<1>1. /\ position = Len(answers) /\ answers \in Seq(Elem) /\ Len(answers) \in Nat
      /\ HasMapped /\ answers' = Append(answers, v)
  BY DEF AnswersInv, Skipped, Answer
<1>2. IsArray(new_array) /\ Written(new_array, new_array.size) /\ new_array.size = position
  BY <1>1 DEF WalkInv, HasMapped
<1>3. new_array' = SetAt(new_array, position, v)
  BY DEF Answer
<1>4. Index(new_array, position) = position /\ position \in Int /\ position \in Nat
  BY <1>1 DEF Index
<1>5. /\ new_array'.size = position + 1 /\ new_array'.data[position + 1] = v
      /\ \A k \in 1 .. position : new_array'.data[k] = new_array.data[k]
  BY <1>2, <1>3, <1>4, SetWrites
<1> QED  BY <1>1, <1>5 DEF HasMapped

LEMMA PickedGrows ==
  ASSUME WalkInv, AnswersInv, changes = 0, NEW v \in Elem, Answer(v),
         method \in {"select", "reject"}, NEW truth \in BOOLEAN, truth = (method = "select"),
         HasPicked(truth)
  PROVE  HasPicked(truth)'
<1>1. /\ answers' = Append(answers, v) /\ before' = before
      /\ place = "closure" /\ answers \in Seq(Elem) /\ position = Len(answers)
      /\ Keeps(v) = ((v \in Truthy) = truth)
  BY DEF AnswersInv, Skipped, Answer, Keeps
<1> DEFINE n == Len(answers)
           m == new_array.size
           Picks(a, y) == (a[y] \in Truthy) = truth
<1>2. /\ n \in Nat /\ m \in Nat /\ DOMAIN answers = 1 .. n /\ DOMAIN answers' = 1 .. n + 1
      /\ answers'[n + 1] = v /\ \A x \in 1 .. n : answers'[x] = answers[x]
  BY <1>1 DEF WalkInv, IsArray
<1>3. PICK from \in [1 .. m -> 1 .. n] :
        /\ \A j, k \in 1 .. m : j < k => from[j] < from[k]
        /\ {from[k] : k \in 1 .. m} = {x \in 1 .. n : Picks(answers, x)}
        /\ \A k \in 1 .. m : new_array.data[k] = before[from[k]]
  BY <1>2 DEF HasPicked
<1>4. CASE ~Keeps(v)
  <2>1. new_array' = new_array
    BY <1>4 DEF Answer
  <2>2. from \in [1 .. new_array'.size -> DOMAIN answers'] /\ DOMAIN from = 1 .. m
    BY <2>1, <1>2
  <2>3. {x \in DOMAIN answers' : Picks(answers', x)} = {x \in 1 .. n : Picks(answers, x)}
    <3>1. ~Picks(answers', n + 1)
      BY <1>1, <1>2, <1>4
    <3>2. \A x \in 1 .. n + 1 : x = n + 1 \/ x \in 1 .. n
      BY <1>2
    <3>3. \A x \in 1 .. n : x \in 1 .. n + 1 /\ Picks(answers', x) = Picks(answers, x)
      BY <1>2
    <3> QED  BY <1>2, <3>1, <3>2, <3>3
  <2> QED  BY <1>1, <1>3, <2>1, <2>2, <2>3 DEF HasPicked
<1>5. CASE Keeps(v)
  <2>1. new_array' = Pushed(new_array, Word(walked, n))
    BY <1>1, <1>5 DEF Answer
  <2>2. Word(walked, n) = before[n + 1] /\ Word(walked, n) \in Elem
    <3>1. n + 1 \in 1 .. Len(before) /\ n + 1 <= Len(walked.data) /\ walked.data[n + 1] \in Elem
      BY <1>1, <1>2 DEF AnswersInv, WalkInv, Written
    <3>2. walked.data \in Seq(Elem \cup {Garbage})
      BY DEF WalkInv, IsArray
    <3>3. Word(walked, n) = walked.data[n + 1]
      BY <1>2, <3>1, <3>2 DEF Word
    <3> QED  BY <3>1, <3>3 DEF AnswersInv
  <2>3. /\ new_array'.size = m + 1 /\ new_array'.data[m + 1] = before[n + 1]
        /\ \A k \in 1 .. m : new_array'.data[k] = new_array.data[k]
    <3>1. IsArray(new_array) /\ Written(new_array, m)
      BY DEF WalkInv
    <3>2. Index(new_array, m) = m /\ m \in Int
      BY <1>2 DEF Index
    <3> QED  BY <1>2, <2>1, <2>2, <3>1, <3>2, SetWrites DEF Pushed
  <2> DEFINE more == [k \in 1 .. m + 1 |-> IF k = m + 1 THEN n + 1 ELSE from[k]]
  <2>4. more \in [1 .. m + 1 -> 1 .. n + 1] /\ DOMAIN more = 1 .. m + 1
    <3>1. ASSUME NEW k \in 1 .. m + 1 PROVE (IF k = m + 1 THEN n + 1 ELSE from[k]) \in 1 .. n + 1
      <4>1. n + 1 \in 1 .. n + 1 /\ (k # m + 1 => k \in 1 .. m)
        BY <1>2
      <4>2. k # m + 1 => from[k] \in 1 .. n
        BY <4>1
      <4> QED  BY <1>2, <4>1, <4>2
    <3> QED  BY <3>1
  <2>5. more[m + 1] = n + 1 /\ \A k \in 1 .. m : more[k] = from[k] /\ from[k] \in 1 .. n
    BY <1>2, <1>3
  <2> HIDE DEF more
  <2>6. \A j, k \in 1 .. m + 1 : j < k => more[j] < more[k]
    <3> SUFFICES ASSUME NEW j \in 1 .. m + 1, NEW k \in 1 .. m + 1, j < k PROVE more[j] < more[k]
      OBVIOUS
    <3>1. j \in 1 .. m
      BY <1>2
    <3>2. CASE k = m + 1
      BY <2>5, <3>1, <3>2, <1>2
    <3>3. CASE k # m + 1
      <4>1. k \in 1 .. m
        BY <1>2, <3>3
      <4>2. from[j] < from[k]
        BY <1>3, <3>1, <4>1
      <4> QED  BY <2>5, <3>1, <4>1, <4>2
    <3> QED  BY <3>2, <3>3
  <2>7. {more[k] : k \in 1 .. m + 1} = {x \in 1 .. n + 1 : Picks(answers', x)}
    <3>1. {more[k] : k \in 1 .. m + 1} = {from[k] : k \in 1 .. m} \cup {n + 1}
      <4>1. ASSUME NEW k \in 1 .. m + 1 PROVE more[k] \in {from[j] : j \in 1 .. m} \cup {n + 1}
        <5>1. k = m + 1 \/ k \in 1 .. m
          BY <1>2
        <5> QED  BY <2>5, <5>1
      <4>2. m + 1 \in 1 .. m + 1 /\ \A k \in 1 .. m : k \in 1 .. m + 1
        BY <1>2
      <4> QED  BY <2>5, <4>1, <4>2
    <3>2. {x \in 1 .. n + 1 : Picks(answers', x)} = {x \in 1 .. n : Picks(answers, x)} \cup {n + 1}
      <4>1. \A x \in 1 .. n + 1 : x = n + 1 \/ x \in 1 .. n
        BY <1>2
      <4>2. Picks(answers', n + 1) /\ \A x \in 1 .. n : Picks(answers', x) = Picks(answers, x)
        BY <1>1, <1>2, <1>5
      <4>3. n + 1 \in 1 .. n + 1 /\ \A x \in 1 .. n : x \in 1 .. n + 1
        BY <1>2
      <4> QED  BY <4>1, <4>2, <4>3
    <3> QED  BY <3>1, <3>2, <1>3
  <2>8. \A k \in 1 .. m + 1 : new_array'.data[k] = before'[more[k]]
    <3>1. \A k \in 1 .. m + 1 : k = m + 1 \/ k \in 1 .. m
      BY <1>2
    <3> QED  BY <3>1, <1>1, <1>3, <2>3, <2>5
  <2> QED  BY <1>2, <2>3, <2>4, <2>6, <2>7, <2>8 DEF HasPicked
<1> QED  BY <1>4, <1>5

LEMMA AnswersNext ==
  ASSUME ArraysAreWalked, WalkInv, AnswersInv, [MethodsNext]_method_vars PROVE AnswersInv'
<1>1. CASE UNCHANGED method_vars
  BY <1>1 DEF AnswersInv, method_vars, Skipped, HasMapped, HasInjected, HasDetected, HasPicked
<1>2. CASE CallClosure
  <2> SUFFICES ASSUME changes = 0 PROVE AnswersInv'
    BY <1>2 DEF AnswersInv, CallClosure
  <2>1. /\ position \in Nat /\ Len(before) \in Nat /\ Len(walked.data) \in Nat
        /\ position < Len(before) /\ Len(before) <= Len(walked.data) /\ position + 1 \in 1 .. Len(before)
    BY <1>2 DEF AnswersInv, WalkInv, IsArray, Written, CallClosure, Going
  <2>2. Word(walked, position) = before[position + 1]
    BY <2>1 DEF AnswersInv, Word
  <2>3. GetAt(walked, position) = Word(walked, position)
    BY <2>1 DEF GetAt, Index, AnswersInv
  <2>4. got' = before[position + 1]
    BY <1>2, <2>2, <2>3 DEF CallClosure
  <2> QED
    BY <1>2, <2>1, <2>4
    DEF AnswersInv, CallClosure, Skipped, HasMapped, HasInjected, HasDetected, HasPicked
<1>3. ASSUME NEW changed, Change(changed) PROVE AnswersInv'
  BY <1>3 DEF Change, AnswersInv, WalkInv
<1>4. ASSUME NEW v \in Elem, Answer(v) PROVE AnswersInv'
  <2> SUFFICES ASSUME changes = 0 PROVE AnswersInv'
    BY <1>4 DEF AnswersInv, Answer
  <2>1. /\ place = "closure" /\ answers' = Append(answers, v) /\ position' = position + 1
        /\ answers \in Seq(Elem) /\ before' = before /\ walked' = walked /\ len' = len
        /\ method' = method /\ changes' = 0
        /\ position < Len(before) /\ position \in Nat /\ before \in Seq(Elem)
        /\ position = Len(answers) + Skipped /\ got = before[position + 1]
    BY <1>4 DEF AnswersInv, Answer, WalkInv
  <2>2. /\ answers' \in Seq(Elem) /\ Len(answers') = Len(answers) + 1 /\ answers' # <<>>
        /\ Len(answers) \in Nat
        /\ answers'[Len(answers')] = v /\ \A k \in 1 .. Len(answers) : answers'[k] = answers[k]
    BY <2>1
  <2>3. Skipped' = Skipped /\ position' = Len(answers') + Skipped' /\ position' <= Len(before')
    BY <2>1, <2>2 DEF Skipped
  <2>4. method = "map" => HasMapped'
    BY <1>4, MappedGrows
  <2>5. method = "select" => HasPicked(TRUE)'
    BY <1>4, PickedGrows DEF AnswersInv
  <2>6. method = "reject" => HasPicked(FALSE)'
    BY <1>4, PickedGrows DEF AnswersInv
  <2>7. method = "inject" => HasInjected'
    BY <1>4, <2>1, <2>2 DEF HasInjected, Answer
  <2>8. ASSUME method = "detect" PROVE HasDetected'
    <3>1. position = Len(answers) /\ carry = Nil /\ \A k \in DOMAIN answers : ~IsTrue(answers[k])
      BY <2>1, <2>2, <2>8 DEF Skipped, AnswersInv, HasDetected
    <3>2. DOMAIN answers = 1 .. Len(answers) /\ DOMAIN answers' = 1 .. Len(answers) + 1
      BY <2>1, <2>2
    <3>3. CASE IsTrue(v)
      <4>1. place' = "done" /\ carry' = got
        BY <1>4, <2>8, <3>3 DEF Answer, IsTrue
      <4> QED  BY <2>1, <2>2, <3>1, <3>2, <3>3, <4>1 DEF HasDetected, IsTrue
    <3>4. CASE ~IsTrue(v)
      <4>1. carry' = Nil
        BY <1>4, <2>8, <3>1, <3>4 DEF Answer, IsTrue
      <4>2. \A k \in DOMAIN answers' : ~IsTrue(answers'[k])
        <5>1. \A k \in DOMAIN answers' : k \in DOMAIN answers \/ k = Len(answers')
          BY <3>2, <2>2
        <5> QED  BY <2>2, <3>1, <3>2, <3>4, <5>1
      <4> QED  BY <4>1, <4>2 DEF HasDetected, IsTrue
    <3> QED  BY <3>3, <3>4
  <2>9. /\ place' \in {"done", "loop"}
        /\ place' = "done" => method' = "detect" /\ answers' # <<>> /\ IsTrue(answers'[Len(answers')])
    BY <1>4, <2>1, <2>2 DEF Answer, IsTrue
  <2> QED
    BY <2>1, <2>2, <2>3, <2>4, <2>5, <2>6, <2>7, <2>8, <2>9 DEF AnswersInv, IsTrue
<1>5. CASE Finish
  <2>1. changes = 0 => position = Len(before) /\ len = Len(before)
    BY <1>5 DEF Finish, Going, AnswersInv, WalkInv
  <2> QED
    BY <1>5, <2>1
    DEF AnswersInv, Finish, Skipped, HasMapped, HasInjected, HasDetected, HasPicked
<1> QED
  BY <1>1, <1>2, <1>3, <1>4, <1>5
  DEF MethodsNext, ClosurePushes, ClosurePops, ClosureSets, Elem

LEMMA AnswersInit == ASSUME ArraysAreWalked, MethodsInit PROVE AnswersInv
<1>1. IsArray(walked) /\ Written(walked, walked.size) /\ len = walked.size
  BY DEF MethodsInit, ArraysAreWalked
<1>2. /\ walked.size \in Nat /\ walked.size <= Len(walked.data)
      /\ walked.data \in Seq(Elem \cup {Garbage})
  BY <1>1 DEF IsArray, Written
<1>3. before = SubSeq(walked.data, 1, walked.size)
  BY DEF MethodsInit, Elements
<1>4. /\ before \in Seq(Elem) /\ Len(before) = walked.size
      /\ \A k \in 1 .. walked.size : before[k] = walked.data[k]
  BY <1>1, <1>2, <1>3 DEF Written
<1>5. method \in {"map", "select", "reject"} => new_array.size = 0
  BY DEF MethodsInit, ArrayWithSize
<1>6. answers = <<>> /\ place = "loop"
  BY DEF MethodsInit
<1>7. position = Skipped /\ position <= Len(before)
  BY <1>1, <1>2, <1>4 DEF MethodsInit, Skipped
<1>8. method = "inject" => HasInjected
  BY <1>1, <1>2, <1>4 DEF MethodsInit, HasInjected, Word
<1>9. method = "detect" => HasDetected
  BY DEF MethodsInit, HasDetected
<1>10. method = "map" => HasMapped
  BY <1>5, <1>6 DEF HasMapped
<1>11. ASSUME method \in {"select", "reject"}, NEW truth \in BOOLEAN PROVE HasPicked(truth)
  <2> DEFINE from == [k \in {} |-> 1]
  <2>1. 1 .. new_array.size = {} /\ DOMAIN answers = {}
    BY <1>5, <1>6, <1>11
  <2>2. from \in [1 .. new_array.size -> DOMAIN answers] /\ DOMAIN from = {}
    BY <2>1
  <2> QED  BY <2>1, <2>2 DEF HasPicked
<1>12. answers \in Seq(Elem) /\ position = Len(answers) + Skipped
  BY <1>6, <1>7 DEF Skipped
<1> QED
  BY <1>1, <1>4, <1>6, <1>7, <1>8, <1>9, <1>10, <1>11, <1>12 DEF AnswersInv

LEMMA AnswersEnough ==
  ASSUME WalkInv, AnswersInv, ArraysAreWalked PROVE ResultsFollowTheAnswers
<1> SUFFICES ASSUME place = "done", changes = 0 PROVE ResultsFollowTheAnswers
  BY DEF ResultsFollowTheAnswers
<1> DEFINE n == Len(answers)
<1>1. n \in Nat /\ answers \in Seq(Elem) /\ before \in Seq(Elem) /\ Len(before) \in Nat
  BY DEF AnswersInv
<1>2. method # "inject" /\ method # "detect" => n = Len(before)
  BY <1>1 DEF AnswersInv, Skipped
<1>3. method = "map" => Elements(new_array) = answers
  <2> SUFFICES ASSUME HasMapped PROVE Elements(new_array) = answers
    BY DEF AnswersInv
  <2>1. new_array.data \in Seq(Elem \cup {Garbage}) /\ n <= Len(new_array.data) /\ new_array.size = n
    BY DEF WalkInv, IsArray, Written, HasMapped
  <2> QED  BY <1>1, <2>1 DEF Elements, HasMapped
<1>4. method = "inject" =>
        IF before = <<>> THEN n = 0 /\ carry = Nil
        ELSE n = Len(before) - 1 /\ carry = IF n = 0 THEN before[1] ELSE answers[n]
  BY <1>1 DEF AnswersInv, Skipped, HasInjected
<1>5. ASSUME method = "detect"
      PROVE  LET first == SelectInSeq(answers, LAMBDA a : a \in Truthy)
             IN IF first = 0 THEN n = Len(before) /\ carry = Nil
                ELSE n = first /\ carry = before[first]
  <2> DEFINE S == {k \in 1 .. n : IsTrue(answers[k])}
             first == SelectInSeq(answers, LAMBDA a : a \in Truthy)
  <2>1. first = IF S # {} THEN CHOOSE x \in S : \A y \in S : x <= y ELSE 0
    BY DEF SelectInSeq, Min, IsTrue
  <2>2. CASE S = {}
    BY <1>1, <1>5, <2>1, <2>2 DEF AnswersInv, HasDetected, Skipped
  <2>3. CASE S # {}
    <3>1. carry = before[n] /\ n \in S /\ \A k \in S : k = n
      BY <1>1, <1>5, <2>3 DEF AnswersInv, HasDetected
    <3>2. S = {n}
      BY <3>1
    <3>3. first = n
      <4> HIDE DEF S
      <4>1. (CHOOSE x \in {n} : \A y \in {n} : x <= y) = n
        BY <1>1
      <4> QED  BY <2>1, <3>2, <4>1
    <3> QED  BY <1>1, <3>1, <3>3
  <2> QED  BY <2>2, <2>3
<1> QED
  BY <1>1, <1>2, <1>3, <1>4, <1>5
  DEF ResultsFollowTheAnswers, Last, AnswersInv, WalkInv, ArraysAreWalked

\* When the closures leave the array alone, each element is asked about once and in
\* order, and the result is what the method means for the answers (array.c:208-345).
THEOREM MethodsMeanWhatTheySay ==
  ASSUME ArraysAreWalked PROVE MethodsSpec => []ResultsFollowTheAnswers
<1>1. MethodsInit => WalkInv /\ AnswersInv
  BY WalkInit, AnswersInit
<1>2. WalkInv /\ AnswersInv /\ [MethodsNext]_method_vars => (WalkInv /\ AnswersInv)'
  BY WalkNext, AnswersNext
<1>3. WalkInv /\ AnswersInv => ResultsFollowTheAnswers
  BY AnswersEnough
<1> QED  BY <1>1, <1>2, <1>3, PTL DEF MethodsSpec

-----------------------------------------------------------------------------
(***************************************************************************)
(* Objects                                                                 *)
(***************************************************************************)
Prototype(o) == objects[o].prototype
Instances(c) == objects[c].instance_prototype
Modules(o) == objects[o].included_modules

IsObject(r) ==
  r = [type |-> r.type, prototype |-> r.prototype, members |-> r.members,
       property_names |-> r.property_names, property_data |-> r.property_data,
       included_modules |-> r.included_modules, assigned |-> r.assigned, name |-> r.name,
       instance_prototype |-> r.instance_prototype]

\* The prototype of classes is younger than the first of them.
Age(o) == IF o = ClassPrototype THEN 0 ELSE o

ObjectsExist ==
  /\ \E T : objects \in Seq(T)
  /\ Len(objects) >= 4
  /\ \A o \in Existing : IsObject(objects[o]) /\ objects[o].type \in {"object", "class"}

PrototypesAreOlder ==
  \A o \in Existing : Prototype(o) # NULL =>
    Prototype(o) \in Existing /\ Age(Prototype(o)) < Age(o)

ClassesHaveInstances == \A c \in Classes : Instances(c) \in Existing

CreatedInv ==
  /\ DOMAIN created \subseteq Existing
  /\ \A o \in DOMAIN created : o \in Classes /\ created[o] # NULL =>
       /\ created[o] \in Classes /\ created[o] < o
       /\ Prototype(Instances(o)) = Instances(created[o])
  /\ \A o \in DOMAIN created : o \notin Classes =>
       created[o] \in Classes /\ Prototype(o) = Instances(created[o])

Ranked(rank) ==
  \A o \in Existing : \A k \in DOMAIN Modules(o) : rank[Modules(o)[k]] < rank[o]

ModulesInv ==
  /\ \A o \in Existing : Modules(o) \in Seq(Existing)
  /\ \E rank \in [Existing -> Nat] : Ranked(rank)

ObjectsInv ==
  ObjectsExist /\ PrototypesAreOlder /\ ClassesHaveInstances /\ CreatedInv /\ ModulesInv

-----------------------------------------------------------------------------
(***************************************************************************)
(* What is reached                                                         *)
(***************************************************************************)
\* x is in every set that has B and is closed against the edges of R.
Reaches(E, B, R, x) ==
  \A S \in SUBSET E :
    (\A y \in E : y \in B \/ (\E z \in S : <<y, z>> \in R) => y \in S) => x \in S

\* That is, x is in B, or an edge leads from x to what reaches B.
LEMMA ReachesIs ==
  ASSUME NEW E, NEW B, NEW R, NEW x \in E
  PROVE  Reaches(E, B, R, x) <=> x \in B \/ \E y \in E : <<x, y>> \in R /\ Reaches(E, B, R, y)
<1>1. ASSUME NEW v \in E, v \in B \/ \E y \in E : <<v, y>> \in R /\ Reaches(E, B, R, y)
      PROVE  Reaches(E, B, R, v)
  BY <1>1 DEF Reaches
<1>2. ASSUME Reaches(E, B, R, x)
      PROVE  x \in B \/ \E y \in E : <<x, y>> \in R /\ Reaches(E, B, R, y)
  <2> DEFINE S == {v \in E : v \in B \/ \E y \in E : <<v, y>> \in R /\ Reaches(E, B, R, y)}
  <2>1. ASSUME NEW v \in E, v \in B \/ \E z \in S : <<v, z>> \in R PROVE v \in S
    BY <1>1, <2>1
  <2>2. S \in SUBSET E
    OBVIOUS
  <2>3. x \in S
    <3> HIDE DEF S
    <3> QED  BY <1>2, <2>1, <2>2 DEF Reaches
  <2> QED  BY <2>3
<1> QED  BY <1>1, <1>2

\* What numbers are ranked by: a property that each element inherits from those
\* of a lower rank is one of all.
LEMMA ByRank ==
  ASSUME NEW E, NEW rank \in [E -> Nat], NEW Good,
         \A x \in E : (\A y \in E : rank[y] < rank[x] => y \in Good) => x \in Good
  PROVE  \A x \in E : x \in Good
<1> DEFINE Bad == {rank[x] : x \in E \ Good}
<1>1. SUFFICES ASSUME Bad # {} PROVE FALSE
  OBVIOUS
<1>2. Bad \in SUBSET Nat
  OBVIOUS
<1>3. PICK m \in Bad : \A n \in Bad : m <= n
  <2> HIDE DEF Bad
  <2> QED  BY <1>1, <1>2, Least
<1>4. PICK x \in E \ Good : rank[x] = m
  BY <1>3
<1>5. \A y \in E : rank[y] < rank[x] => y \in Good
  <2> SUFFICES ASSUME NEW y \in E, rank[y] < rank[x], y \notin Good PROVE FALSE
    OBVIOUS
  <2>1. rank[y] \in Bad /\ rank[y] \in Nat /\ m \in Nat
    BY <1>2
  <2> HIDE DEF Bad
  <2> QED  BY <2>1, <1>3, <1>4
<1> QED  BY <1>4, <1>5

LEMMA ObjectsAreASequence ==
  ASSUME ObjectsExist
  PROVE  /\ Len(objects) \in Nat /\ Existing = 1 .. Len(objects)
         /\ objects = [o \in 1 .. Len(objects) |-> objects[o]]
<1>1. PICK T : objects \in Seq(T)
  BY DEF ObjectsExist
<1> QED  BY <1>1 DEF Existing

LEMMA LargerSequences == ASSUME NEW S, NEW T, S \subseteq T, NEW s \in Seq(S) PROVE s \in Seq(T)
OBVIOUS

LEMMA BothSequences ==
  ASSUME NEW S, NEW s \in Seq(S), NEW t \in Seq(S)
  PROVE  s \o t \in Seq(S) /\ Len(s \o t) = Len(s) + Len(t)
OBVIOUS

LEMMA NoSequence == ASSUME NEW S PROVE <<>> \in Seq(S)
OBVIOUS

Edges == {e \in Existing \X Existing : \E k \in DOMAIN Modules(e[1]) : Modules(e[1])[k] = e[2]}

LEMMA EdgesAre ==
  ASSUME ModulesInv, NEW x \in Existing
  PROVE  /\ \A k \in DOMAIN Modules(x) : Modules(x)[k] \in Existing
         /\ \A y \in Existing : <<x, y>> \in Edges <=> \E k \in DOMAIN Modules(x) : Modules(x)[k] = y
<1>1. Modules(x) \in Seq(Existing)
  BY DEF ModulesInv
<1>2. ASSUME NEW y \in Existing
      PROVE  <<x, y>> \in Edges <=> \E k \in DOMAIN Modules(x) : Modules(x)[k] = y
  BY DEF Edges
<1> QED  BY <1>1, <1>2

\* The recursion of the code ends, and finds what is reached.
LEMMA IncludedIs ==
  ASSUME ModulesInv, NEW o \in Existing, NEW t \in Existing
  PROVE  IsIncluded(o, t) <=> Reaches(Existing, {t}, Edges, o)
<1> DEFINE F(f) == [m \in Existing |->
                      \/ m = t
                      \/ \E k \in DOMAIN objects[m].included_modules :
                           f[objects[m].included_modules[k]]]
           g == [m \in Existing |-> Reaches(Existing, {t}, Edges, m)]
           is == CHOOSE f : f = F(f)
<1>1. g = F(g)
  <2>1. ASSUME NEW m \in Existing PROVE g[m] = F(g)[m]
    <3>1. Reaches(Existing, {t}, Edges, m) <=>
            m = t \/ \E y \in Existing : <<m, y>> \in Edges /\ Reaches(Existing, {t}, Edges, y)
      BY ReachesIs
    <3>2. /\ \A k \in DOMAIN Modules(m) : Modules(m)[k] \in Existing
          /\ \A y \in Existing : <<m, y>> \in Edges <=> \E k \in DOMAIN Modules(m) : Modules(m)[k] = y
      BY EdgesAre
    <3>3. Reaches(Existing, {t}, Edges, m) <=>
            m = t \/ \E k \in DOMAIN Modules(m) : Reaches(Existing, {t}, Edges, Modules(m)[k])
      BY <3>1, <3>2
    <3> DEFINE here == \/ m = t
                       \/ \E k \in DOMAIN objects[m].included_modules :
                            g[objects[m].included_modules[k]]
    <3>4. here <=> Reaches(Existing, {t}, Edges, m)
      BY <3>2, <3>3 DEF Modules
    <3>5. F(g)[m] = here
      <4> HIDE DEF g
      <4> QED  OBVIOUS
    <3>6. g[m] = Reaches(Existing, {t}, Edges, m)
      OBVIOUS
    <3>7. here \in BOOLEAN
      OBVIOUS
    <3>8. Reaches(Existing, {t}, Edges, m) \in BOOLEAN
      BY DEF Reaches
    <3>9. here = Reaches(Existing, {t}, Edges, m)
      <4> HIDE DEF here
      <4> QED  BY <3>4, <3>7, <3>8
    <3> HIDE DEF here, g, F
    <3> QED  BY <3>5, <3>6, <3>9
  <2> HIDE DEF g
  <2>2. g = [m \in Existing |-> g[m]]
    BY DEF g
  <2>3. F(g) = [m \in Existing |-> F(g)[m]]
    OBVIOUS
  <2> QED  BY <2>1, <2>2, <2>3
<1>2. is = F(is)
  <2> HIDE DEF g, F
  <2> QED  BY <1>1
<1>3. IsIncluded(o, t) = is[o]
  BY DEF IsIncluded
<1> HIDE DEF is
<1>4. PICK rank \in [Existing -> Nat] : Ranked(rank)
  BY DEF ModulesInv
<1>5. \A x \in Existing : is[x] <=> g[x]
  <2> DEFINE Good == {x \in Existing : is[x] <=> g[x]}
  <2>1. ASSUME NEW x \in Existing, \A y \in Existing : rank[y] < rank[x] => y \in Good
        PROVE  x \in Good
    <3>1. \A k \in DOMAIN Modules(x) : Modules(x)[k] \in Existing /\ rank[Modules(x)[k]] < rank[x]
      BY EdgesAre, <1>4 DEF Ranked
    <3>2. \A k \in DOMAIN Modules(x) : is[Modules(x)[k]] <=> g[Modules(x)[k]]
      BY <2>1, <3>1
    <3>3. is[x] <=> x = t \/ \E k \in DOMAIN Modules(x) : is[Modules(x)[k]]
      <4> HIDE DEF g
      <4> QED  BY <1>2 DEF Modules
    <3>4. g[x] <=> x = t \/ \E k \in DOMAIN Modules(x) : g[Modules(x)[k]]
      <4> HIDE DEF g
      <4> QED  BY <1>1 DEF Modules
    <3> HIDE DEF g
    <3> QED  BY <3>2, <3>3, <3>4
  <2>2. \A x \in Existing : (\A y \in Existing : rank[y] < rank[x] => y \in Good) => x \in Good
    BY <2>1
  <2> HIDE DEF Good
  <2>3. \A x \in Existing : x \in Good
    BY <2>2, ByRank
  <2> QED  BY <2>3 DEF Good
<1> QED  BY <1>3, <1>5

\* An object is at the end of every chain of modules that reaches it.
LEMMA RankFalls ==
  ASSUME ModulesInv, NEW rank \in [Existing -> Nat], Ranked(rank), NEW o \in Existing,
         NEW t \in Existing, Reaches(Existing, {t}, Edges, o)
  PROVE  rank[t] <= rank[o]
<1> DEFINE S == {x \in Existing : rank[t] <= rank[x]}
<1>1. ASSUME NEW x \in Existing, x = t \/ \E z \in S : <<x, z>> \in Edges PROVE x \in S
  <2>1. CASE x = t
    BY <2>1
  <2>2. CASE \E z \in S : <<x, z>> \in Edges
    <3>1. PICK z \in S : <<x, z>> \in Edges
      BY <2>2
    <3>2. rank[z] < rank[x] /\ rank[z] \in Nat /\ rank[x] \in Nat /\ rank[t] \in Nat
      BY <3>1, EdgesAre DEF Ranked
    <3> QED  BY <3>1, <3>2
  <2> QED  BY <1>1, <2>1, <2>2
<1>2. S \in SUBSET Existing
  OBVIOUS
<1>3. o \in S
  <2> HIDE DEF S
  <2> QED  BY <1>1, <1>2 DEF Reaches
<1> QED  BY <1>3

LEMMA AcyclicEnough == ASSUME ModulesInv PROVE IncludesAreAcyclic
<1>1. PICK rank \in [Existing -> Nat] : Ranked(rank)
  BY DEF ModulesInv
<1>2. ASSUME NEW o \in Existing, NEW k \in DOMAIN Modules(o), IsIncluded(Modules(o)[k], o)
      PROVE  FALSE
  <2>1. Modules(o)[k] \in Existing /\ rank[Modules(o)[k]] < rank[o]
    BY <1>1, EdgesAre DEF Ranked
  <2>2. rank[o] <= rank[Modules(o)[k]]
    BY <1>1, <1>2, <2>1, IncludedIs, RankFalls
  <2> QED  BY <2>1, <2>2
<1> QED  BY <1>2 DEF IncludesAreAcyclic, Modules

-----------------------------------------------------------------------------
(***************************************************************************)
(* Instances are of their classes                                          *)
(***************************************************************************)
Chain == {e \in Existing \X Existing : Prototype(e[1]) # NULL /\ Prototype(e[1]) = e[2]}

LEMMA ChainContainsIs ==
  ASSUME ObjectsInv, NEW o \in Existing, NEW proto
  PROVE  ChainContains(o, proto) <=>
           \/ o = proto
           \/ IsIncluded(o, proto)
           \/ Prototype(o) # NULL /\ ChainContains(Prototype(o), proto)
<1> DEFINE F(f) == [p \in Existing |->
                      \/ p = proto
                      \/ IsIncluded(p, proto)
                      \/ objects[p].prototype # NULL /\ f[objects[p].prototype]]
           B == {p \in Existing : p = proto \/ IsIncluded(p, proto)}
           g == [p \in Existing |-> Reaches(Existing, B, Chain, p)]
           contains == CHOOSE f : f = F(f)
<1>1. g = F(g)
  <2>1. ASSUME NEW p \in Existing PROVE g[p] = F(g)[p]
    <3>1. Reaches(Existing, B, Chain, p) <=>
            p \in B \/ \E q \in Existing : <<p, q>> \in Chain /\ Reaches(Existing, B, Chain, q)
      <4> HIDE DEF B
      <4> QED  BY ReachesIs
    <3>2. Prototype(p) # NULL => Prototype(p) \in Existing
      BY DEF ObjectsInv, PrototypesAreOlder
    <3>3. \A q \in Existing : <<p, q>> \in Chain <=> Prototype(p) # NULL /\ Prototype(p) = q
      BY DEF Chain
    <3>4. Reaches(Existing, B, Chain, p) <=>
            \/ p \in B
            \/ Prototype(p) # NULL /\ Reaches(Existing, B, Chain, Prototype(p))
      <4> HIDE DEF B
      <4> QED  BY <3>1, <3>2, <3>3
    <3> DEFINE here == \/ p = proto
                       \/ IsIncluded(p, proto)
                       \/ objects[p].prototype # NULL /\ g[objects[p].prototype]
    <3>5. p \in B <=> p = proto \/ IsIncluded(p, proto)
      OBVIOUS
    <3>6. Prototype(p) # NULL => g[Prototype(p)] = Reaches(Existing, B, Chain, Prototype(p))
      <4> HIDE DEF B
      <4> QED  BY <3>2
    <3> HIDE DEF B, g
    <3>7. here <=> Reaches(Existing, B, Chain, p)
      BY <3>4, <3>5, <3>6 DEF Prototype
    <3>8. here \in BOOLEAN
      OBVIOUS
    <3>9. Reaches(Existing, B, Chain, p) \in BOOLEAN
      BY DEF Reaches
    <3>10. here = Reaches(Existing, B, Chain, p)
      <4> HIDE DEF here
      <4> QED  BY <3>7, <3>8, <3>9
    <3>11. F(g)[p] = here
      OBVIOUS
    <3>12. g[p] = Reaches(Existing, B, Chain, p)
      BY DEF g
    <3> HIDE DEF here, F
    <3> QED  BY <3>10, <3>11, <3>12
  <2> HIDE DEF g
  <2>2. g = [p \in Existing |-> g[p]]
    BY DEF g
  <2>3. F(g) = [p \in Existing |-> F(g)[p]]
    OBVIOUS
  <2> QED  BY <2>1, <2>2, <2>3
<1>2. contains = F(contains)
  <2> HIDE DEF g, F
  <2> QED  BY <1>1
<1>3. \A p : ChainContains(p, proto) = contains[p]
  BY DEF ChainContains
<1> HIDE DEF contains
<1> QED  BY <1>2, <1>3 DEF Prototype

\* What a class is derived from, each from the next.
Derived == {e \in Classes \X Classes : e[1] \in DOMAIN created /\ created[e[1]] = e[2]}

LEMMA SuperclassesAre ==
  ASSUME ObjectsInv, NULL \notin Nat, NEW c \in Classes
  PROVE  Superclasses(c) = {c} \cup (IF c \in DOMAIN created /\ created[c] # NULL
                                    THEN Superclasses(created[c]) ELSE {})
<1> DEFINE F(f) == [d \in Classes |->
                      {d} \cup (IF d \in DOMAIN created /\ created[d] # NULL
                               THEN f[created[d]] ELSE {})]
           g == [d \in Classes |-> {e \in Classes : Reaches(Classes, {e}, Derived, d)}]
           classes == CHOOSE f : f = F(f)
<1>1. g = F(g)
  <2>1. ASSUME NEW d \in Classes PROVE g[d] = F(g)[d]
    <3>1. \A e \in Classes : Reaches(Classes, {e}, Derived, d) <=>
            d = e \/ \E q \in Classes : <<d, q>> \in Derived /\ Reaches(Classes, {e}, Derived, q)
      BY ReachesIs
    <3>2. d \in DOMAIN created /\ created[d] # NULL => created[d] \in Classes
      BY DEF ObjectsInv, CreatedInv
    <3>3. \A q \in Classes :
            <<d, q>> \in Derived <=> d \in DOMAIN created /\ created[d] # NULL /\ created[d] = q
      <4>1. NULL \notin Classes
        BY ObjectsAreASequence DEF ObjectsInv, Classes
      <4> QED  BY <4>1 DEF Derived
    <3>4. \A e \in Classes : Reaches(Classes, {e}, Derived, d) <=>
            \/ d = e
            \/ d \in DOMAIN created /\ created[d] # NULL /\ Reaches(Classes, {e}, Derived, created[d])
      BY <3>1, <3>2, <3>3
    <3>5. CASE d \in DOMAIN created /\ created[d] # NULL
      <4>1. F(g)[d] = {d} \cup g[created[d]]
        <5> HIDE DEF g
        <5> QED  BY <3>5
      <4>2. g[created[d]] = {e \in Classes : Reaches(Classes, {e}, Derived, created[d])}
        BY <3>2, <3>5
      <4>3. g[d] = {e \in Classes : Reaches(Classes, {e}, Derived, d)}
        OBVIOUS
      <4> HIDE DEF g, F
      <4> QED  BY <4>1, <4>2, <4>3, <3>4, <3>5
    <3>6. CASE ~(d \in DOMAIN created /\ created[d] # NULL)
      <4>1. F(g)[d] = {d}
        <5> HIDE DEF g
        <5> QED  BY <3>6
      <4>2. g[d] = {e \in Classes : Reaches(Classes, {e}, Derived, d)}
        OBVIOUS
      <4> HIDE DEF g, F
      <4> QED  BY <4>1, <4>2, <3>4, <3>6
    <3> QED  BY <3>5, <3>6
  <2> HIDE DEF g
  <2>2. g = [d \in Classes |-> g[d]]
    BY DEF g
  <2>3. F(g) = [d \in Classes |-> F(g)[d]]
    OBVIOUS
  <2> QED  BY <2>1, <2>2, <2>3
<1>2. classes = F(classes)
  <2> HIDE DEF g, F
  <2> QED  BY <1>1
<1>3. \A d : Superclasses(d) = classes[d]
  BY DEF Superclasses
<1> HIDE DEF classes
<1> QED  BY <1>2, <1>3

LEMMA InstancesEnough ==
  ASSUME ObjectsInv, NULL \notin Nat PROVE InstancesAreOfTheirClasses
<1>1. Existing \subseteq Nat /\ Classes \subseteq Existing /\ NULL \notin Existing
  BY ObjectsAreASequence DEF ObjectsInv, Classes
<1>2. \A c \in Classes : Instances(c) \in Existing
  BY DEF ObjectsInv, ClassesHaveInstances
<1> DEFINE Good == {d \in Classes : \A e \in Superclasses(d) :
                      e \in Classes /\ ChainContains(Instances(d), Instances(e))}
           rank == [d \in Classes |-> d]
<1>3. ASSUME NEW d \in Classes, \A e \in Classes : rank[e] < rank[d] => e \in Good
      PROVE  d \in Good
  <2>1. SUFFICES ASSUME NEW e \in Superclasses(d)
                 PROVE  e \in Classes /\ ChainContains(Instances(d), Instances(e))
    OBVIOUS
  <2>2. CASE e = d
    BY <2>2, <1>2, ChainContainsIs
  <2>3. CASE e # d
    <3>1. /\ d \in DOMAIN created /\ created[d] # NULL
          /\ e \in Superclasses(created[d])
      BY <2>3, SuperclassesAre
    <3>2. /\ created[d] \in Classes /\ created[d] < d
          /\ Prototype(Instances(d)) = Instances(created[d])
      BY <3>1 DEF ObjectsInv, CreatedInv
    <3>3. created[d] \in Good
      BY <1>3, <3>2
    <3>4. e \in Classes /\ ChainContains(Instances(created[d]), Instances(e))
      BY <3>1, <3>3
    <3>5. Instances(created[d]) # NULL
      BY <1>1, <1>2, <3>2
    <3> QED  BY <1>2, <3>2, <3>4, <3>5, ChainContainsIs
  <2> QED  BY <2>2, <2>3
<1>4. \A d \in Classes : d \in Good
  <2>1. rank \in [Classes -> Nat]
    BY <1>1
  <2>2. \A d \in Classes : (\A e \in Classes : rank[e] < rank[d] => e \in Good) => d \in Good
    BY <1>3
  <2> HIDE DEF Good, rank
  <2> QED  BY <2>1, <2>2, ByRank
<1>5. ASSUME NEW o \in DOMAIN created, o \notin Classes, NEW c \in Superclasses(created[o])
      PROVE  IsA(o, c)
  <2>1. o \in Existing /\ created[o] \in Classes /\ Prototype(o) = Instances(created[o])
    BY <1>5 DEF ObjectsInv, CreatedInv
  <2>2. c \in Classes /\ ChainContains(Instances(created[o]), Instances(c))
    BY <1>4, <2>1
  <2>3. Prototype(o) # NULL
    BY <1>1, <1>2, <2>1
  <2>4. ChainContains(o, Instances(c))
    BY <2>1, <2>2, <2>3, ChainContainsIs
  <2> QED  BY <2>2, <2>4 DEF IsA, Instances
<1> QED  BY <1>5 DEF InstancesAreOfTheirClasses

-----------------------------------------------------------------------------
(***************************************************************************)
(* What the operations change                                              *)
(***************************************************************************)
\* What r keeps of the object p.
SameShape(r, p) ==
  /\ IsObject(r) /\ r.type = p.type /\ r.prototype = p.prototype
  /\ r.included_modules = p.included_modules /\ r.instance_prototype = p.instance_prototype

\* One field is assigned.
LEMMA ObjectWith ==
  ASSUME NEW p, IsObject(p), NEW s
  PROVE  /\ SameShape([p EXCEPT !.members = s], p)
         /\ SameShape([p EXCEPT !.property_data = s], p)
         /\ SameShape([p EXCEPT !.property_names = s], p)
         /\ SameShape([p EXCEPT !.assigned = s], p)
         /\ SameShape([p EXCEPT !.name = s], p)
BY DEF SameShape, IsObject

\* An object is written, in members, properties or its name.
LEMMA WritesKeep ==
  ASSUME ObjectsInv, NEW o \in Existing, NEW r, SameShape(r, objects[o]),
         objects' = [objects EXCEPT ![o] = r], created' = created
  PROVE  ObjectsInv'
<1>1. PICK T : objects \in Seq(T)
  BY DEF ObjectsInv, ObjectsExist
<1>2. /\ Len(objects) \in Nat /\ Existing = 1 .. Len(objects) /\ Len(objects) >= 4
      /\ \A p \in Existing : IsObject(objects[p]) /\ objects[p].type \in {"object", "class"}
  BY ObjectsAreASequence DEF ObjectsInv, ObjectsExist
<1>3. objects' \in Seq(T \cup {r}) /\ Len(objects') = Len(objects) /\ Existing' = Existing
  BY <1>1, <1>2 DEF Existing
<1>4. \A p \in Existing : SameShape(objects'[p], objects[p])
  BY <1>2 DEF SameShape, Existing
<1>5. Classes' = Classes
  BY <1>3, <1>4 DEF Classes, SameShape
<1>6. \A p \in Existing : Prototype(p)' = Prototype(p) /\ Modules(p)' = Modules(p)
                           /\ Instances(p)' = Instances(p)
  BY <1>4 DEF SameShape, Prototype, Modules, Instances
<1>7. ObjectsExist'
  BY <1>2, <1>3, <1>4 DEF ObjectsExist, SameShape
<1>8. PrototypesAreOlder'
  BY <1>3, <1>6 DEF ObjectsInv, PrototypesAreOlder
<1>9. ClassesHaveInstances'
  BY <1>3, <1>5, <1>6 DEF ObjectsInv, ClassesHaveInstances, Classes
<1>10. CreatedInv'
  <2>1. Classes \subseteq Existing /\ \A c \in Classes : Instances(c) \in Existing
    BY DEF ObjectsInv, ClassesHaveInstances, Classes
  <2> QED  BY <2>1, <1>3, <1>5, <1>6 DEF ObjectsInv, CreatedInv
<1>11. ModulesInv'
  BY <1>3, <1>6 DEF ObjectsInv, ModulesInv, Ranked
<1> QED  BY <1>7, <1>8, <1>9, <1>10, <1>11 DEF ObjectsInv

\* Objects are created, with prototypes that are older.
LEMMA CreationsKeep ==
  ASSUME ObjectsInv, NEW T, objects' \in Seq(T), Len(objects') >= Len(objects),
         \A o \in Existing : objects'[o] = objects[o],
         \A o \in Existing' \ Existing :
           /\ IsObject(objects'[o]) /\ objects'[o].type \in {"object", "class"}
           /\ objects'[o].prototype # NULL =>
                objects'[o].prototype \in Existing' /\ objects'[o].prototype < o
           /\ objects'[o].type = "class" => objects'[o].instance_prototype \in Existing'
           /\ objects'[o].included_modules = <<>>,
         CreatedInv'
  PROVE  ObjectsInv'
<1>1. /\ Len(objects) \in Nat /\ Existing = 1 .. Len(objects) /\ Len(objects) >= 4
      /\ \A p \in Existing : IsObject(objects[p]) /\ objects[p].type \in {"object", "class"}
  BY ObjectsAreASequence DEF ObjectsInv, ObjectsExist
<1>2. Len(objects') \in Nat /\ Existing' = 1 .. Len(objects') /\ Existing \subseteq Existing'
  BY <1>1 DEF Existing
<1>3. \A p \in Existing : Prototype(p)' = Prototype(p) /\ Modules(p)' = Modules(p)
                           /\ Instances(p)' = Instances(p)
  BY DEF Prototype, Modules, Instances
<1>4. ObjectsExist'
  BY <1>1, <1>2 DEF ObjectsExist
<1>5. PrototypesAreOlder'
  <2>1. ASSUME NEW o \in Existing', Prototype(o)' # NULL
        PROVE  Prototype(o)' \in Existing' /\ Age(Prototype(o)') < Age(o)
    <3>1. CASE o \in Existing
      BY <3>1, <1>2, <1>3, <2>1 DEF ObjectsInv, PrototypesAreOlder
    <3>2. CASE o \notin Existing
      BY <3>2, <1>1, <1>2, <2>1 DEF Prototype, Age, ClassPrototype
    <3> QED  BY <3>1, <3>2
  <2> QED  BY <2>1 DEF PrototypesAreOlder, Age
<1>6. ClassesHaveInstances'
  <2>1. ASSUME NEW c \in Classes' PROVE Instances(c)' \in Existing'
    <3>1. CASE c \in Existing
      BY <3>1, <1>2, <1>3 DEF ObjectsInv, ClassesHaveInstances, Classes
    <3>2. CASE c \notin Existing
      BY <3>2 DEF Instances, Classes
    <3> QED  BY <3>1, <3>2
  <2> QED  BY <2>1 DEF ClassesHaveInstances
<1>7. ModulesInv'
  <2>1. PICK rank \in [Existing -> Nat] : Ranked(rank)
    BY DEF ObjectsInv, ModulesInv
  <2> DEFINE next == [o \in Existing' |-> IF o \in Existing THEN rank[o] ELSE 0]
  <2>2. next \in [Existing' -> Nat] /\ \A o \in Existing : next[o] = rank[o]
    BY <1>2
  <2> HIDE DEF next
  <2>3. \A o \in Existing' : Modules(o)' \in Seq(Existing')
    <3>1. ASSUME NEW o \in Existing PROVE Modules(o)' \in Seq(Existing')
      <4>1. Modules(o) \in Seq(Existing) /\ Modules(o)' = Modules(o)
        BY <1>3 DEF ObjectsInv, ModulesInv
      <4> QED  BY <4>1, <1>2, LargerSequences
    <3>2. ASSUME NEW o \in Existing' \ Existing PROVE Modules(o)' \in Seq(Existing')
      <4>1. Modules(o)' = <<>>
        BY <3>2 DEF Modules
      <4> QED  BY <4>1, NoSequence
    <3> QED  BY <3>1, <3>2
  <2>4. ASSUME NEW o \in Existing', NEW k \in DOMAIN Modules(o)'
        PROVE  next[Modules(o)'[k]] < next[o]
    <3>1. o \in Existing
      BY <2>4 DEF Modules
    <3>2. Modules(o)' = Modules(o) /\ Modules(o) \in Seq(Existing)
      BY <3>1, <1>3 DEF ObjectsInv, ModulesInv
    <3> QED  BY <2>1, <2>2, <2>4, <3>1, <3>2 DEF Ranked
  <2> QED  BY <2>2, <2>3, <2>4 DEF ModulesInv, Ranked
<1> QED  BY <1>4, <1>5, <1>6, <1>7 DEF ObjectsInv

\* An object has other modules, and the ranks for it are there.
LEMMA ModulesKeep ==
  ASSUME ObjectsInv, NEW o \in Existing, NEW s \in Seq(Existing), NEW rank \in [Existing -> Nat],
         objects' = [objects EXCEPT ![o] = [objects[o] EXCEPT !.included_modules = s]],
         created' = created,
         \A p \in Existing \ {o} : \A k \in DOMAIN Modules(p) : rank[Modules(p)[k]] < rank[p],
         \A k \in DOMAIN s : rank[s[k]] < rank[o]
  PROVE  ObjectsInv'
<1> DEFINE r == [objects[o] EXCEPT !.included_modules = s]
<1>1. PICK T : objects \in Seq(T)
  BY DEF ObjectsInv, ObjectsExist
<1>2. /\ Len(objects) \in Nat /\ Existing = 1 .. Len(objects) /\ Len(objects) >= 4
      /\ \A p \in Existing : IsObject(objects[p]) /\ objects[p].type \in {"object", "class"}
  BY ObjectsAreASequence DEF ObjectsInv, ObjectsExist
<1>3. /\ IsObject(r) /\ r.type = objects[o].type /\ r.prototype = objects[o].prototype
      /\ r.instance_prototype = objects[o].instance_prototype /\ r.included_modules = s
  <2> DEFINE p == objects[o]
  <2>1. r = [p EXCEPT !.included_modules = s]
    OBVIOUS
  <2>2. IsObject(p)
    BY <1>2
  <2> HIDE DEF r, p
  <2>3. /\ IsObject(r) /\ r.type = p.type /\ r.prototype = p.prototype
        /\ r.instance_prototype = p.instance_prototype /\ r.included_modules = s
    BY <2>1, <2>2 DEF IsObject
  <2> QED  BY <2>3 DEF p
<1> HIDE DEF r
<1>4. objects' \in Seq(T \cup {r}) /\ Len(objects') = Len(objects) /\ Existing' = Existing
  BY <1>1, <1>2 DEF Existing, r
<1>5. objects'[o] = r /\ \A p \in Existing \ {o} : objects'[p] = objects[p]
  BY DEF Existing, r
<1>6. \A p \in Existing : /\ IsObject(objects'[p]) /\ objects'[p].type = objects[p].type
                           /\ Prototype(p)' = Prototype(p) /\ Instances(p)' = Instances(p)
  BY <1>2, <1>3, <1>5 DEF Prototype, Instances
<1>7. Classes' = Classes
  BY <1>4, <1>6 DEF Classes
<1>8. ObjectsExist'
  BY <1>2, <1>4, <1>6 DEF ObjectsExist
<1>9. PrototypesAreOlder'
  BY <1>4, <1>6 DEF ObjectsInv, PrototypesAreOlder
<1>10. ClassesHaveInstances'
  BY <1>4, <1>6, <1>7 DEF ObjectsInv, ClassesHaveInstances, Classes
<1>11. CreatedInv'
  <2>1. Classes \subseteq Existing /\ \A c \in Classes : Instances(c) \in Existing
    BY DEF ObjectsInv, ClassesHaveInstances, Classes
  <2> QED  BY <2>1, <1>4, <1>6, <1>7 DEF ObjectsInv, CreatedInv
<1>12. ModulesInv'
  <2>1. Modules(o)' = s /\ \A p \in Existing \ {o} : Modules(p)' = Modules(p)
    BY <1>3, <1>5 DEF Modules
  <2>2. \A p \in Existing : Modules(p)' \in Seq(Existing)
    BY <2>1 DEF ObjectsInv, ModulesInv
  <2>3. \A p \in Existing : \A k \in DOMAIN Modules(p)' : rank[Modules(p)'[k]] < rank[p]
    BY <2>1
  <2> QED  BY <1>4, <2>2, <2>3 DEF ModulesInv, Ranked
<1> QED  BY <1>8, <1>9, <1>10, <1>11, <1>12 DEF ObjectsInv

\* What reaches the object that includes a module is moved above the module.
LEMMA IncludeKeeps ==
  ASSUME ObjectsInv, NEW o \in Existing, NEW module \in Existing, Include(o, module)
  PROVE  ObjectsInv'
<1>1. PICK rank \in [Existing -> Nat] : Ranked(rank)
  BY DEF ObjectsInv, ModulesInv
<1> DEFINE reaching(x) == Reaches(Existing, {o}, Edges, x)
           s == Append(Modules(o), module)
           next == [x \in Existing |-> IF reaching(x) THEN rank[x] + rank[module] + 1 ELSE rank[x]]
<1>2. ~reaching(module) /\ reaching(o)
  BY IncludedIs, ReachesIs DEF Include, ObjectsInv
<1>3. ASSUME NEW p \in Existing, NEW k \in DOMAIN Modules(p)
      PROVE  next[Modules(p)[k]] < next[p]
  <2>1. Modules(p)[k] \in Existing /\ <<p, Modules(p)[k]>> \in Edges
    BY EdgesAre DEF ObjectsInv
  <2>2. rank[Modules(p)[k]] < rank[p]
    BY <1>1 DEF Ranked
  <2>3. reaching(Modules(p)[k]) => reaching(p)
    BY <2>1, ReachesIs
  <2>4. rank[Modules(p)[k]] \in Nat /\ rank[p] \in Nat /\ rank[module] \in Nat
    BY <2>1
  <2> HIDE DEF reaching
  <2> QED  BY <2>1, <2>2, <2>3, <2>4
<1>4. next \in [Existing -> Nat]
  <2> HIDE DEF reaching
  <2> QED  OBVIOUS
<1>5. next[module] < next[o]
  <2> HIDE DEF reaching
  <2>1. rank[o] \in Nat /\ rank[module] \in Nat
    OBVIOUS
  <2> QED  BY <1>2, <2>1
<1>6. Modules(o) \in Seq(Existing)
  BY DEF ObjectsInv, ModulesInv
<1>7. s \in Seq(Existing) /\ \A k \in DOMAIN s : s[k] = module \/ \E j \in DOMAIN Modules(o) : s[k] = Modules(o)[j]
  BY <1>6
<1>8. objects' = [objects EXCEPT ![o] = [objects[o] EXCEPT !.included_modules = s]]
  BY DEF Include, Modules
<1>9. created' = created
  BY DEF Include
<1> HIDE DEF next, s
<1>10. \A k \in DOMAIN s : next[s[k]] < next[o]
  BY <1>3, <1>5, <1>7
<1> QED  BY <1>3, <1>4, <1>7, <1>8, <1>9, <1>10, ModulesKeep

LEMMA ArrayFindIs ==
  ASSUME NEW S, NEW a \in Seq(S), NEW word, ArrayFind(a, word) >= 0
  PROVE  ArrayFind(a, word) + 1 \in DOMAIN a
<1>1. \E k \in DOMAIN a : a[k] = word
  BY DEF ArrayFind
<1> DEFINE Found == {k \in DOMAIN a : a[k] = word}
<1>2. PICK m \in Found : \A n \in Found : m <= n
  <2>1. Found \in SUBSET Nat /\ Found # {}
    BY <1>1
  <2> HIDE DEF Found
  <2> QED  BY <2>1, Least
<1>3. a[m] = word /\ \A j \in 1 .. m - 1 : a[j] # word
  BY <1>2
<1> QED  BY <1>1, <1>2, <1>3 DEF ArrayFind

LEMMA UnincludeKeeps ==
  ASSUME ObjectsInv, NEW o \in Existing, NEW module, Uninclude(o, module)
  PROVE  ObjectsInv'
<1>1. PICK rank \in [Existing -> Nat] : Ranked(rank)
  BY DEF ObjectsInv, ModulesInv
<1> DEFINE a == Modules(o)
           at == ArrayFind(a, module) + 1
           s == SubSeq(a, 1, at - 1) \o SubSeq(a, at + 1, Len(a))
<1>2. a \in Seq(Existing)
  BY DEF ObjectsInv, ModulesInv
<1>3. at \in 1 .. Len(a)
  BY <1>2, ArrayFindIs DEF Uninclude, Modules
<1>4. ArrayErase(a, ArrayFind(a, module)) = s
  BY DEF ArrayErase, RemoveAt, ArrayFind
<1> HIDE DEF at
<1>5. s \in Seq(Existing) /\ \A k \in DOMAIN s : \E j \in DOMAIN a : s[k] = a[j]
  <2> HIDE DEF a
  <2> DEFINE u == SubSeq(a, 1, at - 1)
             w == SubSeq(a, at + 1, Len(a))
  <2>1. u \in Seq(Existing) /\ Len(u) = at - 1 /\ \A k \in 1 .. at - 1 : u[k] = a[k]
    BY <1>2, <1>3
  <2>2. /\ w \in Seq(Existing) /\ Len(w) = Len(a) - at
        /\ \A k \in 1 .. Len(a) - at : w[k] = a[at + k]
    BY <1>2, <1>3
  <2> HIDE DEF u, w
  <2>3. u \o w \in Seq(Existing) /\ Len(u \o w) = Len(u) + Len(w)
    BY <2>1, <2>2, BothSequences
  <2>4. ASSUME NEW k \in DOMAIN (u \o w) PROVE \E j \in DOMAIN a : (u \o w)[k] = a[j]
    <3>1. at \in Nat /\ Len(a) \in Nat /\ DOMAIN a = 1 .. Len(a) /\ k \in 1 .. Len(u) + Len(w)
      BY <1>2, <1>3, <2>3
    <3>2. CASE k < at
      <4>1. (u \o w)[k] = u[k]
        BY <2>1, <2>2, <3>1, <3>2
      <4> QED  BY <1>3, <2>1, <3>1, <3>2, <4>1
    <3>3. CASE k >= at
      <4>1. (u \o w)[k] = w[k - Len(u)]
        BY <2>1, <2>2, <3>1, <3>3
      <4>2. k - Len(u) \in 1 .. Len(a) - at /\ at + (k - Len(u)) = k + 1 /\ k + 1 \in DOMAIN a
        BY <1>3, <2>1, <2>2, <3>1, <3>3
      <4> QED  BY <2>2, <4>1, <4>2
    <3> QED  BY <3>1, <3>2, <3>3
  <2>5. s = u \o w
    BY DEF u, w
  <2> QED  BY <2>3, <2>4, <2>5
<1>6. \A p \in Existing : \A k \in DOMAIN Modules(p) : rank[Modules(p)[k]] < rank[p]
  BY <1>1 DEF Ranked
<1>7. objects' = [objects EXCEPT ![o] = [objects[o] EXCEPT !.included_modules = s]]
  BY <1>4 DEF Uninclude, Modules
<1>8. created' = created
  BY DEF Uninclude
<1> HIDE DEF s
<1>9. \A k \in DOMAIN s : rank[s[k]] < rank[o]
  BY <1>5, <1>6
<1> QED  BY <1>5, <1>6, <1>7, <1>8, <1>9, ModulesKeep

-----------------------------------------------------------------------------
(***************************************************************************)
(* The operations                                                          *)
(***************************************************************************)
LEMMA AssignedWrites ==
  ASSUME ObjectsInv, NEW o \in Existing, NEW n, NEW word
  PROVE  \E r : SameShape(r, objects[o]) /\ AfterSet(o, n, word) = [objects EXCEPT ![o] = r]
<1> DEFINE p == objects[o]
<1>1. IsObject(p) /\ objects = [q \in Existing |-> objects[q]]
  BY ObjectsAreASequence DEF ObjectsInv, ObjectsExist
<1>2. CASE SetWithProperty(o, n).calls = <<SetName>>
  <2>1. AfterSet(o, n, word) = [objects EXCEPT ![o] = [p EXCEPT !.name = word]]
    BY <1>2 DEF AfterSet
  <2> HIDE DEF p
  <2>2. SameShape([p EXCEPT !.name = word], p)
    BY <1>1, ObjectWith
  <2> QED  BY <2>1, <2>2 DEF p
<1>3. CASE SetWithProperty(o, n).calls # <<SetName>> /\ HasAnswer(SetWithProperty(o, n))
  <2>1. AfterSet(o, n, word) = [objects EXCEPT ![o] = p]
    BY <1>1, <1>3 DEF AfterSet
  <2>2. SameShape(p, p)
    BY <1>1 DEF SameShape
  <2> QED  BY <2>1, <2>2
<1>4. CASE SetWithProperty(o, n).calls # <<SetName>> /\ ~HasAnswer(SetWithProperty(o, n))
  <2> DEFINE m == MapSet(p.members, n, word)
  <2>1. AfterSet(o, n, word) = [objects EXCEPT ![o] = [p EXCEPT !.members = m]]
    BY <1>4 DEF AfterSet
  <2> HIDE DEF p, m
  <2>2. SameShape([p EXCEPT !.members = m], p)
    BY <1>1, ObjectWith
  <2> QED  BY <2>1, <2>2 DEF p
<1> QED  BY <1>2, <1>3, <1>4

LEMMA SetMemberKeeps ==
  ASSUME ObjectsInv, NEW o \in Existing, NEW n, NEW word, SetMember(o, n, word)
  PROVE  ObjectsInv'
<1>1. PICK r : SameShape(r, objects[o]) /\ AfterSet(o, n, word) = [objects EXCEPT ![o] = r]
  BY AssignedWrites
<1> QED  BY <1>1, WritesKeep DEF SetMember

LEMMA AssignKeeps ==
  ASSUME ObjectsInv, NEW o \in Existing, NEW n, Assign(o, n)
  PROVE  ObjectsInv'
<1>1. PICK r : SameShape(r, objects[o]) /\ AfterSet(o, NameOf, n) = [objects EXCEPT ![o] = r]
  BY AssignedWrites
<1> DEFINE s == [r EXCEPT !.assigned = TRUE]
<1>2. objects' = [objects EXCEPT ![o] = s]
  BY <1>1 DEF Assign
<1>3. SameShape(s, r)
  BY <1>1, ObjectWith DEF SameShape
<1>4. SameShape(s, objects[o])
  <2> HIDE DEF s
  <2> QED  BY <1>1, <1>3 DEF SameShape
<1> HIDE DEF s
<1> QED  BY <1>2, <1>4, WritesKeep DEF Assign

LEMMA ResetKeeps ==
  ASSUME ObjectsInv, NEW o \in Existing, ResetAssignedName(o)
  PROVE  ObjectsInv'
<1> DEFINE p == objects[o]
           r == [p EXCEPT !.assigned = FALSE]
<1>1. IsObject(p)
  BY DEF ObjectsInv, ObjectsExist
<1>2. objects' = [objects EXCEPT ![o] = r]
  BY DEF ResetAssignedName
<1>3. SameShape(r, p)
  <2> HIDE DEF p
  <2> QED  BY <1>1, ObjectWith
<1> HIDE DEF r
<1> QED  BY <1>2, <1>3, WritesKeep DEF ResetAssignedName

LEMMA DefineKeeps ==
  ASSUME ObjectsInv, NEW o \in Existing, NEW n, NEW half, NEW f, Define(o, n, half, f)
  PROVE  ObjectsInv'
<1> DEFINE p == objects[o]
           known == ArrayFind(p.property_names, n)
           names == IF known >= 0 THEN p.property_names ELSE Append(p.property_names, n)
           found == IF known >= 0 THEN known ELSE Len(p.property_names)
           stored == ArraySet(p.property_data, 2 * found + half, f)
           q == [p EXCEPT !.property_names = names]
           r == [q EXCEPT !.property_data = stored]
<1>1. IsObject(p)
  BY DEF ObjectsInv, ObjectsExist
<1>2. objects' = [objects EXCEPT ![o] = r]
  BY <1>1 DEF Define, PropertyData, IsObject
<1>3. SameShape(q, p)
  <2> HIDE DEF p, names
  <2> QED  BY <1>1, ObjectWith
<1>4. SameShape(r, q)
  <2> HIDE DEF p, q, stored
  <2> QED  BY <1>3, ObjectWith DEF SameShape
<1>5. SameShape(r, p)
  <2> HIDE DEF p, q, r
  <2> QED  BY <1>3, <1>4 DEF SameShape
<1> HIDE DEF r
<1> QED  BY <1>2, <1>5, WritesKeep DEF Define

\* Nothing is written.
LEMMA AnswersKeep ==
  ASSUME ObjectsInv, objects' = objects, created' = created
  PROVE  ObjectsInv'
<1>1. 3 \in Existing /\ IsObject(objects[3]) /\ objects = [q \in Existing |-> objects[q]]
  BY ObjectsAreASequence DEF ObjectsInv, ObjectsExist
<1> QED  BY <1>1, WritesKeep DEF SameShape

LEMMA NewObjectIs ==
  ASSUME NEW p, NEW r, r = NewObject(p)
  PROVE  /\ IsObject(r) /\ r.type = "object" /\ r.prototype = p /\ r.included_modules = <<>>
         /\ DOMAIN r = {"type", "prototype", "members", "property_names", "property_data",
                        "included_modules", "assigned", "name", "instance_prototype"}
BY DEF NewObject, IsObject

LEMMA NewClassIs ==
  ASSUME NEW p, NEW n, NEW r, r = NewClass(n, p)
  PROVE  /\ IsObject(r) /\ r.type = "class" /\ r.prototype = ClassPrototype
         /\ r.included_modules = <<>> /\ r.instance_prototype = p
<1> DEFINE q == NewObject(ClassPrototype)
<1>1. IsObject(q) /\ q.prototype = ClassPrototype /\ q.included_modules = <<>>
  BY NewObjectIs
<1>2. r = [q EXCEPT !.type = "class", !.name = n, !.instance_prototype = p]
  BY DEF NewClass
<1> HIDE DEF q
<1> QED  BY <1>1, <1>2 DEF IsObject

LEMMA InstancesOfIs ==
  ASSUME NEW p, NEW c, NEW r, r = InstancesOf(c, p)
  PROVE  /\ IsObject(r) /\ r.type = "object" /\ r.prototype = p /\ r.included_modules = <<>>
<1> DEFINE q == NewObject(p)
           m == "class" :> c
<1>1. IsObject(q) /\ q.type = "object" /\ q.prototype = p /\ q.included_modules = <<>>
  BY NewObjectIs
<1>2. r = [q EXCEPT !.members = m]
  BY DEF InstancesOf
<1> HIDE DEF q, m
<1> QED  BY <1>1, <1>2 DEF IsObject

LEMMA CreateKeeps ==
  ASSUME ObjectsInv, NULL \notin Nat, NEW p \in Existing \cup {NULL}, Create(p)
  PROVE  ObjectsInv'
<1> DEFINE r == NewObject(p)
<1>1. PICK T : objects \in Seq(T)
  BY DEF ObjectsInv, ObjectsExist
<1>2. Len(objects) \in Nat /\ Existing = 1 .. Len(objects)
  BY ObjectsAreASequence DEF ObjectsInv
<1>3. IsObject(r) /\ r.type = "object" /\ r.prototype = p /\ r.included_modules = <<>>
  BY NewObjectIs
<1>4. objects' = Append(objects, r) /\ created' = created
  BY DEF Create
<1> HIDE DEF r
<1>5. /\ objects' \in Seq(T \cup {r}) /\ Len(objects') = Len(objects) + 1
      /\ \A o \in Existing : objects'[o] = objects[o]
      /\ objects'[Len(objects) + 1] = r
  BY <1>1, <1>2, <1>4
<1>6. Existing' = 1 .. Len(objects) + 1 /\ Existing' \ Existing = {Len(objects) + 1}
  BY <1>2, <1>5 DEF Existing
<1>7. \A o \in Existing' \ Existing :
        /\ IsObject(objects'[o]) /\ objects'[o].type \in {"object", "class"}
        /\ objects'[o].prototype # NULL =>
             objects'[o].prototype \in Existing' /\ objects'[o].prototype < o
        /\ objects'[o].type = "class" => objects'[o].instance_prototype \in Existing'
        /\ objects'[o].included_modules = <<>>
  BY <1>2, <1>3, <1>5, <1>6
<1>8. Classes' = Classes
  BY <1>2, <1>3, <1>5, <1>6 DEF Classes
<1>9. CreatedInv'
  <2>1. /\ Classes \subseteq Existing
        /\ \A c \in Classes : Instances(c) \in Existing /\ Instances(c)' = Instances(c)
        /\ \A o \in Existing : Prototype(o)' = Prototype(o)
    BY <1>5 DEF ObjectsInv, ClassesHaveInstances, Classes, Instances, Prototype
  <2>2. Existing \subseteq Existing'
    BY <1>2, <1>6
  <2> QED  BY <1>4, <1>8, <2>1, <2>2 DEF ObjectsInv, CreatedInv
<1>10. Len(objects') >= Len(objects)
  BY <1>2, <1>5
<1> QED  BY <1>5, <1>7, <1>9, <1>10, CreationsKeep

LEMMA CreateInstanceKeeps ==
  ASSUME ObjectsInv, NEW class \in Classes, CreateInstance(class)
  PROVE  ObjectsInv'
<1> DEFINE p == objects[class].instance_prototype
           r == NewObject(p)
           o == Len(objects) + 1
<1>1. PICK T : objects \in Seq(T)
  BY DEF ObjectsInv, ObjectsExist
<1>2. Len(objects) \in Nat /\ Existing = 1 .. Len(objects)
  BY ObjectsAreASequence DEF ObjectsInv
<1>3. IsObject(r) /\ r.type = "object" /\ r.prototype = p /\ r.included_modules = <<>>
  BY NewObjectIs
<1>4. objects' = Append(objects, r) /\ created' = MapSet(created, o, class)
  BY DEF CreateInstance
<1>5. p \in Existing /\ p = Instances(class)
  BY DEF ObjectsInv, ClassesHaveInstances, Instances
<1> HIDE DEF r, p
<1>6. /\ objects' \in Seq(T \cup {r}) /\ Len(objects') = Len(objects) + 1
      /\ \A q \in Existing : objects'[q] = objects[q]
      /\ objects'[o] = r
  BY <1>1, <1>2, <1>4
<1>7. Existing' = 1 .. Len(objects) + 1 /\ Existing' \ Existing = {o} /\ Existing \subseteq Existing'
  BY <1>2, <1>6 DEF Existing
<1>8. \A q \in Existing' \ Existing :
        /\ IsObject(objects'[q]) /\ objects'[q].type \in {"object", "class"}
        /\ objects'[q].prototype # NULL =>
             objects'[q].prototype \in Existing' /\ objects'[q].prototype < q
        /\ objects'[q].type = "class" => objects'[q].instance_prototype \in Existing'
        /\ objects'[q].included_modules = <<>>
  BY <1>2, <1>3, <1>5, <1>6, <1>7
<1>9. Classes' = Classes
  BY <1>2, <1>3, <1>6, <1>7 DEF Classes
<1>10. CreatedInv'
  <2>1. /\ Classes \subseteq Existing
        /\ \A c \in Classes : Instances(c) \in Existing /\ Instances(c)' = Instances(c)
        /\ \A q \in Existing : Prototype(q)' = Prototype(q)
    BY <1>6 DEF ObjectsInv, ClassesHaveInstances, Classes, Instances, Prototype
  <2>2. DOMAIN created \subseteq Existing /\ o \notin Existing
    BY <1>2 DEF ObjectsInv, CreatedInv
  <2>3. /\ DOMAIN created' = DOMAIN created \cup {o} /\ created'[o] = class
        /\ \A q \in DOMAIN created : created'[q] = created[q]
    <3> HIDE DEF o
    <3>1. o \notin DOMAIN created
      BY <2>2
    <3> QED  BY <1>4, <3>1 DEF MapSet
  <2>4. objects'[o].prototype = objects'[class].instance_prototype /\ o \notin Classes
    BY <1>3, <1>5, <1>6, <2>1, <2>2 DEF Instances
  <2>5. ASSUME NEW q \in DOMAIN created', q \in Classes', created'[q] # NULL
        PROVE  /\ created'[q] \in Classes' /\ created'[q] < q
               /\ Prototype(Instances(q))' = Instances(created[q])'
    <3>1. q \in DOMAIN created /\ created'[q] = created[q]
      BY <2>3, <2>4, <2>5, <1>9
    <3> QED  BY <1>9, <2>1, <2>5, <3>1 DEF ObjectsInv, CreatedInv
  <2>6. ASSUME NEW q \in DOMAIN created', q \notin Classes'
        PROVE  created'[q] \in Classes' /\ Prototype(q)' = Instances(created[q])'
    <3>1. CASE q = o
      BY <3>1, <1>9, <2>3, <2>4 DEF Instances, Prototype
    <3>2. CASE q # o
      <4>1. q \in DOMAIN created /\ created'[q] = created[q]
        BY <2>3, <3>2
      <4> QED  BY <1>9, <2>1, <2>2, <2>6, <4>1 DEF ObjectsInv, CreatedInv
    <3> QED  BY <3>1, <3>2
  <2>7. DOMAIN created' \subseteq Existing'
    BY <1>7, <2>2, <2>3
  <2> QED  BY <2>5, <2>6, <2>7 DEF CreatedInv
<1>11. Len(objects') >= Len(objects)
  BY <1>2, <1>6
<1> QED  BY <1>6, <1>8, <1>10, <1>11, CreationsKeep

LEMMA CreateClassKeeps ==
  ASSUME ObjectsInv, NULL \notin Nat, NEW superclass \in Classes \cup {NULL}, CreateClass(superclass)
  PROVE  ObjectsInv'
<1> DEFINE o == Len(objects) + 1
           p == IF superclass = NULL THEN NULL ELSE objects[superclass].instance_prototype
           r == NewClass(NoEntry, o + 1)
           s == InstancesOf(o, p)
<1>1. PICK T : objects \in Seq(T)
  BY DEF ObjectsInv, ObjectsExist
<1>2. Len(objects) \in Nat /\ Existing = 1 .. Len(objects) /\ Len(objects) >= 4
  BY ObjectsAreASequence DEF ObjectsInv, ObjectsExist
<1>3. /\ IsObject(r) /\ r.type = "class" /\ r.prototype = ClassPrototype
      /\ r.included_modules = <<>> /\ r.instance_prototype = o + 1
  BY NewClassIs
<1>4. IsObject(s) /\ s.type = "object" /\ s.prototype = p /\ s.included_modules = <<>>
  BY InstancesOfIs
<1>5. objects' = objects \o <<r, s>> /\ created' = MapSet(created, o, superclass)
  BY DEF CreateClass, InstancePrototype
<1>6. p # NULL => p \in Existing /\ superclass \in Classes /\ p = Instances(superclass)
  BY DEF ObjectsInv, ClassesHaveInstances, Instances
<1>7. superclass # NULL => superclass \in Classes /\ p = Instances(superclass)
  BY DEF Instances
<1> HIDE DEF p, r, s
<1>8. /\ objects' \in Seq(T \cup {r, s}) /\ Len(objects') = Len(objects) + 2
      /\ \A q \in Existing : objects'[q] = objects[q]
      /\ objects'[o] = r /\ objects'[o + 1] = s
  BY <1>1, <1>2, <1>5
<1>9. /\ Existing' = 1 .. Len(objects) + 2 /\ Existing' \ Existing = {o, o + 1}
      /\ Existing \subseteq Existing' /\ {o, o + 1} \subseteq Existing'
  BY <1>2, <1>8 DEF Existing
<1>10. \A q \in Existing' \ Existing :
         /\ IsObject(objects'[q]) /\ objects'[q].type \in {"object", "class"}
         /\ objects'[q].prototype # NULL =>
              objects'[q].prototype \in Existing' /\ objects'[q].prototype < q
         /\ objects'[q].type = "class" => objects'[q].instance_prototype \in Existing'
         /\ objects'[q].included_modules = <<>>
  <2>1. ClassPrototype \in Existing' /\ ClassPrototype < o
    BY <1>2, <1>9 DEF ClassPrototype
  <2>2. p # NULL => p \in Existing' /\ p < o + 1
    BY <1>2, <1>6, <1>9
  <2>3. o # o + 1
    BY <1>2
  <2> HIDE DEF o
  <2> QED  BY <1>3, <1>4, <1>8, <1>9, <2>1, <2>2, <2>3
<1>11. Classes' = Classes \cup {o}
  <2>1. \A q \in Existing : q \in Classes' <=> q \in Classes
    BY <1>8, <1>9 DEF Classes
  <2>2. o \in Classes' /\ o + 1 \notin Classes'
    BY <1>3, <1>4, <1>8, <1>9 DEF Classes
  <2>3. Classes \subseteq Existing /\ Classes' \subseteq Existing'
    BY DEF Classes
  <2> HIDE DEF o
  <2> QED  BY <1>9, <2>1, <2>2, <2>3
<1>12. CreatedInv'
  <2>1. /\ Classes \subseteq Existing
        /\ \A c \in Classes : Instances(c) \in Existing /\ Instances(c)' = Instances(c)
        /\ \A q \in Existing : Prototype(q)' = Prototype(q)
    BY <1>8 DEF ObjectsInv, ClassesHaveInstances, Classes, Instances, Prototype
  <2>2. DOMAIN created \subseteq Existing /\ o \notin Existing
    BY <1>2 DEF ObjectsInv, CreatedInv
  <2>3. /\ DOMAIN created' = DOMAIN created \cup {o} /\ created'[o] = superclass
        /\ \A q \in DOMAIN created : created'[q] = created[q]
    <3> HIDE DEF o
    <3>1. o \notin DOMAIN created
      BY <2>2
    <3> QED  BY <1>5, <3>1 DEF MapSet
  <2>4. objects'[o].instance_prototype = o + 1 /\ objects'[o + 1].prototype = p
    BY <1>3, <1>4, <1>8
  <2>5. ASSUME NEW q \in DOMAIN created', q \in Classes', created'[q] # NULL
        PROVE  /\ created'[q] \in Classes' /\ created'[q] < q
               /\ Prototype(Instances(q))' = Instances(created[q])'
    <3>1. CASE q = o
      <4>1. superclass \in Classes /\ p = Instances(superclass) /\ superclass < o
        BY <1>2, <1>7, <2>1, <2>3, <2>5, <3>1
      <4>2. objects'[objects'[o].instance_prototype].prototype = p
        BY <2>4
      <4>3. objects'[created'[o]].instance_prototype = objects[superclass].instance_prototype
        BY <2>1, <2>3, <4>1 DEF Instances
      <4>4. Prototype(Instances(q))' = Instances(created[q])'
        BY <3>1, <4>1, <4>2, <4>3 DEF Prototype, Instances
      <4> QED  BY <1>11, <2>3, <3>1, <4>1, <4>4
    <3>2. CASE q # o
      <4>1. q \in DOMAIN created /\ created'[q] = created[q] /\ q \in Classes
        BY <1>11, <2>3, <2>5, <3>2
      <4>2. /\ created[q] \in Classes /\ created[q] < q
            /\ Prototype(Instances(q)) = Instances(created[q])
        BY <2>5, <4>1 DEF ObjectsInv, CreatedInv
      <4>3. Prototype(Instances(q))' = Prototype(Instances(q))
        BY <2>1, <4>1 DEF Prototype, Instances
      <4>4. Instances(created[q])' = Instances(created[q])
        BY <2>1, <4>1, <4>2 DEF Instances
      <4> QED  BY <1>11, <4>1, <4>2, <4>3, <4>4
    <3> QED  BY <3>1, <3>2
  <2>6. ASSUME NEW q \in DOMAIN created', q \notin Classes'
        PROVE  created'[q] \in Classes' /\ Prototype(q)' = Instances(created[q])'
    <3>1. q \in DOMAIN created /\ created'[q] = created[q] /\ q \notin Classes /\ q \in Existing
      BY <1>11, <2>2, <2>3, <2>6
    <3>2. created[q] \in Classes /\ Prototype(q) = Instances(created[q])
      BY <3>1 DEF ObjectsInv, CreatedInv
    <3>3. Instances(created[q])' = Instances(created[q])
      BY <2>1, <3>1, <3>2 DEF Instances
    <3> QED  BY <1>11, <2>1, <3>1, <3>2, <3>3
  <2>7. DOMAIN created' \subseteq Existing'
    BY <1>9, <2>2, <2>3
  <2> QED  BY <2>5, <2>6, <2>7 DEF CreatedInv
<1>13. Len(objects') >= Len(objects)
  BY <1>2, <1>8
<1> QED  BY <1>8, <1>10, <1>12, <1>13, CreationsKeep

-----------------------------------------------------------------------------
LEMMA ObjectsInvInit == ASSUME ProgramsAreOrdered, ObjectsInit PROVE ObjectsInv
<1> DEFINE P == program.prototypes
           c1 == NewClass("Class", ClassPrototype)
           c2 == [InstancesOf(Class, NULL) EXCEPT
                    !.property_names = <<NameOf>>, !.property_data = <<GetName, SetName>>]
           c3 == NewClass("Object", ObjectPrototype)
           c4 == InstancesOf(Object, NULL)
           more == [k \in DOMAIN P |-> NewObject(P[k])]
           T == {c1, c2, c3, c4} \cup {more[k] : k \in DOMAIN P}
<1>1. /\ P \in Seq(Nat \cup {NULL}) /\ NULL \notin Nat
      /\ \A k \in DOMAIN P : P[k] \in (1 .. 3 + k) \cup {NULL}
  BY DEF ProgramsAreOrdered, ObjectsInit
<1>2. objects = <<c1, c2, c3, c4>> \o more
  BY DEF ObjectsInit
<1>3. /\ \A c \in {c1, c3} : /\ IsObject(c) /\ c.type = "class" /\ c.prototype = ClassPrototype
                             /\ c.included_modules = <<>>
      /\ c1.instance_prototype = ClassPrototype /\ c3.instance_prototype = ObjectPrototype
  <2> HIDE DEF c1, c3
  <2>1. c1 = NewClass("Class", ClassPrototype) /\ c3 = NewClass("Object", ObjectPrototype)
    BY DEF c1, c3
  <2> QED  BY <2>1, NewClassIs
<1>4. IsObject(c4) /\ c4.type = "object" /\ c4.prototype = NULL /\ c4.included_modules = <<>>
  BY InstancesOfIs
<1>5. IsObject(c2) /\ c2.type = "object" /\ c2.prototype = NULL /\ c2.included_modules = <<>>
  <2> DEFINE c == InstancesOf(Class, NULL)
             d == [c EXCEPT !.property_names = <<NameOf>>]
             e == <<GetName, SetName>>
  <2>1. IsObject(c) /\ c.type = "object" /\ c.prototype = NULL /\ c.included_modules = <<>>
    BY InstancesOfIs
  <2>2. SameShape(d, c)
    <3> HIDE DEF c
    <3> QED  BY <2>1, ObjectWith
  <2>3. SameShape([d EXCEPT !.property_data = e], d)
    <3> HIDE DEF d, e
    <3> QED  BY <2>2, ObjectWith DEF SameShape
  <2>4. c2 = [d EXCEPT !.property_data = e]
    <3>1. IsObject(c)
      BY <2>1
    <3> HIDE DEF c, e
    <3>2. c2 = [c EXCEPT !.property_names = <<NameOf>>, !.property_data = e]
      BY DEF c, e
    <3> HIDE DEF c2
    <3> QED  BY <3>1, <3>2
  <2> HIDE DEF c2, c, d, e
  <2> QED  BY <2>1, <2>2, <2>3, <2>4 DEF SameShape
<1>6. \A k \in DOMAIN P : /\ IsObject(more[k]) /\ more[k].type = "object" /\ more[k].prototype = P[k]
                          /\ more[k].included_modules = <<>>
  BY NewObjectIs
<1>7. more \in Seq(T) /\ Len(more) = Len(P) /\ Len(P) \in Nat /\ DOMAIN P = 1 .. Len(P)
  <2> HIDE DEF c1, c2, c3, c4
  <2>1. Len(P) \in Nat /\ DOMAIN P = 1 .. Len(P)
    BY <1>1
  <2>2. more \in [1 .. Len(P) -> T]
    BY <2>1
  <2> HIDE DEF more, T
  <2> QED  BY <2>1, <2>2
<1>8. c1 \in T /\ c2 \in T /\ c3 \in T /\ c4 \in T
  OBVIOUS
<1> HIDE DEF P, c1, c2, c3, c4, more, T
<1>9. <<c1, c2, c3, c4>> \in Seq(T) /\ Len(<<c1, c2, c3, c4>>) = 4
  BY <1>8
<1>10. /\ objects \in Seq(T) /\ Len(objects) = 4 + Len(P)
       /\ objects[1] = c1 /\ objects[2] = c2 /\ objects[3] = c3 /\ objects[4] = c4
       /\ \A k \in 1 .. Len(P) : objects[4 + k] = more[k]
  <2>1. DOMAIN <<c1, c2, c3, c4>> = 1 .. 4
    OBVIOUS
  <2>2. objects \in Seq(T) /\ Len(objects) = 4 + Len(P)
    BY <1>2, <1>7, <1>9, BothSequences
  <2>3. objects[1] = c1 /\ objects[2] = c2 /\ objects[3] = c3 /\ objects[4] = c4
    BY <1>2, <1>7, <1>9, <2>1
  <2>4. \A k \in 1 .. Len(P) : objects[4 + k] = more[k]
    BY <1>2, <1>7, <1>9
  <2> QED  BY <2>2, <2>3, <2>4
<1>11. Existing = 1 .. 4 + Len(P)
  BY <1>7, <1>10 DEF Existing
<1>12. \A o \in Existing : o \in 1 .. 4 \/ \E k \in 1 .. Len(P) : o = 4 + k
  <2>1. \A o \in Existing : o \in 1 .. 4 \/ (o - 4 \in 1 .. Len(P) /\ o = 4 + (o - 4))
    BY <1>7, <1>11
  <2> QED  BY <2>1
<1>13. ASSUME NEW o \in Existing
       PROVE  /\ IsObject(objects[o]) /\ objects[o].type \in {"object", "class"}
              /\ objects[o].included_modules = <<>>
              /\ Prototype(o) # NULL => Prototype(o) \in Existing /\ Age(Prototype(o)) < Age(o)
              /\ objects[o].type = "class" => Instances(o) \in Existing
  <2>1. CASE o \in {1, 3}
    BY <2>1, <1>3, <1>7, <1>10, <1>11 DEF Prototype, Instances, Age, ClassPrototype, ObjectPrototype
  <2>2. CASE o \in {2, 4}
    BY <2>2, <1>4, <1>5, <1>10 DEF Prototype
  <2>3. CASE \E k \in 1 .. Len(P) : o = 4 + k
    <3>1. PICK k \in 1 .. Len(P) : o = 4 + k
      BY <2>3
    <3>2. objects[o] = more[k] /\ k \in DOMAIN P
      BY <1>7, <1>10, <3>1
    <3>3. P[k] # NULL => P[k] \in 1 .. 3 + k
      BY <1>1, <3>2
    <3> QED  BY <1>6, <1>7, <1>11, <3>1, <3>2, <3>3 DEF Prototype, Age, ClassPrototype
  <2> QED  BY <1>12, <2>1, <2>2, <2>3
<1>14. ModulesInv
  <2>1. [o \in Existing |-> 0] \in [Existing -> Nat]
    OBVIOUS
  <2>2. \A o \in Existing : Modules(o) = <<>>
    BY <1>13 DEF Modules
  <2>3. Ranked([o \in Existing |-> 0])
    BY <2>2 DEF Ranked
  <2> QED  BY <2>1, <2>2, <2>3, NoSequence DEF ModulesInv
<1>15. created = <<>>
  BY DEF ObjectsInit
<1>16. CreatedInv
  BY <1>15 DEF CreatedInv
<1>17. ObjectsExist
  BY <1>7, <1>10, <1>13 DEF ObjectsExist
<1> QED  BY <1>13, <1>14, <1>16, <1>17
         DEF ObjectsInv, PrototypesAreOlder, ClassesHaveInstances, Classes

LEMMA ObjectsInvNext ==
  ASSUME NULL \notin Nat, ObjectsInv, [ObjectsNext]_object_vars
  PROVE  ObjectsInv'
<1>1. Targets \subseteq Existing /\ Classes \subseteq Existing
  BY DEF Targets, Classes
<1>2. ASSUME NEW p \in Targets \cup {NULL}, Create(p) PROVE ObjectsInv'
  BY <1>1, <1>2, CreateKeeps
<1>3. ASSUME NEW o \in Targets, NEW n \in program.names, Get(o, n) \/ GetWithFallback(o, n)
      PROVE  ObjectsInv'
  BY <1>3, AnswersKeep DEF Get, GetWithFallback
<1>4. ASSUME NEW o \in Targets, NEW n, NEW word, SetMember(o, n, word) PROVE ObjectsInv'
  BY <1>1, <1>4, SetMemberKeeps
<1>5. ASSUME NEW o \in Targets, NEW n, NEW half, NEW f, Define(o, n, half, f) PROVE ObjectsInv'
  BY <1>1, <1>5, DefineKeeps
<1>6. ASSUME NEW o \in Targets, NEW m \in Targets, Include(o, m) \/ Uninclude(o, m)
      PROVE  ObjectsInv'
  BY <1>1, <1>6, IncludeKeeps, UnincludeKeeps
<1>7. ASSUME NEW c \in (Classes \ {Class}) \cup {NULL}, CreateClass(c) PROVE ObjectsInv'
  BY <1>7, CreateClassKeeps
<1>8. ASSUME NEW c \in Classes, CreateInstance(c) PROVE ObjectsInv'
  BY <1>8, CreateInstanceKeeps
<1>9. ASSUME NEW o \in Targets, ResetAssignedName(o) PROVE ObjectsInv'
  BY <1>1, <1>9, ResetKeeps
<1>10. ASSUME NEW o \in Targets, NEW n, Assign(o, n) PROVE ObjectsInv'
  BY <1>1, <1>10, AssignKeeps
<1>11. CASE UNCHANGED object_vars
  BY <1>11, AnswersKeep DEF object_vars
<1> QED  BY <1>2, <1>3, <1>4, <1>5, <1>6, <1>7, <1>8, <1>9, <1>10, <1>11 DEF ObjectsNext

\* No object includes itself, whatever was included and unincluded before: the
\* one check of snow_object_include is enough, and lookups end.
THEOREM IncludesStayAcyclic == ObjectsSpec => []IncludesAreAcyclic
<1>1. ObjectsInit => ObjectsInv
  BY ObjectsInvInit, ObjectsAssumption
<1>2. ObjectsInv /\ [ObjectsNext]_object_vars => ObjectsInv'
  BY ObjectsInvNext, ObjectsAssumption DEF ProgramsAreOrdered
<1>3. ObjectsInv => IncludesAreAcyclic
  BY AcyclicEnough DEF ObjectsInv
<1> QED  BY <1>1, <1>2, <1>3, PTL DEF ObjectsSpec

\* is_a? finds the class that made an instance and every class that one was
\* derived from: class_new and class_new_class chain the prototypes so.
THEOREM InstancesStayOfTheirClasses == ObjectsSpec => []InstancesAreOfTheirClasses
<1>1. ObjectsInit => ObjectsInv
  BY ObjectsInvInit, ObjectsAssumption
<1>2. ObjectsInv /\ [ObjectsNext]_object_vars => ObjectsInv'
  BY ObjectsInvNext, ObjectsAssumption DEF ProgramsAreOrdered
<1>3. ObjectsInv => InstancesAreOfTheirClasses
  BY InstancesEnough, ObjectsAssumption DEF ProgramsAreOrdered
<1> QED  BY <1>1, <1>2, <1>3, PTL DEF ObjectsSpec

-----------------------------------------------------------------------------
(***************************************************************************)
(* Answers                                                                 *)
(***************************************************************************)
Answers(V) == [value : V, calls : Seq(Functions)]

LEMMA ThenIs ==
  ASSUME NEW V, NULL \in V
  PROVE  /\ Nothing \in Answers(V)
         /\ \A a, b \in Answers(V) : Then(a, b) \in Answers(V)
         /\ \A a \in Answers(V) : Then(Nothing, a) = a /\ Then(a, Nothing) = a
         /\ \A a, b, c \in Answers(V) : Then(Then(a, b), c) = Then(a, Then(b, c))
<1>1. Nothing \in Answers(V)
  BY DEF Nothing, Answers
<1>2. ASSUME NEW a \in Answers(V), NEW b \in Answers(V) PROVE Then(a, b) \in Answers(V)
  BY DEF Then, Answers
<1>3. ASSUME NEW a \in Answers(V) PROVE Then(Nothing, a) = a /\ Then(a, Nothing) = a
  <2>1. /\ a.value \in V /\ a.calls \in Seq(Functions)
        /\ a = [value |-> a.value, calls |-> a.calls]
    BY DEF Answers
  <2>2. <<>> \o a.calls = a.calls /\ a.calls \o <<>> = a.calls
    BY <2>1
  <2>3. Then(Nothing, a) = a
    BY <2>1, <2>2 DEF Then, Nothing, HasAnswer
  <2>4. Then(a, Nothing) = a
    BY <2>1, <2>2 DEF Then, Nothing, HasAnswer
  <2> QED  BY <2>3, <2>4
<1>4. ASSUME NEW a \in Answers(V), NEW b \in Answers(V), NEW c \in Answers(V)
      PROVE  Then(Then(a, b), c) = Then(a, Then(b, c))
  <2>1. a.calls \in Seq(Functions) /\ b.calls \in Seq(Functions) /\ c.calls \in Seq(Functions)
    BY DEF Answers
  <2>2. (a.calls \o b.calls) \o c.calls = a.calls \o (b.calls \o c.calls)
    <3>1. \A u, v, w \in Seq(Functions) : (u \o v) \o w = u \o (v \o w)
      BY Associative
    <3> QED  BY <2>1, <3>1
  <2> QED  BY <2>2 DEF Then, HasAnswer
<1> QED  BY <1>1, <1>2, <1>3, <1>4

LEMMA FirstAnswerIs ==
  ASSUME NEW V, NULL \in V, NEW s \in Seq(Answers(V))
  PROVE  \E g \in [0 .. Len(s) -> Answers(V)] :
           /\ g[0] = Nothing /\ FirstAnswer(s) = g[Len(s)]
           /\ \A k \in 1 .. Len(s) : g[k] = Then(g[k - 1], s[k])
<1> DEFINE A == Answers(V)
           N == Len(s)
           step == [k \in 1 .. N |-> [a \in A |-> Then(a, s[k])]]
<1>1. N \in Nat /\ \A k \in 1 .. N : s[k] \in A
  OBVIOUS
<1>2. Nothing \in A /\ \A a, b \in A : Then(a, b) \in A
  BY ThenIs
<1> HIDE DEF A
<1>3. step \in [1 .. N -> [A -> A]]
  BY <1>1, <1>2
<1>4. \A k \in 1 .. N, a \in A : step[k][a] = Then(a, s[k])
  OBVIOUS
<1> HIDE DEF step
<1>5. \E g \in [0 .. N -> A] : g[0] = Nothing /\ \A k \in 1 .. N : g[k] = step[k][g[k - 1]]
  <2> HIDE DEF N
  <2>1. Folds(A, N)
    BY <1>1, Iterated
  <2> QED  BY <1>2, <1>3, <2>1 DEF Folds
<1>6. PICK g \in [0 .. N -> A] : g[0] = Nothing /\ \A k \in 1 .. N : g[k] = step[k][g[k - 1]]
  BY <1>5
<1> DEFINE F(f) == [k \in 0 .. Len(s) |-> IF k = 0 THEN Nothing ELSE Then(f[k - 1], s[k])]
           first == CHOOSE f : f = F(f)
<1>7. ASSUME NEW k \in 1 .. N PROVE g[k] = Then(g[k - 1], s[k])
  <2>1. k - 1 \in 0 .. N
    BY <1>1
  <2>2. g[k - 1] \in A
    BY <1>6, <2>1
  <2> QED  BY <1>4, <1>6, <2>2
<1>8. g = F(g)
  <2>1. ASSUME NEW k \in 0 .. N PROVE g[k] = F(g)[k]
    BY <1>6, <1>7, <1>1
  <2>2. g = [k \in 0 .. N |-> g[k]] /\ F(g) = [k \in 0 .. N |-> F(g)[k]]
    BY <1>6
  <2> HIDE DEF F
  <2> QED  BY <2>1, <2>2
<1>9. first = F(first)
  <2> HIDE DEF F
  <2> QED  BY <1>8
<1>10. FirstAnswer(s) = first[N]
  BY DEF FirstAnswer
<1> HIDE DEF first
<1>11. first[0] = Nothing /\ \A k \in 1 .. N : first[k] = Then(first[k - 1], s[k])
  BY <1>9, <1>1
<1>12. \A k \in 0 .. N : first[k] = g[k]
  <2> DEFINE P == {k \in 0 .. N : first[k] = g[k]}
  <2>1. 0 \in P
    BY <1>1, <1>6, <1>11
  <2>2. \A k \in 1 .. N : k - 1 \in P => k \in P
    BY <1>1, <1>7, <1>11
  <2>3. \A k \in 0 .. N : k \in P
    <3> HIDE DEF P
    <3> QED  BY <1>1, <2>1, <2>2, UpTo
  <2> QED  BY <2>3
<1>13. FirstAnswer(s) = g[N]
  BY <1>1, <1>10, <1>12
<1> QED  BY <1>6, <1>7, <1>13 DEF A

LEMMA FirstAnswerTyped ==
  ASSUME NEW V, NULL \in V
  PROVE  FirstAnswer(<<>>) = Nothing /\ \A s \in Seq(Answers(V)) : FirstAnswer(s) \in Answers(V)
<1>1. ASSUME NEW s \in Seq(Answers(V)) PROVE FirstAnswer(s) \in Answers(V)
  <2>1. PICK g \in [0 .. Len(s) -> Answers(V)] : FirstAnswer(s) = g[Len(s)]
    BY FirstAnswerIs
  <2>2. Len(s) \in 0 .. Len(s)
    OBVIOUS
  <2> QED  BY <2>1, <2>2
<1>2. FirstAnswer(<<>>) = Nothing
  <2>1. <<>> \in Seq(Answers(V)) /\ Len(<<>>) = 0
    BY NoSequence
  <2>2. PICK e \in [0 .. 0 -> Answers(V)] : e[0] = Nothing /\ FirstAnswer(<<>>) = e[0]
    BY <2>1, FirstAnswerIs
  <2> QED  BY <2>2
<1> QED  BY <1>1, <1>2

LEMMA FirstAnswerMore ==
  ASSUME NEW V, NULL \in V, NEW s \in Seq(Answers(V)), NEW a \in Answers(V)
  PROVE  FirstAnswer(Append(s, a)) = Then(FirstAnswer(s), a)
<1> DEFINE A == Answers(V)
           N == Len(s)
           t == Append(s, a)
<1>1. N \in Nat
  OBVIOUS
<1>2. /\ t \in Seq(A) /\ Len(t) = N + 1 /\ t[N + 1] = a /\ \A k \in 1 .. N : t[k] = s[k]
  <2> HIDE DEF A
  <2> QED  BY Appended DEF A
<1> HIDE DEF t
<1>3. PICK g \in [0 .. N -> A] :
        /\ g[0] = Nothing /\ FirstAnswer(s) = g[N]
        /\ \A k \in 1 .. N : g[k] = Then(g[k - 1], s[k])
  BY FirstAnswerIs
<1>4. PICK h \in [0 .. N + 1 -> A] :
        /\ h[0] = Nothing /\ FirstAnswer(t) = h[N + 1]
        /\ \A k \in 1 .. N + 1 : h[k] = Then(h[k - 1], t[k])
  <2>1. t \in Seq(Answers(V))
    BY <1>2
  <2>2. PICK h \in [0 .. Len(t) -> A] :
          /\ h[0] = Nothing /\ FirstAnswer(t) = h[Len(t)]
          /\ \A k \in 1 .. Len(t) : h[k] = Then(h[k - 1], t[k])
    BY <2>1, FirstAnswerIs
  <2> QED  BY <1>2, <2>2
<1>5. \A k \in 0 .. N : g[k] = h[k]
  <2> DEFINE P == {k \in 0 .. N : g[k] = h[k]}
  <2>1. 0 \in P
    BY <1>1, <1>3, <1>4
  <2>2. ASSUME NEW k \in 1 .. N, k - 1 \in P PROVE k \in P
    <3>1. k \in 1 .. N + 1 /\ k \in 0 .. N
      BY <1>1
    <3>2. g[k] = Then(g[k - 1], s[k]) /\ h[k] = Then(h[k - 1], t[k]) /\ t[k] = s[k]
      BY <1>2, <1>3, <1>4, <3>1
    <3> QED  BY <2>2, <3>1, <3>2
  <2>3. \A k \in 0 .. N : k \in P
    <3> HIDE DEF P
    <3> QED  BY <1>1, <2>1, <2>2, UpTo
  <2> QED  BY <2>3
<1>6. FirstAnswer(t) = Then(FirstAnswer(s), a)
  <2>1. N \in 0 .. N /\ N + 1 \in 1 .. N + 1 /\ (N + 1) - 1 = N
    BY <1>1
  <2>2. h[N + 1] = Then(h[N], t[N + 1]) /\ h[N] = g[N]
    BY <1>4, <1>5, <2>1
  <2> QED  BY <1>2, <1>3, <1>4, <2>2
<1> QED  BY <1>6 DEF t

\* What is found in the places of s, of which each has what "here" says.
Seen(here, s) == FirstAnswer([j \in DOMAIN s |-> here[s[j]]])

LEMMA SeenTyped ==
  ASSUME NEW V, NULL \in V, NEW E, NEW here \in [E -> Answers(V)]
  PROVE  Seen(here, <<>>) = Nothing /\ \A s \in Seq(E) : Seen(here, s) \in Answers(V)
<1>1. ASSUME NEW s \in Seq(E) PROVE Seen(here, s) \in Answers(V)
  <2> DEFINE u == [j \in DOMAIN s |-> here[s[j]]]
  <2>1. u \in Seq(Answers(V))
    <3> DEFINE A == Answers(V)
    <3>1. DOMAIN s = 1 .. Len(s) /\ Len(s) \in Nat /\ \A j \in 1 .. Len(s) : here[s[j]] \in A
      OBVIOUS
    <3> HIDE DEF A
    <3> QED  BY <3>1 DEF A
  <2> HIDE DEF u
  <2>2. FirstAnswer(u) \in Answers(V)
    BY <2>1, FirstAnswerTyped
  <2> QED  BY <2>2 DEF Seen, u
<1>2. [j \in DOMAIN <<>> |-> here[<<>>[j]]] = <<>>
  OBVIOUS
<1> QED  BY <1>1, <1>2, FirstAnswerTyped DEF Seen

LEMMA SeenMore ==
  ASSUME NEW V, NULL \in V, NEW E, NEW here \in [E -> Answers(V)], NEW s \in Seq(E), NEW p \in E
  PROVE  Seen(here, Append(s, p)) = Then(Seen(here, s), here[p])
<1> DEFINE A == Answers(V)
           t == Append(s, p)
           u == [j \in DOMAIN s |-> here[s[j]]]
           w == [j \in DOMAIN t |-> here[t[j]]]
<1>1. /\ Len(s) \in Nat /\ DOMAIN s = 1 .. Len(s) /\ \A j \in 1 .. Len(s) : s[j] \in E
      /\ here[p] \in A /\ \A e \in E : here[e] \in A
  OBVIOUS
<1>2. /\ t \in Seq(E) /\ Len(t) = Len(s) + 1 /\ DOMAIN t = 1 .. Len(s) + 1 /\ t[Len(s) + 1] = p
      /\ \A j \in 1 .. Len(s) : t[j] = s[j]
  BY Appended
<1> HIDE DEF t, A
<1>3. u \in Seq(A) /\ Len(u) = Len(s) /\ \A j \in 1 .. Len(s) : u[j] = here[s[j]]
  BY <1>1
<1>4. w \in Seq(A) /\ Len(w) = Len(s) + 1 /\ \A j \in 1 .. Len(s) + 1 : w[j] = here[t[j]]
  BY <1>1, <1>2
<1>5. Seen(here, s) = FirstAnswer(u) /\ Seen(here, t) = FirstAnswer(w)
  BY DEF Seen
<1> HIDE DEF u, w
<1>6. w = Append(u, here[p])
  <2>1. /\ Append(u, here[p]) \in Seq(A) /\ Len(Append(u, here[p])) = Len(s) + 1
        /\ \A j \in 1 .. Len(s) : Append(u, here[p])[j] = u[j]
        /\ Append(u, here[p])[Len(s) + 1] = here[p]
    BY <1>1, <1>3, Appended
  <2>2. ASSUME NEW j \in 1 .. Len(s) + 1 PROVE w[j] = Append(u, here[p])[j]
    <3>1. CASE j = Len(s) + 1
      BY <3>1, <2>1, <1>2, <1>4
    <3>2. CASE j # Len(s) + 1
      <4>1. j \in 1 .. Len(s)
        BY <3>2, <1>1
      <4> QED  BY <4>1, <2>1, <1>2, <1>3, <1>4
    <3> QED  BY <3>1, <3>2
  <2> QED  BY <2>1, <2>2, <1>4, SameSequence
<1>7. FirstAnswer(Append(u, here[p])) = Then(FirstAnswer(u), here[p])
  BY <1>1, <1>3, FirstAnswerMore DEF A
<1> QED  BY <1>5, <1>6, <1>7 DEF t

LEMMA SeenOne ==
  ASSUME NEW V, NULL \in V, NEW E, NEW here \in [E -> Answers(V)], NEW p \in E
  PROVE  Seen(here, <<p>>) = here[p]
<1> DEFINE none == <<>>
<1>1. none \in Seq(E) /\ <<p>> = Append(none, p)
  OBVIOUS
<1>2. here[p] \in Answers(V)
  OBVIOUS
<1>3. Then(Nothing, here[p]) = here[p]
  BY <1>2, ThenIs
<1>4. Seen(here, none) = Nothing
  BY SeenTyped
<1> HIDE DEF none
<1>5. Seen(here, Append(none, p)) = Then(Seen(here, none), here[p])
  BY <1>1, SeenMore
<1> QED  BY <1>1, <1>3, <1>4, <1>5

LEMMA SeenJoined ==
  ASSUME NEW V, NULL \in V, NEW E, NEW here \in [E -> Answers(V)]
  PROVE  \A s, t \in Seq(E) : Seen(here, s \o t) = Then(Seen(here, s), Seen(here, t))
<1> TAKE s, t \in Seq(E)
<1> DEFINE A == Answers(V)
           pre(m) == SubSeq(t, 1, m)
           P == {m \in 0 .. Len(t) : Seen(here, s \o pre(m)) = Then(Seen(here, s), Seen(here, pre(m)))}
<1>1. /\ Len(t) \in Nat /\ \A m \in 1 .. Len(t) : t[m] \in E
      /\ pre(0) = <<>> /\ pre(Len(t)) = t /\ \A m \in 0 .. Len(t) : pre(m) \in Seq(E)
      /\ \A m \in 1 .. Len(t) : pre(m) = Append(pre(m - 1), t[m])
  BY PrefixIs
<1> HIDE DEF pre
<1>2. /\ \A u \in Seq(E) : Seen(here, u) \in A
      /\ \A u \in Seq(E), p \in E : Seen(here, Append(u, p)) = Then(Seen(here, u), here[p])
  BY SeenTyped, SeenMore
<1>3. 0 \in P
  <2>1. s \o <<>> = s /\ Seen(here, <<>>) = Nothing
    BY SeenTyped
  <2>2. \A a \in A : Then(a, Nothing) = a
    BY ThenIs
  <2>3. Then(Seen(here, s), Nothing) = Seen(here, s)
    <3> HIDE DEF A
    <3> QED  BY <1>2, <2>2
  <2>4. Seen(here, s \o pre(0)) = Then(Seen(here, s), Seen(here, pre(0)))
    <3>1. pre(0) = <<>>
      BY <1>1
    <3>2. Seen(here, pre(0)) = Nothing /\ s \o pre(0) = s
      BY <2>1, <3>1
    <3> QED  BY <2>3, <3>2
  <2> QED  BY <2>4, <1>1
<1>4. ASSUME NEW m \in 1 .. Len(t), m - 1 \in P PROVE m \in P
  <2> DEFINE u == pre(m - 1)
             p == t[m]
  <2>1. m - 1 \in 0 .. Len(t) /\ m \in 0 .. Len(t) /\ p \in E
    BY <1>1
  <2>2. u \in Seq(E) /\ pre(m) = Append(u, p)
    BY <1>1, <2>1
  <2>3. Seen(here, s \o u) = Then(Seen(here, s), Seen(here, u))
    BY <1>4
  <2> HIDE DEF u, p
  <2>4. s \o Append(u, p) = Append(s \o u, p) /\ s \o u \in Seq(E)
    BY <2>1, <2>2
  <2>5. Seen(here, s \o Append(u, p)) = Then(Seen(here, s \o u), here[p])
    BY <1>2, <2>1, <2>4
  <2>6. Seen(here, Append(u, p)) = Then(Seen(here, u), here[p])
    BY <1>2, <2>1, <2>2
  <2>7. Seen(here, s) \in A /\ Seen(here, u) \in A /\ here[p] \in A
    BY <1>2, <2>1, <2>2
  <2>8. Then(Then(Seen(here, s), Seen(here, u)), here[p])
          = Then(Seen(here, s), Then(Seen(here, u), here[p]))
    <3>1. \A a, b, c \in A : Then(Then(a, b), c) = Then(a, Then(b, c))
      BY ThenIs
    <3> HIDE DEF A
    <3> QED  BY <2>7, <3>1
  <2>9. Seen(here, s \o pre(m)) = Then(Seen(here, s), Seen(here, pre(m)))
    BY <2>2, <2>3, <2>5, <2>6, <2>8
  <2> QED  BY <2>1, <2>9
<1>5. Len(t) \in P
  <2> HIDE DEF P
  <2>1. \A m \in 0 .. Len(t) : m \in P
    BY <1>1, <1>3, <1>4, UpTo
  <2> QED  BY <2>1, <1>1
<1> QED  BY <1>1, <1>5

LEMMA SeenFlattened ==
  ASSUME NEW V, NULL \in V, NEW E, NEW here \in [E -> Answers(V)], NEW s \in Seq(Seq(E))
  PROVE  Seen(here, FlattenSeq(s)) = FirstAnswer([j \in DOMAIN s |-> Seen(here, s[j])])
<1>0. \A u, v \in Seq(E) : Seen(here, u \o v) = Then(Seen(here, u), Seen(here, v))
  BY SeenJoined
<1> DEFINE A == Answers(V)
           L == Len(s)
           w == [j \in DOMAIN s |-> Seen(here, s[j])]
<1>1. /\ L \in Nat /\ DOMAIN s = 1 .. L /\ \A m \in 1 .. L : s[m] \in Seq(E)
      /\ Seen(here, <<>>) = Nothing /\ \A u \in Seq(E) : Seen(here, u) \in A
  BY SeenTyped
<1>2. w \in Seq(A) /\ Len(w) = L /\ \A j \in 1 .. L : w[j] = Seen(here, s[j])
  <2>1. \A j \in 1 .. L : Seen(here, s[j]) \in A
    BY <1>1
  <2> HIDE DEF A
  <2> QED  BY <1>1, <2>1
<1> HIDE DEF w
<1>3. PICK g \in [0 .. L -> A] :
        /\ g[0] = Nothing /\ FirstAnswer(w) = g[L]
        /\ \A j \in 1 .. L : g[j] = Then(g[j - 1], w[j])
  <2>1. w \in Seq(Answers(V))
    BY <1>2
  <2>2. PICK g \in [0 .. Len(w) -> Answers(V)] :
          /\ g[0] = Nothing /\ FirstAnswer(w) = g[Len(w)]
          /\ \A j \in 1 .. Len(w) : g[j] = Then(g[j - 1], w[j])
    BY <2>1, FirstAnswerIs
  <2> QED  BY <1>2, <2>2
<1>4. /\ Flattened(s, 0) = <<>> /\ Flattened(s, L) = FlattenSeq(s)
      /\ \A m \in 0 .. L : Flattened(s, m) \in Seq(E)
      /\ \A m \in 1 .. L : Flattened(s, m) = Flattened(s, m - 1) \o s[m]
  BY FlattenedIs
<1> DEFINE Q == {m \in 0 .. L : Seen(here, Flattened(s, m)) = g[m]}
<1>5. 0 \in Q
  BY <1>1, <1>3, <1>4
<1>6. ASSUME NEW m \in 1 .. L, m - 1 \in Q PROVE m \in Q
  <2>1. m - 1 \in 0 .. L /\ m \in 0 .. L
    BY <1>1
  <2>2. Flattened(s, m - 1) \in Seq(E) /\ s[m] \in Seq(E)
    BY <1>1, <1>4, <2>1
  <2>3. Seen(here, Flattened(s, m - 1) \o s[m])
          = Then(Seen(here, Flattened(s, m - 1)), Seen(here, s[m]))
    BY <1>0, <2>2
  <2>4. Seen(here, Flattened(s, m)) = Then(g[m - 1], w[m])
    BY <1>2, <1>4, <1>6, <2>3
  <2> QED  BY <1>3, <2>1, <2>4
<1>7. L \in Q
  <2> HIDE DEF Q
  <2>1. \A m \in 0 .. L : m \in Q
    BY <1>1, <1>5, <1>6, UpTo
  <2> QED  BY <2>1, <1>1
<1> QED  BY <1>3, <1>4, <1>7 DEF w

\* The first place that has an answer gives it, and the calls are those up to it.
LEMMA SeenIs ==
  ASSUME NEW V, NULL \in V, NEW E, NEW here \in [E -> Answers(V)], NEW s \in Seq(E),
         NEW first \in 0 .. Len(s), first # 0 => here[s[first]].value # NULL,
         \A j \in 1 .. Len(s) : first = 0 \/ j < first => here[s[j]].value = NULL
  PROVE  Seen(here, s) =
           [value |-> IF first = 0 THEN NULL ELSE here[s[first]].value,
            calls |-> FlattenSeq([j \in 1 .. (IF first = 0 THEN Len(s) ELSE first) |->
                                    here[s[j]].calls])]
<1> DEFINE A == Answers(V)
           L == Len(s)
           w == [j \in 1 .. L |-> here[s[j]].calls]
           until(m) == IF first # 0 /\ first <= m THEN first ELSE m
           so_far(m) == [value |-> IF first # 0 /\ first <= m THEN here[s[first]].value ELSE NULL,
                         calls |-> Flattened(w, until(m))]
           P == {m \in 0 .. L : Seen(here, SubSeq(s, 1, m)) = so_far(m)}
<1>1. /\ L \in Nat /\ \A j \in 1 .. L : s[j] \in E
      /\ \A j \in 1 .. L : /\ here[s[j]].calls \in Seq(Functions)
                           /\ here[s[j]] = [value |-> here[s[j]].value, calls |-> here[s[j]].calls]
  <2>1. L \in Nat /\ \A j \in 1 .. L : s[j] \in E
    OBVIOUS
  <2>2. \A e \in E : here[e] \in Answers(V)
    OBVIOUS
  <2>3. \A a \in Answers(V) : a.calls \in Seq(Functions) /\ a = [value |-> a.value, calls |-> a.calls]
    BY DEF Answers
  <2> QED  BY <2>1, <2>2, <2>3
<1>2. /\ first \in 0 .. L
      /\ first # 0 => here[s[first]].value # NULL
      /\ \A j \in 1 .. L : (first = 0 \/ j < first) => here[s[j]].value = NULL
  OBVIOUS
<1>3. w \in Seq(Seq(Functions)) /\ Len(w) = L /\ \A j \in 1 .. L : w[j] = here[s[j]].calls
  <2> DEFINE S == Seq(Functions)
  <2>1. \A j \in 1 .. L : here[s[j]].calls \in S
    BY <1>1
  <2> HIDE DEF S
  <2>2. w \in [1 .. L -> S]
    BY <2>1
  <2>3. w \in Seq(S) /\ Len(w) = L
    BY <2>2, <1>1
  <2> QED  BY <2>3 DEF S
<1> HIDE DEF w
<1>4. /\ Flattened(w, 0) = <<>>
      /\ \A m \in 0 .. L : Flattened(w, m) \in Seq(Functions)
      /\ \A m \in 1 .. L : Flattened(w, m) = Flattened(w, m - 1) \o w[m]
  BY <1>3, FlattenedIs
<1>5. /\ SubSeq(s, 1, 0) = <<>> /\ SubSeq(s, 1, L) = s
      /\ \A m \in 0 .. L : SubSeq(s, 1, m) \in Seq(E)
      /\ \A m \in 1 .. L : SubSeq(s, 1, m) = Append(SubSeq(s, 1, m - 1), s[m])
  BY PrefixIs
<1>6. 0 \in P
  <2>1. Seen(here, SubSeq(s, 1, 0)) = Nothing
    BY <1>5, SeenTyped
  <2>2. so_far(0) = Nothing
    <3>1. ~(first # 0 /\ first <= 0)
      BY <1>1, <1>2
    <3>2. until(0) = 0
      BY <3>1
    <3> QED  BY <3>1, <3>2, <1>4 DEF Nothing
  <2> HIDE DEF so_far
  <2> QED  BY <2>1, <2>2, <1>1
<1>7. ASSUME NEW m \in 1 .. L, m - 1 \in P PROVE m \in P
  <2>1. m - 1 \in 0 .. L /\ m \in 0 .. L /\ s[m] \in E /\ first \in Nat
    BY <1>1, <1>2
  <2>2. SubSeq(s, 1, m - 1) \in Seq(E) /\ SubSeq(s, 1, m) = Append(SubSeq(s, 1, m - 1), s[m])
    BY <1>5, <2>1
  <2>3. Seen(here, SubSeq(s, 1, m)) = Then(so_far(m - 1), here[s[m]])
    <3>1. Seen(here, Append(SubSeq(s, 1, m - 1), s[m]))
            = Then(Seen(here, SubSeq(s, 1, m - 1)), here[s[m]])
      <4>1. \A u \in Seq(E), p \in E : Seen(here, Append(u, p)) = Then(Seen(here, u), here[p])
        BY SeenMore
      <4> QED  BY <2>1, <2>2, <4>1
    <3> HIDE DEF so_far
    <3> QED  BY <1>7, <2>2, <3>1
  <2>4. Then(so_far(m - 1), here[s[m]]) = so_far(m)
    <3>1. CASE first # 0 /\ first < m
      <4>1. first <= m - 1 /\ first <= m
        BY <2>1, <3>1
      <4>2. so_far(m - 1) = so_far(m) /\ so_far(m).value # NULL
        BY <1>2, <3>1, <4>1
      <4> HIDE DEF so_far
      <4> QED  BY <4>2 DEF Then, HasAnswer
    <3>2. CASE ~(first # 0 /\ first < m)
      <4>1. ~(first # 0 /\ first <= m - 1)
        BY <2>1, <3>2
      <4>2. so_far(m - 1) = [value |-> NULL, calls |-> Flattened(w, m - 1)]
        BY <4>1
      <4>3. Flattened(w, m) = Flattened(w, m - 1) \o here[s[m]].calls
        BY <1>3, <1>4
      <4>4. Then(so_far(m - 1), here[s[m]])
              = [value |-> here[s[m]].value, calls |-> Flattened(w, m)]
        <5> DEFINE a == so_far(m - 1)
                   b == here[s[m]]
        <5>1. a.value = NULL /\ a.calls = Flattened(w, m - 1)
          BY <4>2
        <5> HIDE DEF a, b
        <5>2. Then(a, b) = [value |-> b.value, calls |-> a.calls \o b.calls]
          BY <5>1 DEF Then, HasAnswer
        <5> QED  BY <4>3, <5>1, <5>2 DEF a, b
      <4>5. CASE first = m
        <5>1. first # 0 /\ first <= m
          BY <4>5, <2>1
        <5> QED  BY <4>4, <4>5, <5>1
      <4>6. CASE first # m
        <5>1. ~(first # 0 /\ first <= m)
          BY <4>6, <3>2, <2>1
        <5>2. here[s[m]].value = NULL
          BY <1>2, <2>1, <3>2, <4>6
        <5> QED  BY <4>4, <5>1, <5>2
      <4> QED  BY <4>5, <4>6
    <3> QED  BY <3>1, <3>2
  <2> HIDE DEF so_far
  <2> QED  BY <2>1, <2>3, <2>4
<1>8. Seen(here, s) = so_far(L)
  <2> HIDE DEF P
  <2>1. \A m \in 0 .. L : m \in P
    BY <1>1, <1>6, <1>7, UpTo
  <2>2. L \in P
    BY <2>1, <1>1
  <2> HIDE DEF so_far
  <2> QED  BY <2>2, <1>5 DEF P
<1> DEFINE M == IF first = 0 THEN L ELSE first
           v == [j \in 1 .. M |-> here[s[j]].calls]
<1>9. M \in 0 .. L /\ until(L) = M /\ (first # 0 /\ first <= L <=> first # 0)
  BY <1>1, <1>2
<1>10. Flattened(w, M) = FlattenSeq(v)
  <2>1. /\ SubSeq(w, 1, M) \in Seq(Seq(Functions)) /\ Len(SubSeq(w, 1, M)) = M
        /\ \A j \in 1 .. M : SubSeq(w, 1, M)[j] = w[j]
    <3> DEFINE S == Seq(Functions)
    <3>1. w \in Seq(S)
      BY <1>3
    <3> HIDE DEF S, M
    <3>2. \A m \in 0 .. Len(w) : /\ SubSeq(w, 1, m) \in Seq(S) /\ Len(SubSeq(w, 1, m)) = m
                                 /\ \A j \in 1 .. m : SubSeq(w, 1, m)[j] = w[j]
      BY <3>1, PrefixIs
    <3> QED  BY <1>3, <1>9, <3>2 DEF S
  <2>2. v = SubSeq(w, 1, M)
    <3> DEFINE u == SubSeq(w, 1, M)
    <3>0. M \in Nat /\ M <= L
      BY <1>1, <1>9
    <3>1. DOMAIN u = 1 .. M /\ u = [j \in 1 .. M |-> u[j]]
      <4> DEFINE S == Seq(Functions)
      <4>1. u \in Seq(S) /\ Len(u) = M
        BY <2>1
      <4> HIDE DEF S, u, M
      <4> QED  BY <4>1
    <3>2. \A j \in 1 .. M : u[j] = here[s[j]].calls
      <4>1. \A j \in 1 .. M : j \in 1 .. L
        <5> HIDE DEF M
        <5> QED  BY <1>1, <3>0
      <4> HIDE DEF M
      <4> QED  BY <2>1, <1>3, <4>1
    <3> HIDE DEF u
    <3>3. u = v
      BY <3>1, <3>2
    <3> QED  BY <3>3 DEF u
  <2> QED  BY <2>2 DEF Flattened
<1> QED  BY <1>8, <1>9, <1>10

-----------------------------------------------------------------------------
(***************************************************************************)
(* Arrays of properties                                                    *)
(***************************************************************************)
LEMMA ArrayFindTells ==
  ASSUME NEW S, NEW a \in Seq(S), NEW word
  PROVE  /\ ArrayFind(a, word) \in Int
         /\ ArrayFind(a, word) >= 0 =>
              /\ ArrayFind(a, word) + 1 \in 1 .. Len(a) /\ a[ArrayFind(a, word) + 1] = word
              /\ \A j \in 1 .. ArrayFind(a, word) : a[j] # word
         /\ ArrayFind(a, word) < 0 => \A j \in 1 .. Len(a) : a[j] # word
<1> DEFINE Sought == {k \in DOMAIN a : a[k] = word}
           first == CHOOSE k \in DOMAIN a : a[k] = word /\ \A j \in 1 .. k - 1 : a[j] # word
<1>1. DOMAIN a = 1 .. Len(a) /\ Len(a) \in Nat
  OBVIOUS
<1>2. CASE Sought = {}
  <2>1. ~\E k \in DOMAIN a : a[k] = word
    BY <1>2
  <2>2. ArrayFind(a, word) = 0 - 1
    BY <2>1 DEF ArrayFind
  <2> QED  BY <1>1, <2>1, <2>2
<1>3. CASE Sought # {}
  <2>1. PICK m \in Sought : \A j \in Sought : m <= j
    <3>1. Sought \in SUBSET Nat
      BY <1>1
    <3> HIDE DEF Sought
    <3> QED  BY <1>3, <3>1, Least
  <2>2. m \in DOMAIN a /\ a[m] = word /\ \A j \in 1 .. m - 1 : a[j] # word
    BY <1>1, <2>1
  <2>3. /\ first \in DOMAIN a /\ a[first] = word /\ \A j \in 1 .. first - 1 : a[j] # word
    BY <2>2
  <2>4. ArrayFind(a, word) = first - 1
    BY <2>2 DEF ArrayFind
  <2> HIDE DEF first
  <2>5. first \in 1 .. Len(a) /\ (first - 1) + 1 = first
    BY <1>1, <2>3
  <2> QED  BY <2>3, <2>4, <2>5
<1> QED  BY <1>2, <1>3

LEMMA ArrayFindAppended ==
  ASSUME NEW S, NEW a \in Seq(S), NEW word \in S
  PROVE  /\ ArrayFind(a, word) < 0 => ArrayFind(Append(a, word), word) = Len(a)
         /\ \A m : m # word => ArrayFind(Append(a, word), m) = ArrayFind(a, m)
<1> DEFINE b == Append(a, word)
           L == Len(a)
<1>1. /\ b \in Seq(S) /\ Len(b) = L + 1 /\ L \in Nat /\ b[L + 1] = word
      /\ \A j \in 1 .. L : b[j] = a[j]
  BY Appended
<1> HIDE DEF b
<1>2. ASSUME ArrayFind(a, word) < 0 PROVE ArrayFind(b, word) = L
  <2> DEFINE f == ArrayFind(b, word)
  <2>1. \A j \in 1 .. L : a[j] # word
    BY <1>2, ArrayFindTells
  <2>2. f \in Int /\ (f >= 0 => f + 1 \in 1 .. L + 1 /\ b[f + 1] = word)
        /\ (f < 0 => \A j \in 1 .. L + 1 : b[j] # word)
    BY <1>1, ArrayFindTells
  <2> HIDE DEF f
  <2>3. L + 1 \in 1 .. L + 1
    BY <1>1
  <2>4. f >= 0 /\ f + 1 \in 1 .. L + 1 /\ b[f + 1] = word
    BY <1>1, <2>2, <2>3
  <2>5. f + 1 \notin 1 .. L
    BY <1>1, <2>1, <2>4
  <2>6. f = L
    BY <1>1, <2>2, <2>4, <2>5
  <2> QED  BY <2>6 DEF f
<1>3. ASSUME NEW m, m # word PROVE ArrayFind(b, m) = ArrayFind(a, m)
  <2> DEFINE f == ArrayFind(b, m)
             g == ArrayFind(a, m)
  <2>1. f \in Int /\ (f >= 0 => /\ f + 1 \in 1 .. L + 1 /\ b[f + 1] = m
                                /\ \A j \in 1 .. f : b[j] # m)
        /\ (f < 0 => \A j \in 1 .. L + 1 : b[j] # m)
    BY <1>1, ArrayFindTells
  <2>2. g \in Int /\ (g >= 0 => /\ g + 1 \in 1 .. L /\ a[g + 1] = m
                                /\ \A j \in 1 .. g : a[j] # m)
        /\ (g < 0 => \A j \in 1 .. L : a[j] # m)
    BY ArrayFindTells
  <2>3. g < 0 <=> ~\E k \in DOMAIN a : a[k] = m
    <3>1. DOMAIN a = 1 .. L
      OBVIOUS
    <3> QED  BY <2>2, <3>1
  <2>3a. g < 0 => g = 0 - 1
    BY <2>3 DEF ArrayFind
  <2>4. f < 0 <=> ~\E k \in DOMAIN b : b[k] = m
    <3>1. DOMAIN b = 1 .. L + 1
      BY <1>1
    <3> QED  BY <2>1, <3>1
  <2>4a. f < 0 => f = 0 - 1
    BY <2>4 DEF ArrayFind
  <2> HIDE DEF f, g
  <2>5. CASE g < 0
    <3>1. \A j \in 1 .. L + 1 : b[j] # m
      <4> SUFFICES ASSUME NEW j \in 1 .. L + 1 PROVE b[j] # m
        OBVIOUS
      <4>1. CASE j = L + 1
        BY <4>1, <1>1, <1>3
      <4>2. CASE j # L + 1
        <5>1. j \in 1 .. L
          BY <4>2, <1>1
        <5> QED  BY <5>1, <1>1, <2>2, <2>5
      <4> QED  BY <4>1, <4>2
    <3>2. f < 0
      BY <2>1, <3>1
    <3> QED  BY <2>3a, <2>4a, <2>5, <3>2 DEF f, g
  <2>6. CASE g >= 0
    <3>1. g + 1 \in 1 .. L + 1 /\ b[g + 1] = m
      BY <1>1, <2>2, <2>6
    <3>2. f >= 0 /\ f + 1 \in 1 .. L + 1 /\ b[f + 1] = m
      BY <2>1, <3>1
    <3>3. f + 1 # L + 1
      BY <1>1, <1>3, <3>2
    <3>4. f + 1 \in 1 .. L /\ a[f + 1] = m
      BY <1>1, <2>1, <3>2, <3>3
    <3>5. ~(g < f)
      <4> SUFFICES ASSUME g < f PROVE FALSE
        OBVIOUS
      <4>1. g + 1 \in 1 .. f
        BY <2>1, <2>2, <2>6
      <4> QED  BY <2>1, <3>1, <3>2, <4>1
    <3>6. ~(f < g)
      <4> SUFFICES ASSUME f < g PROVE FALSE
        OBVIOUS
      <4>1. f + 1 \in 1 .. g
        BY <2>1, <2>2, <3>2
      <4> QED  BY <2>2, <2>6, <3>4, <4>1
    <3> QED  BY <2>1, <2>2, <3>5, <3>6 DEF f, g
  <2> QED  BY <2>2, <2>5, <2>6
<1> QED  BY <1>2, <1>3 DEF b

\* An entry as a program sees it: a function, or none.
Entry(w) == IF EvalTruth(w) THEN w ELSE NULL

EntryIsWritten(S, a, k, f) ==
  /\ ArraySet(a, k, f) \in Seq(S)
  /\ Len(ArraySet(a, k, f)) = IF k >= Len(a) THEN k + 1 ELSE Len(a)
  /\ ArrayGet(ArraySet(a, k, f), k) = f
  /\ \A j \in Nat : j # k => Entry(ArrayGet(ArraySet(a, k, f), j)) = Entry(ArrayGet(a, j))

LEMMA EntryWritten ==
  ASSUME NEW S, SN_NIL \in S, NEW a \in Seq(S), NEW k \in Nat, NEW f \in S
  PROVE  EntryIsWritten(S, a, k, f)
<1> DEFINE L == Len(a)
           width == IF k >= L THEN k + 1 ELSE L
           grown == IF k >= L THEN ArrayGrow(a, k + 1) ELSE a
           b == [grown EXCEPT ![k + 1] = f]
<1>1. L \in Nat /\ DOMAIN a = 1 .. L /\ \A j \in 1 .. L : a[j] \in S
  OBVIOUS
<1>2. width \in Nat /\ k + 1 \in 1 .. width /\ L <= width
  BY <1>1
<1>3. /\ grown \in [1 .. width -> S]
      /\ \A j \in 1 .. width : grown[j] = IF j <= L THEN a[j] ELSE SN_NIL
  <2>1. CASE k >= L
    <3>1. grown = [j \in 1 .. width |-> IF j <= L THEN a[j] ELSE SN_NIL]
      BY <2>1 DEF ArrayGrow
    <3>2. \A j \in 1 .. width : (IF j <= L THEN a[j] ELSE SN_NIL) \in S
      BY <1>1, <1>2
    <3> HIDE DEF grown, width, L
    <3> QED  BY <3>1, <3>2
  <2>2. CASE ~(k >= L)
    <3>1. grown = a /\ width = L
      BY <2>2
    <3>2. a \in [1 .. L -> S]
      BY <1>1
    <3> HIDE DEF grown, width
    <3> QED  BY <1>1, <3>1, <3>2
  <2> QED  BY <2>1, <2>2
<1>4. ArraySet(a, k, f) = b
  BY DEF ArraySet
<1> HIDE DEF grown, width
<1>5. /\ b \in [1 .. width -> S] /\ b[k + 1] = f
      /\ \A j \in 1 .. width : j # k + 1 => b[j] = grown[j]
  BY <1>2, <1>3
<1> HIDE DEF b
<1>6. b \in Seq(S) /\ Len(b) = width
  BY <1>2, <1>5
<1>7. ArrayGet(b, k) = f
  BY <1>2, <1>5, <1>6 DEF ArrayGet
<1>8. ASSUME NEW j \in Nat, j # k PROVE Entry(ArrayGet(b, j)) = Entry(ArrayGet(a, j))
  <2>1. CASE j < L
    <3>1. j + 1 \in 1 .. width /\ j + 1 # k + 1 /\ j < width /\ j + 1 <= L
      BY <1>1, <1>2, <1>8, <2>1
    <3>2. b[j + 1] = a[j + 1]
      BY <1>3, <1>5, <3>1
    <3> QED  BY <1>6, <2>1, <3>1, <3>2 DEF ArrayGet
  <2>2. CASE ~(j < L) /\ j < width
    <3>1. j + 1 \in 1 .. width /\ j + 1 # k + 1 /\ ~(j + 1 <= L)
      BY <1>1, <1>2, <1>8, <2>2
    <3>2. b[j + 1] = SN_NIL
      BY <1>3, <1>5, <3>1
    <3> QED  BY <1>6, <2>2, <3>1, <3>2 DEF ArrayGet, Entry, EvalTruth
  <2>3. CASE ~(j < L) /\ ~(j < width)
    BY <1>6, <2>3 DEF ArrayGet
  <2> QED  BY <2>1, <2>2, <2>3
<1> QED  BY <1>4, <1>6, <1>7, <1>8 DEF width, EntryIsWritten

-----------------------------------------------------------------------------
(***************************************************************************)
(* What an object offers for a name                                        *)
(***************************************************************************)
Entries == Functions \cup {NULL, SN_NIL}

PropertiesFit(r) ==
  /\ r.property_names \in Seq(Name) /\ r.property_data \in Seq(Entries)
  /\ Len(r.property_data) <= 2 * Len(r.property_names)

\* The ends of all chains of prototypes; classes have names.
FirstObjectsStay ==
  /\ \A o \in {ClassPrototype, ObjectPrototype} :
       objects[o].type = "object" /\ objects[o].prototype = NULL
  /\ Of(ClassPrototype, NameOf) >= 0

LookupInv ==
  /\ program \in Programs
  /\ \A o \in Existing : PropertiesFit(objects[o])
  /\ FirstObjectsStay

Offered(p, n) ==
  IF Of(p, n) < 0 THEN MapGet(objects[p].members, n)
  ELSE IF Half(p, n, 0) = NULL THEN Trap ELSE Returned(Half(p, n, 0))

Asked(p, n) == IF Half(p, n, 0) \in Functions THEN <<Half(p, n, 0)>> ELSE <<>>

Here(n) == [p \in Existing |-> [value |-> Offered(p, n), calls |-> Asked(p, n)]]
ValuesOf(n) == {Offered(p, n) : p \in Existing} \cup {NULL}

LEMMA HereIs ==
  ASSUME NEW n
  PROVE  NULL \in ValuesOf(n) /\ Here(n) \in [Existing -> Answers(ValuesOf(n))]
<1>1. ASSUME NEW p \in Existing PROVE Here(n)[p] \in Answers(ValuesOf(n))
  <2>1. Asked(p, n) \in Seq(Functions)
    BY DEF Asked
  <2>2. Offered(p, n) \in ValuesOf(n)
    BY DEF ValuesOf
  <2> QED  BY <2>1, <2>2 DEF Here, Answers
<1> QED  BY <1>1 DEF Here, ValuesOf

\* The two entries of a property.
LEMMA HalfIs ==
  ASSUME NamesDiffer, LookupInv, NEW p \in Existing, NEW n, NEW half \in {0, 1}
  PROVE  /\ Of(p, n) \in Int /\ (Half(p, n, half) = NoEntry <=> Of(p, n) < 0)
         /\ Of(p, n) >= 0 =>
              /\ Half(p, n, half) \in Functions \cup {NULL}
              /\ 2 * Of(p, n) + half \in Nat
              /\ Half(p, n, half) = Entry(ArrayGet(objects[p].property_data, 2 * Of(p, n) + half))
<1> DEFINE names == objects[p].property_names
           stored == objects[p].property_data
           k == 2 * Of(p, n) + half
<1>1. names \in Seq(Name) /\ stored \in Seq(Entries)
  BY DEF LookupInv, PropertiesFit
<1>2. Of(p, n) \in Int
  BY <1>1, ArrayFindTells DEF Of
<1>3. CASE Of(p, n) < 0
  <2>1. Half(p, n, half) = NoEntry
    BY <1>3 DEF Half
  <2> QED  BY <1>2, <1>3, <2>1
<1>4. CASE Of(p, n) >= 0
  <2>1. k \in Nat
    BY <1>2, <1>4
  <2>2. ArrayGet(stored, k) \in Entries
    <3> HIDE DEF k, stored
    <3>1. Len(stored) \in Nat /\ \A j \in 1 .. Len(stored) : stored[j] \in Entries
      BY <1>1
    <3>2. k < Len(stored) => k + 1 \in 1 .. Len(stored)
      BY <2>1, <3>1
    <3> QED  BY <3>1, <3>2 DEF ArrayGet, Entries
  <2>3. Half(p, n, half) = Entry(ArrayGet(stored, k))
    BY <1>2, <1>4 DEF Half, Entry
  <2>4. Entry(ArrayGet(stored, k)) \in Functions \cup {NULL}
    <3> HIDE DEF k, stored
    <3> QED  BY <2>2 DEF Entry, Entries, EvalTruth
  <2>5. Entry(ArrayGet(stored, k)) # NoEntry
    <3> HIDE DEF k, stored
    <3> QED  BY <2>4 DEF NamesDiffer
  <2> QED  BY <1>2, <1>4, <2>1, <2>3, <2>4, <2>5
<1> QED  BY <1>2, <1>3, <1>4

\* The part of a lookup that looks at one object alone.
LEMMA HereIsGet ==
  ASSUME NamesDiffer, LookupInv, NEW p \in Existing, NEW n,
         NEW getter, getter = ArrayGet(objects[p].property_data, 2 * Of(p, n)),
         NEW member, member = MapGet(objects[p].members, n)
  PROVE  /\ Of(p, n) >= 0 =>
              Here(n)[p] = IF EvalTruth(getter) THEN Called(Nothing, getter)
                           ELSE [Nothing EXCEPT !.value = Trap]
         /\ Of(p, n) < 0 /\ member # NULL => Here(n)[p] = [Nothing EXCEPT !.value = member]
         /\ Of(p, n) < 0 /\ member = NULL => Here(n)[p] = Nothing
<1>1. Here(n)[p] = [value |-> Offered(p, n), calls |-> Asked(p, n)]
  BY DEF Here
<1>2. /\ Of(p, n) \in Int /\ (Half(p, n, 0) = NoEntry <=> Of(p, n) < 0)
      /\ Of(p, n) >= 0 => /\ Half(p, n, 0) \in Functions \cup {NULL}
                          /\ Half(p, n, 0) = Entry(getter)
  <2>1. 0 \in {0, 1} /\ (Of(p, n) \in Int => 2 * Of(p, n) + 0 = 2 * Of(p, n))
    OBVIOUS
  <2> QED  BY <2>1, HalfIs
<1>3. CASE Of(p, n) >= 0
  <2>1. ~(Of(p, n) < 0)
    BY <1>2, <1>3
  <2>2. CASE EvalTruth(getter)
    <3>1. Half(p, n, 0) = getter /\ getter # NULL /\ getter \in Functions
      BY <1>2, <1>3, <2>2 DEF Entry, EvalTruth
    <3>2. Offered(p, n) = Returned(getter) /\ Asked(p, n) = <<getter>>
      BY <2>1, <3>1 DEF Offered, Asked
    <3>3. Called(Nothing, getter) = [value |-> Returned(getter), calls |-> <<getter>>]
      BY DEF Called, Nothing
    <3> QED  BY <1>1, <1>3, <2>1, <2>2, <3>2, <3>3
  <2>3. CASE ~EvalTruth(getter)
    <3>1. Half(p, n, 0) = NULL /\ NULL \notin Functions
      BY <1>2, <1>3, <2>3 DEF Entry, NamesDiffer
    <3>2. Offered(p, n) = Trap /\ Asked(p, n) = <<>>
      BY <2>1, <3>1 DEF Offered, Asked
    <3>3. [Nothing EXCEPT !.value = Trap] = [value |-> Trap, calls |-> <<>>]
      BY DEF Nothing
    <3> QED  BY <1>1, <1>3, <2>1, <2>3, <3>2, <3>3
  <2> QED  BY <2>2, <2>3
<1>4. CASE Of(p, n) < 0
  <2>1. ~(Of(p, n) >= 0) /\ Half(p, n, 0) = NoEntry /\ NoEntry \notin Functions
    BY <1>2, <1>4 DEF NamesDiffer
  <2>2. Here(n)[p] = [value |-> member, calls |-> <<>>]
    BY <1>1, <1>4, <2>1 DEF Offered, Asked
  <2> QED  BY <1>4, <2>1, <2>2 DEF Nothing
<1> QED  BY <1>2, <1>3, <1>4

-----------------------------------------------------------------------------
(***************************************************************************)
(* The places of ObjectModel                                               *)
(***************************************************************************)
LEMMA SameOperators ==
  /\ \A s : Model!FlattenSeq(s) = FlattenSeq(s)
  /\ \A s : Model!ToSet(s) = ToSet(s)
  /\ \A S : Model!Min(S) = Min(S)
<1>1. \A s : Model!FlattenSeq(s) = FlattenSeq(s)
  BY DEF FlattenSeq, Model!FlattenSeq
<1>2. \A s : Model!ToSet(s) = ToSet(s)
  BY DEF ToSet, Model!ToSet
<1>3. \A S : Model!Min(S) = Min(S)
  BY DEF Min, Model!Min
<1> QED  BY <1>1, <1>2, <1>3

LEMMA ModelIs ==
  ASSUME NamesDiffer, LookupInv, NEW p \in Existing
  PROVE  /\ Model!Existing = Existing
         /\ \A n \in Name : Model!HasProperty(p, n) <=> Of(p, n) >= 0
<1>1. Model!Existing = Existing
  BY DEF Model!Existing
<1>2. ASSUME NEW n \in Name PROVE Model!HasProperty(p, n) <=> Of(p, n) >= 0
  <2>1. Of(p, n) \in Int /\ (Half(p, n, 0) = NoEntry <=> Of(p, n) < 0)
    BY HalfIs
  <2>2. Model!HasProperty(p, n) <=> Half(p, n, 0) # NoEntry
    BY DEF Model!HasProperty
  <2> QED  BY <2>1, <2>2
<1> QED  BY <1>1, <1>2

PlacesAre(n) ==
  \A p \in Existing :
    /\ Model!Places(p, n) \in Seq(Existing)
    /\ Model!Places(p, n) =
         <<p>> \o (IF Of(p, n) >= 0 THEN <<>>
                   ELSE FlattenSeq([j \in DOMAIN Modules(p) |-> Model!Places(Modules(p)[j], n)]))

LEMMA PlacesEnd ==
  ASSUME NamesDiffer, LookupInv, ObjectsInv, NEW n \in Name
  PROVE  PlacesAre(n)
<1> DEFINE L == Len(objects)
           Rest(p, f) == IF Of(p, n) >= 0 THEN <<>>
                         ELSE FlattenSeq([j \in DOMAIN Modules(p) |-> f[Modules(p)[j]]])
           F(f) == [p \in Existing |-> <<p>> \o Rest(p, f)]
           G == [Existing -> Seq(Existing)]
           step == [f \in G |-> F(f)]
<1>1. L \in Nat /\ Existing = 1 .. L
  BY ObjectsAreASequence DEF ObjectsInv
<1>2. PICK rank \in [Existing -> Nat] : Ranked(rank)
  BY DEF ObjectsInv, ModulesInv
<1>3. \A p \in Existing : /\ Modules(p) \in Seq(Existing)
                          /\ \A j \in DOMAIN Modules(p) : Modules(p)[j] \in Existing
  <2>1. \A p \in Existing : Modules(p) \in Seq(Existing)
    BY DEF ObjectsInv, ModulesInv
  <2> QED  BY <2>1
<1>4. ASSUME NEW f \in G, NEW p \in Existing PROVE <<p>> \o Rest(p, f) \in Seq(Existing)
  <2> DEFINE u == [j \in DOMAIN Modules(p) |-> f[Modules(p)[j]]]
             S == Seq(Existing)
  <2>1. u \in Seq(S)
    <3>1. /\ DOMAIN Modules(p) = 1 .. Len(Modules(p)) /\ Len(Modules(p)) \in Nat
          /\ \A j \in 1 .. Len(Modules(p)) : f[Modules(p)[j]] \in S
      BY <1>3
    <3> HIDE DEF S
    <3> QED  BY <3>1
  <2>2. FlattenSeq(u) \in Seq(Existing)
    BY <2>1, FlattenTyped
  <2> HIDE DEF u
  <2>3. (IF Of(p, n) >= 0 THEN <<>> ELSE FlattenSeq(u)) \in Seq(Existing)
    BY <2>2
  <2>4. \A t \in Seq(Existing) : <<p>> \o t \in Seq(Existing)
    OBVIOUS
  <2> QED  BY <2>3, <2>4 DEF u
<1>5. ASSUME NEW f, NEW h, NEW p \in Existing,
             \A q \in Existing : rank[q] < rank[p] => f[q] = h[q]
      PROVE  Rest(p, f) = Rest(p, h)
  <2>1. \A j \in DOMAIN Modules(p) : f[Modules(p)[j]] = h[Modules(p)[j]]
    BY <1>2, <1>3, <1>5 DEF Ranked
  <2>2. [j \in DOMAIN Modules(p) |-> f[Modules(p)[j]]] = [j \in DOMAIN Modules(p) |-> h[Modules(p)[j]]]
    BY <2>1
  <2> QED  BY <2>2
<1> HIDE DEF Rest
<1>6. \E g \in G : g = F(g)
  <2>1. step \in [G -> G]
    BY <1>4
  <2>2. \A f \in G : step[f] = F(f)
    OBVIOUS
  <2>3. \A f \in G, p \in Existing : step[f][p] = <<p>> \o Rest(p, f)
    OBVIOUS
  <2> DEFINE S == Seq(Existing)
  <2>4. S # {}
    BY NoSequence
  <2>5. DependsOnLower(Existing, S, rank, step)
    <3> SUFFICES ASSUME NEW f \in [Existing -> S], NEW h \in [Existing -> S], NEW p \in Existing,
                        \A q \in Existing : rank[q] < rank[p] => f[q] = h[q]
                 PROVE  step[f][p] = step[h][p]
      BY DEF DependsOnLower
    <3>1. Rest(p, f) = Rest(p, h)
      BY <1>5
    <3> QED  BY <2>3, <3>1
  <2>6. step \in [[Existing -> S] -> [Existing -> S]]
    BY <2>1
  <2> HIDE DEF step, S, L, F
  <2>7. HasRecursion(Existing, S, rank)
    BY <1>1, <1>2, <2>4, RecursionEnds
  <2>8. \E f \in [Existing -> S] : f = step[f]
    BY <2>5, <2>6, <2>7 DEF HasRecursion
  <2> QED  BY <2>2, <2>8 DEF S
<1>7. PICK g \in G : g = F(g)
  BY <1>6
<1> DEFINE c == CHOOSE f : f = F(f)
<1>8. c = F(c)
  <2> HIDE DEF F
  <2> QED  BY <1>7
<1>9. \A p \in Existing : Model!Places(p, n) = c[p]
  <2> DEFINE M(f) == [p \in Model!Existing |->
               <<p>> \o (IF Model!HasProperty(p, n) THEN <<>>
                         ELSE Model!FlattenSeq([k \in DOMAIN [o \in Existing |-> objects[o].included_modules][p] |->
                                            f[[o \in Existing |-> objects[o].included_modules][p][k]]]))]
  <2>1. ASSUME NEW f PROVE M(f) = F(f)
    <3>0. Model!Existing = Existing
      BY DEF Model!Existing
    <3>1. ASSUME NEW p \in Existing PROVE M(f)[p] = F(f)[p]
      <4>1. Model!HasProperty(p, n) <=> Of(p, n) >= 0
        BY ModelIs
      <4>2. [o \in Existing |-> objects[o].included_modules][p] = Modules(p)
        BY DEF Modules
      <4>3. \A u : Model!FlattenSeq(u) = FlattenSeq(u)
        BY SameOperators
      <4> QED  BY <3>0, <4>1, <4>2, <4>3 DEF Rest
    <3>2. F(f) = [p \in Existing |-> F(f)[p]]
      OBVIOUS
    <3>3. M(f) = [p \in Existing |-> M(f)[p]]
      BY <3>0
    <3> HIDE DEF M, F
    <3>4. [p \in Existing |-> M(f)[p]] = [p \in Existing |-> F(f)[p]]
      BY <3>1
    <3> QED  BY <3>2, <3>3, <3>4
  <2>2. \A p \in Existing : Model!Places(p, n) = (CHOOSE f : f = M(f))[p]
    BY DEF Model!Places
  <2>3. (CHOOSE f : f = M(f)) = (CHOOSE f : f = F(f))
    <3> HIDE DEF M, F
    <3> QED  BY <2>1
  <2> QED  BY <2>2, <2>3
<1> HIDE DEF c
<1>10. \A p \in Existing : c[p] = <<p>> \o Rest(p, c) /\ g[p] = <<p>> \o Rest(p, g)
  BY <1>7, <1>8
<1>11. \A p \in Existing : c[p] = g[p]
  <2> DEFINE Good == {p \in Existing : c[p] = g[p]}
  <2>1. ASSUME NEW p \in Existing, \A q \in Existing : rank[q] < rank[p] => q \in Good
        PROVE  p \in Good
    <3>1. \A q \in Existing : rank[q] < rank[p] => c[q] = g[q]
      BY <2>1
    <3>2. Rest(p, c) = Rest(p, g)
      BY <1>5, <3>1
    <3>3. c[p] = <<p>> \o Rest(p, c) /\ g[p] = <<p>> \o Rest(p, g)
      BY <1>10
    <3> QED  BY <3>2, <3>3
  <2>2. \A p \in Existing : (\A q \in Existing : rank[q] < rank[p] => q \in Good) => p \in Good
    BY <2>1
  <2> HIDE DEF Good
  <2>3. \A p \in Existing : p \in Good
    BY <2>2, ByRank
  <2> QED  BY <2>3 DEF Good
<1>12. ASSUME NEW p \in Existing
       PROVE  /\ Model!Places(p, n) \in Seq(Existing)
              /\ Model!Places(p, n) =
                   <<p>> \o (IF Of(p, n) >= 0 THEN <<>>
                             ELSE FlattenSeq([j \in DOMAIN Modules(p) |-> Model!Places(Modules(p)[j], n)]))
  <2>1. Model!Places(p, n) = c[p] /\ c[p] = g[p] /\ g[p] \in Seq(Existing)
    BY <1>9, <1>11
  <2>2. [j \in DOMAIN Modules(p) |-> Model!Places(Modules(p)[j], n)]
          = [j \in DOMAIN Modules(p) |-> c[Modules(p)[j]]]
    BY <1>3, <1>9
  <2> QED  BY <1>10, <2>1, <2>2 DEF Rest
<1> QED  BY <1>12 DEF PlacesAre

\* The prototypes of an object come to an end, with those that NULL stands for.
Descends(r) == \A p \in Existing : NextPrototype(p) # p => r[NextPrototype(p)] < r[p]

LEMMA PrototypesEnd ==
  ASSUME LookupInv, ObjectsInv, NULL \notin Nat
  PROVE  /\ \A p \in Existing : NextPrototype(p) \in Existing
         /\ \A p \in Existing : Prototype(p) # NULL => Prototype(p) = NextPrototype(p) /\ NextPrototype(p) # p
         /\ \E r \in [Existing -> Nat] : Descends(r)
<1> DEFINE r == [p \in Existing |-> IF p = ObjectPrototype THEN 0
                                    ELSE IF p = ClassPrototype THEN 1 ELSE p + 1]
<1>1. /\ Len(objects) \in Nat /\ Existing = 1 .. Len(objects) /\ Len(objects) >= 4
  BY ObjectsAreASequence DEF ObjectsInv, ObjectsExist
<1>2. r \in [Existing -> Nat]
  BY <1>1
<1>3. \A p \in Existing : /\ objects[p].type \in {"object", "class"}
                          /\ Prototype(p) # NULL => Prototype(p) \in Existing /\ Age(Prototype(p)) < Age(p)
  BY DEF ObjectsInv, ObjectsExist, PrototypesAreOlder
<1>4. \A p \in {2, 4} : objects[p].type = "object" /\ Prototype(p) = NULL
  BY DEF LookupInv, FirstObjectsStay, ClassPrototype, ObjectPrototype, Prototype
<1>5. ASSUME NEW p \in Existing
      PROVE  /\ NextPrototype(p) \in Existing
             /\ Prototype(p) # NULL => Prototype(p) = NextPrototype(p) /\ NextPrototype(p) # p
             /\ NextPrototype(p) # p => r[NextPrototype(p)] < r[p]
  <2>1. CASE Prototype(p) # NULL
    <3>1. NextPrototype(p) = Prototype(p) /\ p # 2 /\ p # 4
      BY <1>4, <2>1 DEF NextPrototype, Prototype
    <3>2. Prototype(p) \in Existing /\ Age(Prototype(p)) < Age(p)
      BY <1>3, <2>1
    <3> DEFINE q == Prototype(p)
    <3> HIDE DEF q
    <3>3. q \in Existing /\ (q = 2 \/ q < p) /\ q # p
      BY <1>1, <3>1, <3>2 DEF Age, ClassPrototype, q
    <3>4. r[p] = p + 1 /\ r[q] = IF q = 4 THEN 0 ELSE IF q = 2 THEN 1 ELSE q + 1
      BY <3>1, <3>3 DEF ObjectPrototype, ClassPrototype
    <3>5. r[q] < r[p]
      <4> HIDE DEF r
      <4> QED  BY <1>1, <3>3, <3>4
    <3> QED  BY <3>1, <3>3, <3>5, <2>1 DEF q
  <2>2. CASE Prototype(p) = NULL
    <3>1. NextPrototype(p) = IF objects[p].type = "class" THEN 2 ELSE 4
      BY <2>2 DEF NextPrototype, Prototype, TypePrototype, ClassPrototype, ObjectPrototype
    <3>2. NextPrototype(p) \in Existing
      BY <1>1, <3>1
    <3>3. CASE objects[p].type = "class"
      <4>1. p # 2 /\ p # 4 /\ NextPrototype(p) = 2
        BY <1>4, <3>1, <3>3
      <4>2. r[p] = p + 1 /\ r[2] = 1
        BY <1>1, <4>1 DEF ObjectPrototype, ClassPrototype
      <4> HIDE DEF r
      <4> QED  BY <1>1, <2>2, <3>2, <4>1, <4>2
    <3>4. CASE objects[p].type # "class"
      <4>1. NextPrototype(p) = 4
        BY <3>1, <3>4
      <4>2. p # 4 => r[p] > 0 /\ r[4] = 0
        BY <1>1 DEF ObjectPrototype, ClassPrototype
      <4> HIDE DEF r
      <4> QED  BY <1>1, <2>2, <3>2, <4>1, <4>2
    <3> QED  BY <3>3, <3>4
  <2> QED  BY <2>1, <2>2
<1> HIDE DEF r
<1>6. Descends(r)
  BY <1>5 DEF Descends
<1> QED  BY <1>2, <1>5, <1>6

LineageIs(n) ==
  \A p \in Existing :
    /\ Model!Lineage(p, n) \in Seq(Existing)
    /\ Model!Lineage(p, n) =
         Model!Places(p, n) \o
         (IF NextPrototype(p) = p THEN <<>> ELSE Model!Lineage(NextPrototype(p), n))

LEMMA LineageEnds ==
  ASSUME NamesDiffer, LookupInv, ObjectsInv, NULL \notin Nat, NEW n \in Name
  PROVE  LineageIs(n)
<1> DEFINE L == Len(objects)
           Rest(p, f) == IF NextPrototype(p) = p THEN <<>> ELSE f[NextPrototype(p)]
           F(f) == [p \in Existing |-> Model!Places(p, n) \o Rest(p, f)]
           G == [Existing -> Seq(Existing)]
           step == [f \in G |-> F(f)]
<1>1. L \in Nat /\ Existing = 1 .. L
  BY ObjectsAreASequence DEF ObjectsInv
<1>2. PICK rank \in [Existing -> Nat] : Descends(rank)
  BY PrototypesEnd
<1>3. \A p \in Existing : NextPrototype(p) \in Existing
  BY PrototypesEnd
<1>4. ASSUME NEW f \in G, NEW p \in Existing PROVE Model!Places(p, n) \o Rest(p, f) \in Seq(Existing)
  <2>1. Model!Places(p, n) \in Seq(Existing)
    BY PlacesEnd DEF PlacesAre
  <2>2. Rest(p, f) \in Seq(Existing)
    BY <1>3
  <2> HIDE DEF Rest
  <2> QED  BY <2>1, <2>2
<1>5. ASSUME NEW f, NEW h, NEW p \in Existing,
             \A q \in Existing : rank[q] < rank[p] => f[q] = h[q]
      PROVE  Rest(p, f) = Rest(p, h)
  BY <1>2, <1>3, <1>5 DEF Descends
<1> HIDE DEF Rest
<1>6. \E g \in G : g = F(g)
  <2>1. step \in [G -> G]
    BY <1>4
  <2>2. \A f \in G : step[f] = F(f)
    OBVIOUS
  <2>3. \A f \in G, p \in Existing : step[f][p] = Model!Places(p, n) \o Rest(p, f)
    OBVIOUS
  <2> DEFINE S == Seq(Existing)
  <2>4. S # {}
    BY NoSequence
  <2>5. DependsOnLower(Existing, S, rank, step)
    <3> SUFFICES ASSUME NEW f \in [Existing -> S], NEW h \in [Existing -> S], NEW p \in Existing,
                        \A q \in Existing : rank[q] < rank[p] => f[q] = h[q]
                 PROVE  step[f][p] = step[h][p]
      BY DEF DependsOnLower
    <3>1. Rest(p, f) = Rest(p, h)
      BY <1>5
    <3> QED  BY <2>3, <3>1
  <2>6. step \in [[Existing -> S] -> [Existing -> S]]
    BY <2>1
  <2> HIDE DEF step, S, L, F
  <2>7. HasRecursion(Existing, S, rank)
    BY <1>1, <1>2, <2>4, RecursionEnds
  <2>8. \E f \in [Existing -> S] : f = step[f]
    BY <2>5, <2>6, <2>7 DEF HasRecursion
  <2> QED  BY <2>2, <2>8 DEF S
<1>7. PICK g \in G : g = F(g)
  BY <1>6
<1> DEFINE c == CHOOSE f : f = F(f)
<1>8. c = F(c)
  <2> HIDE DEF F
  <2> QED  BY <1>7
<1>9. \A p \in Existing : Model!Lineage(p, n) = c[p]
  <2> DEFINE A == [o \in Existing |-> NextPrototype(o)]
             M(f) == [p \in Model!Existing |->
                        Model!Places(p, n) \o (IF A[p] = p THEN <<>> ELSE f[A[p]])]
  <2>1. ASSUME NEW f PROVE M(f) = F(f)
    <3>1. Model!Existing = Existing
      BY DEF Model!Existing
    <3>2. \A p \in Existing : A[p] = NextPrototype(p)
      OBVIOUS
    <3> HIDE DEF A
    <3> QED  BY <3>1, <3>2 DEF Rest
  <2>2. \A p \in Existing : Model!Lineage(p, n) = (CHOOSE f : f = M(f))[p]
    BY DEF Model!Lineage
  <2>3. (CHOOSE f : f = M(f)) = (CHOOSE f : f = F(f))
    <3> HIDE DEF M, F
    <3> QED  BY <2>1
  <2> QED  BY <2>2, <2>3
<1> HIDE DEF c
<1>10. \A p \in Existing : /\ c[p] = Model!Places(p, n) \o Rest(p, c)
                           /\ g[p] = Model!Places(p, n) \o Rest(p, g)
  BY <1>7, <1>8
<1>11. \A p \in Existing : c[p] = g[p]
  <2> DEFINE Good == {p \in Existing : c[p] = g[p]}
  <2>1. ASSUME NEW p \in Existing, \A q \in Existing : rank[q] < rank[p] => q \in Good
        PROVE  p \in Good
    <3>1. \A q \in Existing : rank[q] < rank[p] => c[q] = g[q]
      BY <2>1
    <3>2. Rest(p, c) = Rest(p, g)
      BY <1>5, <3>1
    <3>3. c[p] = g[p]
      BY <1>10, <3>2
    <3> QED  BY <3>3
  <2>2. \A p \in Existing : (\A q \in Existing : rank[q] < rank[p] => q \in Good) => p \in Good
    BY <2>1
  <2> HIDE DEF Good
  <2>3. \A p \in Existing : p \in Good
    BY <2>2, ByRank
  <2> QED  BY <2>3 DEF Good
<1>12. ASSUME NEW p \in Existing
       PROVE  /\ Model!Lineage(p, n) \in Seq(Existing)
              /\ Model!Lineage(p, n) = Model!Places(p, n) \o
                   (IF NextPrototype(p) = p THEN <<>> ELSE Model!Lineage(NextPrototype(p), n))
  BY <1>3, <1>9, <1>10, <1>11 DEF Rest
<1> QED  BY <1>12 DEF LineageIs

GivenIs ==
  \A p \in Existing :
    /\ Model!Given(p) \in Seq(Existing)
    /\ Model!Given(p) = <<p>> \o (IF Prototype(p) = NULL THEN <<>> ELSE Model!Given(Prototype(p)))

LEMMA GivenEnds ==
  ASSUME NamesDiffer, LookupInv, ObjectsInv, NULL \notin Nat
  PROVE  GivenIs
<1> DEFINE L == Len(objects)
           Rest(p, f) == IF Prototype(p) = NULL THEN <<>> ELSE f[Prototype(p)]
           F(f) == [p \in Existing |-> <<p>> \o Rest(p, f)]
           G == [Existing -> Seq(Existing)]
           step == [f \in G |-> F(f)]
<1>1. L \in Nat /\ Existing = 1 .. L
  BY ObjectsAreASequence DEF ObjectsInv
<1>2. PICK rank \in [Existing -> Nat] : Descends(rank)
  BY PrototypesEnd
<1>3. \A p \in Existing : Prototype(p) # NULL => Prototype(p) \in Existing /\ rank[Prototype(p)] < rank[p]
  BY <1>2, PrototypesEnd DEF Descends
<1>4. ASSUME NEW f \in G, NEW p \in Existing PROVE <<p>> \o Rest(p, f) \in Seq(Existing)
  <2>1. Rest(p, f) \in Seq(Existing)
    BY <1>3
  <2> HIDE DEF Rest
  <2> QED  BY <2>1
<1>5. ASSUME NEW f, NEW h, NEW p \in Existing,
             \A q \in Existing : rank[q] < rank[p] => f[q] = h[q]
      PROVE  Rest(p, f) = Rest(p, h)
  BY <1>3, <1>5
<1> HIDE DEF Rest
<1>6. \E g \in G : g = F(g)
  <2>1. step \in [G -> G]
    BY <1>4
  <2>2. \A f \in G : step[f] = F(f)
    OBVIOUS
  <2>3. \A f \in G, p \in Existing : step[f][p] = <<p>> \o Rest(p, f)
    OBVIOUS
  <2> DEFINE S == Seq(Existing)
  <2>4. S # {}
    BY NoSequence
  <2>5. DependsOnLower(Existing, S, rank, step)
    <3> SUFFICES ASSUME NEW f \in [Existing -> S], NEW h \in [Existing -> S], NEW p \in Existing,
                        \A q \in Existing : rank[q] < rank[p] => f[q] = h[q]
                 PROVE  step[f][p] = step[h][p]
      BY DEF DependsOnLower
    <3>1. Rest(p, f) = Rest(p, h)
      BY <1>5
    <3> QED  BY <2>3, <3>1
  <2>6. step \in [[Existing -> S] -> [Existing -> S]]
    BY <2>1
  <2> HIDE DEF step, S, L, F
  <2>7. HasRecursion(Existing, S, rank)
    BY <1>1, <1>2, <2>4, RecursionEnds
  <2>8. \E f \in [Existing -> S] : f = step[f]
    BY <2>5, <2>6, <2>7 DEF HasRecursion
  <2> QED  BY <2>2, <2>8 DEF S
<1>7. PICK g \in G : g = F(g)
  BY <1>6
<1> DEFINE c == CHOOSE f : f = F(f)
<1>8. c = F(c)
  <2> HIDE DEF F
  <2> QED  BY <1>7
<1>9. \A p \in Existing : Model!Given(p) = c[p]
  <2> DEFINE A == [o \in Existing |-> objects[o].prototype]
             M(f) == [p \in Model!Existing |-> <<p>> \o (IF A[p] = NULL THEN <<>> ELSE f[A[p]])]
  <2>1. ASSUME NEW f PROVE M(f) = F(f)
    <3>1. Model!Existing = Existing
      BY DEF Model!Existing
    <3>2. \A p \in Existing : A[p] = Prototype(p)
      BY DEF Prototype
    <3> HIDE DEF A
    <3> QED  BY <3>1, <3>2 DEF Rest
  <2>2. \A p \in Existing : Model!Given(p) = (CHOOSE f : f = M(f))[p]
    BY DEF Model!Given
  <2>3. (CHOOSE f : f = M(f)) = (CHOOSE f : f = F(f))
    <3> HIDE DEF M, F
    <3> QED  BY <2>1
  <2> QED  BY <2>2, <2>3
<1> HIDE DEF c
<1>10. \A p \in Existing : c[p] = <<p>> \o Rest(p, c) /\ g[p] = <<p>> \o Rest(p, g)
  BY <1>7, <1>8
<1>11. \A p \in Existing : c[p] = g[p]
  <2> DEFINE Good == {p \in Existing : c[p] = g[p]}
  <2>1. ASSUME NEW p \in Existing, \A q \in Existing : rank[q] < rank[p] => q \in Good
        PROVE  p \in Good
    <3>1. \A q \in Existing : rank[q] < rank[p] => c[q] = g[q]
      BY <2>1
    <3>2. Rest(p, c) = Rest(p, g)
      BY <1>5, <3>1
    <3>3. c[p] = g[p]
      BY <1>10, <3>2
    <3> QED  BY <3>3
  <2>2. \A p \in Existing : (\A q \in Existing : rank[q] < rank[p] => q \in Good) => p \in Good
    BY <2>1
  <2> HIDE DEF Good
  <2>3. \A p \in Existing : p \in Good
    BY <2>2, ByRank
  <2> QED  BY <2>3 DEF Good
<1>12. ASSUME NEW p \in Existing
       PROVE  /\ Model!Given(p) \in Seq(Existing)
              /\ Model!Given(p) = <<p>> \o (IF Prototype(p) = NULL THEN <<>> ELSE Model!Given(Prototype(p)))
  BY <1>3, <1>9, <1>10, <1>11 DEF Rest
<1> QED  BY <1>12 DEF GivenIs

(***************************************************************************)
(* Lookups find what the places of ObjectModel offer                       *)
(***************************************************************************)
LEMMA PlacesSeen ==
  ASSUME NamesDiffer, LookupInv, ObjectsInv, NEW n \in Name, NEW p \in Existing,
         NEW getter, getter = ArrayGet(objects[p].property_data, 2 * Of(p, n)),
         NEW member, member = MapGet(objects[p].members, n)
  PROVE  Seen(Here(n), Model!Places(p, n)) =
           IF Of(p, n) >= 0
           THEN IF EvalTruth(getter) THEN Called(Nothing, getter) ELSE [Nothing EXCEPT !.value = Trap]
           ELSE IF member # NULL THEN [Nothing EXCEPT !.value = member]
           ELSE FirstAnswer([j \in DOMAIN Modules(p) |-> Seen(Here(n), Model!Places(Modules(p)[j], n))])
<1> DEFINE here == Here(n)
           V == ValuesOf(n)
           one == <<p>>
           s == [j \in DOMAIN Modules(p) |-> Model!Places(Modules(p)[j], n)]
<1>1. NULL \in V /\ here \in [Existing -> Answers(V)]
  BY HereIs
<1>2. /\ Of(p, n) \in Int
      /\ Of(p, n) >= 0 =>
           here[p] = IF EvalTruth(getter) THEN Called(Nothing, getter)
                     ELSE [Nothing EXCEPT !.value = Trap]
      /\ Of(p, n) < 0 /\ member # NULL => here[p] = [Nothing EXCEPT !.value = member]
      /\ Of(p, n) < 0 /\ member = NULL => here[p] = Nothing
  <2>1. Of(p, n) \in Int
    BY HalfIs
  <2> QED  BY <2>1, HereIsGet
<1>3. \A q \in Existing : Model!Places(q, n) \in Seq(Existing)
  BY PlacesEnd DEF PlacesAre
<1>4. Model!Places(p, n) = one \o (IF Of(p, n) >= 0 THEN <<>> ELSE FlattenSeq(s))
  BY PlacesEnd DEF PlacesAre
<1>5. s \in Seq(Seq(Existing)) /\ DOMAIN s = DOMAIN Modules(p)
      /\ \A j \in DOMAIN Modules(p) : s[j] = Model!Places(Modules(p)[j], n)
  <2> DEFINE S == Seq(Existing)
  <2>1. /\ DOMAIN Modules(p) = 1 .. Len(Modules(p)) /\ Len(Modules(p)) \in Nat
        /\ \A j \in 1 .. Len(Modules(p)) : Modules(p)[j] \in Existing
    <3>1. Modules(p) \in Seq(Existing)
      BY DEF ObjectsInv, ModulesInv
    <3> QED  BY <3>1
  <2>2. \A j \in 1 .. Len(Modules(p)) : Model!Places(Modules(p)[j], n) \in S
    BY <1>3, <2>1
  <2> HIDE DEF S
  <2>3. s \in Seq(S)
    BY <2>1, <2>2
  <2> QED  BY <2>3 DEF S
<1>6. one \in Seq(Existing) /\ here[p] \in Answers(V)
  BY <1>1
<1> HIDE DEF here, V
<1>7. Seen(here, one) = here[p]
  BY <1>1, SeenOne DEF one
<1>8. /\ \A u, v \in Seq(Existing) : Seen(here, u \o v) = Then(Seen(here, u), Seen(here, v))
      /\ Seen(here, <<>>) = Nothing /\ \A u \in Seq(Existing) : Seen(here, u) \in Answers(V)
  BY <1>1, SeenJoined, SeenTyped
<1>9. \A a \in Answers(V) : Then(Nothing, a) = a /\ Then(a, Nothing) = a
  BY <1>1, ThenIs
<1> HIDE DEF one
<1>10. CASE Of(p, n) >= 0
  <2>1. Model!Places(p, n) = one \o <<>>
    BY <1>4, <1>10
  <2>2. one \o <<>> = one
    BY <1>6
  <2> QED  BY <1>2, <1>7, <1>10, <2>1, <2>2 DEF here
<1>11. CASE Of(p, n) < 0
  <2> DEFINE t == FlattenSeq(s)
  <2>1. t \in Seq(Existing)
    <3> HIDE DEF s
    <3> QED  BY <1>5, FlattenTyped
  <2>2. Model!Places(p, n) = one \o t
    BY <1>2, <1>4, <1>11
  <2>3. Seen(here, t) = FirstAnswer([j \in DOMAIN s |-> Seen(here, s[j])])
    <3> HIDE DEF s
    <3> QED  BY <1>1, <1>5, SeenFlattened
  <2> HIDE DEF t
  <2>4. Seen(here, one \o t) = Then(here[p], Seen(here, t)) /\ Seen(here, t) \in Answers(V)
    BY <1>6, <1>7, <1>8, <2>1
  <2>5. CASE member # NULL
    <3>1. here[p] = [Nothing EXCEPT !.value = member] /\ here[p].value = member
      BY <1>2, <1>11, <2>5 DEF Nothing
    <3>2. Then(here[p], Seen(here, t)) = here[p]
      BY <2>5, <3>1 DEF Then, HasAnswer
    <3> QED  BY <1>2, <1>11, <2>2, <2>4, <2>5, <3>1, <3>2 DEF here
  <2>6. CASE member = NULL
    <3>1. here[p] = Nothing
      BY <1>2, <1>11, <2>6
    <3>2. Then(Nothing, Seen(here, t)) = Seen(here, t)
      BY <1>9, <2>4
    <3>3. [j \in DOMAIN s |-> Seen(here, s[j])]
            = [j \in DOMAIN Modules(p) |-> Seen(here, Model!Places(Modules(p)[j], n))]
      <4> HIDE DEF s
      <4> QED  BY <1>5
    <3>4. Seen(here, Model!Places(p, n))
            = FirstAnswer([j \in DOMAIN Modules(p) |-> Seen(here, Model!Places(Modules(p)[j], n))])
      BY <2>2, <2>3, <2>4, <3>1, <3>2, <3>3
    <3> QED  BY <1>2, <1>11, <2>6, <3>4 DEF here
  <2> QED  BY <2>5, <2>6
<1> QED  BY <1>2, <1>10, <1>11

\* object_get_member_without_prototype_but_with_modules
LEMMA GetIsSeen ==
  ASSUME NamesDiffer, LookupInv, ObjectsInv, NEW n \in Name
  PROVE  \A p \in Existing : GetWithoutPrototype(p, n) = Seen(Here(n), Model!Places(p, n))
<1> DEFINE F(f) ==
             [p \in Existing |->
               LET found == ArrayFind(objects[p].property_names, n)
                   getter == ArrayGet(objects[p].property_data, 2 * found)
                   member == MapGet(objects[p].members, n)
               IN IF found >= 0
                  THEN IF EvalTruth(getter) THEN Called(Nothing, getter)
                       ELSE [Nothing EXCEPT !.value = Trap]
                  ELSE IF member # NULL THEN [Nothing EXCEPT !.value = member]
                  ELSE FirstAnswer([k \in DOMAIN objects[p].included_modules |->
                                      f[objects[p].included_modules[k]]])]
           g == [p \in Existing |-> Seen(Here(n), Model!Places(p, n))]
           Found(p) == Of(p, n) >= 0 \/ MapGet(objects[p].members, n) # NULL
           Own(p) == IF Of(p, n) >= 0
                     THEN IF EvalTruth(ArrayGet(objects[p].property_data, 2 * Of(p, n)))
                          THEN Called(Nothing, ArrayGet(objects[p].property_data, 2 * Of(p, n)))
                          ELSE [Nothing EXCEPT !.value = Trap]
                     ELSE [Nothing EXCEPT !.value = MapGet(objects[p].members, n)]
           Rest(p, f) == FirstAnswer([j \in DOMAIN Modules(p) |-> f[Modules(p)[j]]])
<1>1. \A f, p : p \in Existing => F(f)[p] = IF Found(p) THEN Own(p) ELSE Rest(p, f)
  BY DEF Of, Modules
<1>2. \A p \in Existing : \A j \in DOMAIN Modules(p) : Modules(p)[j] \in Existing
  <2>1. \A p \in Existing : Modules(p) \in Seq(Existing)
    BY DEF ObjectsInv, ModulesInv
  <2> QED  BY <2>1
<1>3. ASSUME NEW p \in Existing PROVE g[p] = IF Found(p) THEN Own(p) ELSE Rest(p, g)
  <2>1. [j \in DOMAIN Modules(p) |-> Seen(Here(n), Model!Places(Modules(p)[j], n))]
          = [j \in DOMAIN Modules(p) |-> g[Modules(p)[j]]]
    BY <1>2
  <2> DEFINE getter == ArrayGet(objects[p].property_data, 2 * Of(p, n))
             member == MapGet(objects[p].members, n)
  <2> HIDE DEF getter, member
  <2>2. Seen(Here(n), Model!Places(p, n)) =
           IF Of(p, n) >= 0
           THEN IF EvalTruth(getter) THEN Called(Nothing, getter) ELSE [Nothing EXCEPT !.value = Trap]
           ELSE IF member # NULL THEN [Nothing EXCEPT !.value = member]
           ELSE FirstAnswer([j \in DOMAIN Modules(p) |-> Seen(Here(n), Model!Places(Modules(p)[j], n))])
    BY PlacesSeen DEF getter, member
  <2>3. g[p] = Seen(Here(n), Model!Places(p, n))
    OBVIOUS
  <2> HIDE DEF g
  <2> QED  BY <2>1, <2>2, <2>3 DEF getter, member
<1> HIDE DEF Found, Own
<1>4. PICK rank \in [Existing -> Nat] : Ranked(rank)
  BY DEF ObjectsInv, ModulesInv
<1>5. ASSUME NEW f, NEW h, NEW p \in Existing,
             \A q \in Existing : rank[q] < rank[p] => f[q] = h[q]
      PROVE  Rest(p, f) = Rest(p, h)
  <2>1. \A j \in DOMAIN Modules(p) : f[Modules(p)[j]] = h[Modules(p)[j]]
    BY <1>2, <1>4, <1>5 DEF Ranked
  <2>2. [j \in DOMAIN Modules(p) |-> f[Modules(p)[j]]] = [j \in DOMAIN Modules(p) |-> h[Modules(p)[j]]]
    BY <2>1
  <2> QED  BY <2>2
<1> HIDE DEF Rest
<1>6. g = F(g)
  <2>1. \A p \in Existing : g[p] = F(g)[p]
    <3> HIDE DEF g, F
    <3> QED  BY <1>1, <1>3
  <2>2. g = [p \in Existing |-> g[p]] /\ F(g) = [p \in Existing |-> F(g)[p]]
    OBVIOUS
  <2> HIDE DEF g, F
  <2> QED  BY <2>1, <2>2
<1> DEFINE c == CHOOSE f : f = F(f)
<1>7. c = F(c)
  <2> HIDE DEF F, g
  <2> QED  BY <1>6
<1>8. \A p \in Existing : GetWithoutPrototype(p, n) = c[p]
  BY DEF GetWithoutPrototype
<1> HIDE DEF c
<1>9. \A p \in Existing : c[p] = IF Found(p) THEN Own(p) ELSE Rest(p, c)
  <2> HIDE DEF F
  <2> QED  BY <1>1, <1>7
<1> HIDE DEF F
<1>10. \A p \in Existing : c[p] = g[p]
  <2> DEFINE Good == {p \in Existing : c[p] = g[p]}
  <2>1. ASSUME NEW p \in Existing, \A q \in Existing : rank[q] < rank[p] => q \in Good
        PROVE  p \in Good
    <3> HIDE DEF g
    <3>1. \A q \in Existing : rank[q] < rank[p] => c[q] = g[q]
      BY <2>1
    <3>2. Rest(p, c) = Rest(p, g)
      BY <1>5, <3>1
    <3>3. c[p] = g[p]
      BY <1>3, <1>9, <3>2
    <3> QED  BY <3>3
  <2>2. \A p \in Existing : (\A q \in Existing : rank[q] < rank[p] => q \in Good) => p \in Good
    BY <2>1
  <2> HIDE DEF Good
  <2>3. \A p \in Existing : p \in Good
    BY <2>2, ByRank
  <2> HIDE DEF g
  <2> QED  BY <2>3 DEF Good
<1> QED  BY <1>8, <1>10

\* snow_get_member
LEMMA MemberIsSeen ==
  ASSUME NamesDiffer, LookupInv, ObjectsInv, NULL \notin Nat, NEW n \in Name
  PROVE  \A p \in Existing : GetMember(p, n) = Seen(Here(n), Model!Lineage(p, n))
<1> DEFINE F(f) ==
             [p \in Existing |->
               LET here == GetWithoutPrototype(p, n)
               IN IF HasAnswer(here) \/ NextPrototype(p) = p THEN here
                  ELSE Then(here, f[NextPrototype(p)])]
           g == [p \in Existing |-> Seen(Here(n), Model!Lineage(p, n))]
           Own(p) == GetWithoutPrototype(p, n)
           Ends(p) == HasAnswer(Own(p)) \/ NextPrototype(p) = p
           V == ValuesOf(n)
<1>1. \A f, p : p \in Existing =>
        F(f)[p] = IF Ends(p) THEN Own(p) ELSE Then(Own(p), f[NextPrototype(p)])
  OBVIOUS
<1>2. NULL \in V /\ Here(n) \in [Existing -> Answers(V)]
  BY HereIs
<1>3. \A p \in Existing : NextPrototype(p) \in Existing
  BY PrototypesEnd
<1>4. ASSUME NEW p \in Existing
      PROVE  g[p] = IF Ends(p) THEN Own(p) ELSE Then(Own(p), g[NextPrototype(p)])
  <2> DEFINE places == Model!Places(p, n)
             next == Model!Lineage(NextPrototype(p), n)
  <2>1. places \in Seq(Existing) /\ next \in Seq(Existing)
    BY <1>3, PlacesEnd, LineageEnds DEF PlacesAre, LineageIs
  <2>2. Model!Lineage(p, n) = places \o (IF NextPrototype(p) = p THEN <<>> ELSE next)
    BY LineageEnds DEF LineageIs
  <2>3. Own(p) = Seen(Here(n), places)
    BY GetIsSeen
  <2>4. g[p] = Seen(Here(n), Model!Lineage(p, n)) /\ g[NextPrototype(p)] = Seen(Here(n), next)
    BY <1>3
  <2> HIDE DEF places, next, g, Own, V
  <2>5. Own(p) \in Answers(V)
    BY <1>2, <2>1, <2>3, SeenTyped
  <2>6. CASE NextPrototype(p) = p
    <3>1. places \o <<>> = places
      BY <2>1
    <3> QED  BY <2>2, <2>3, <2>4, <2>6, <3>1
  <2>7. CASE NextPrototype(p) # p
    <3>1. \A u, v \in Seq(Existing) : Seen(Here(n), u \o v) = Then(Seen(Here(n), u), Seen(Here(n), v))
      BY <1>2, SeenJoined
    <3>2. g[p] = Then(Own(p), g[NextPrototype(p)])
      BY <2>1, <2>2, <2>3, <2>4, <2>7, <3>1
    <3>3. HasAnswer(Own(p)) => Then(Own(p), g[NextPrototype(p)]) = Own(p)
      BY DEF Then
    <3> QED  BY <2>7, <3>2, <3>3
  <2> QED  BY <2>6, <2>7
<1> HIDE DEF Own, Ends
<1>5. PICK rank \in [Existing -> Nat] : Descends(rank)
  BY PrototypesEnd
<1>6. g = F(g)
  <2>1. \A p \in Existing : g[p] = F(g)[p]
    <3> HIDE DEF g, F
    <3> QED  BY <1>1, <1>4
  <2>2. g = [p \in Existing |-> g[p]] /\ F(g) = [p \in Existing |-> F(g)[p]]
    OBVIOUS
  <2> HIDE DEF g, F
  <2> QED  BY <2>1, <2>2
<1> DEFINE c == CHOOSE f : f = F(f)
<1>7. c = F(c)
  <2> HIDE DEF F, g
  <2> QED  BY <1>6
<1>8. \A p \in Existing : GetMember(p, n) = c[p]
  BY DEF GetMember
<1> HIDE DEF c
<1>9. \A p \in Existing : c[p] = IF Ends(p) THEN Own(p) ELSE Then(Own(p), c[NextPrototype(p)])
  <2> HIDE DEF F
  <2> QED  BY <1>1, <1>7
<1> HIDE DEF F
<1>10. \A p \in Existing : c[p] = g[p]
  <2> DEFINE Good == {p \in Existing : c[p] = g[p]}
  <2>1. ASSUME NEW p \in Existing, \A q \in Existing : rank[q] < rank[p] => q \in Good
        PROVE  p \in Good
    <3> HIDE DEF g
    <3>1. \A q \in Existing : rank[q] < rank[p] => c[q] = g[q]
      BY <2>1
    <3>2. ~Ends(p) => NextPrototype(p) # p
      BY DEF Ends
    <3>3. ~Ends(p) => c[NextPrototype(p)] = g[NextPrototype(p)]
      BY <1>3, <1>5, <3>1, <3>2 DEF Descends
    <3>4. c[p] = g[p]
      BY <1>4, <1>9, <3>3
    <3> QED  BY <3>4
  <2>2. \A p \in Existing : (\A q \in Existing : rank[q] < rank[p] => q \in Good) => p \in Good
    BY <2>1
  <2> HIDE DEF Good
  <2>3. \A p \in Existing : p \in Good
    BY <2>2, ByRank
  <2> HIDE DEF g
  <2> QED  BY <2>3 DEF Good
<1> QED  BY <1>8, <1>10

LEMMA OfferIs ==
  ASSUME NamesDiffer, LookupInv, NEW p \in Existing, NEW n \in Name
  PROVE  Model!Offer(p, n) = Offered(p, n)
<1> DEFINE getters == [o \in Existing |-> [m \in Name |-> Half(o, m, 0)]]
           members == [o \in Existing |-> [m \in Name |-> MapGet(objects[o].members, m)]]
<1>1. getters[p][n] = Half(p, n, 0) /\ members[p][n] = MapGet(objects[p].members, n)
  OBVIOUS
<1>2. Model!Offer(p, n) = IF Model!HasProperty(p, n)
                          THEN IF getters[p][n] = NULL THEN Trap ELSE Returned(getters[p][n])
                          ELSE members[p][n]
  BY DEF Model!Offer
<1> HIDE DEF getters, members
<1>3. (Model!HasProperty(p, n) <=> Of(p, n) >= 0) /\ Of(p, n) \in Int
  <2>1. 0 \in {0, 1}
    OBVIOUS
  <2> QED  BY <2>1, ModelIs, HalfIs
<1>4. Model!HasProperty(p, n) <=> ~(Of(p, n) < 0)
  BY <1>3
<1> QED  BY <1>1, <1>2, <1>4 DEF Offered

LEMMA LookupIs ==
  ASSUME NamesDiffer, LookupInv, ObjectsInv, NULL \notin Nat, NEW o \in Existing, NEW n \in Name
  PROVE  Model!Lookup(o, n) = GetMember(o, n)
<1> DEFINE places == Model!Lineage(o, n)
           I == {j \in 1 .. Len(places) : Model!Offer(places[j], n) # NULL}
           first == IF I # {} THEN Model!Min(I) ELSE 0
           M == IF first = 0 THEN Len(places) ELSE first
           getters == [p \in Existing |-> [m \in Name |-> Half(p, m, 0)]]
           asked(j) == IF getters[places[j]][n] \in Functions THEN <<getters[places[j]][n]>> ELSE <<>>
           here == Here(n)
<1>1. Model!Lookup(o, n) =
        [value |-> IF first = 0 THEN NULL ELSE Model!Offer(places[first], n),
         calls |-> Model!FlattenSeq([j \in 1 .. M |-> asked(j)])]
  BY DEF Model!Lookup, Model!SelectInSeq, Functions
<1>2. places \in Seq(Existing)
  BY LineageEnds DEF LineageIs
<1> HIDE DEF places
<1>3. Len(places) \in Nat /\ \A j \in 1 .. Len(places) : places[j] \in Existing
  BY <1>2
<1>4. ASSUME NEW j \in 1 .. Len(places)
      PROVE  /\ Model!Offer(places[j], n) = here[places[j]].value
             /\ asked(j) = here[places[j]].calls
  <2> DEFINE p == places[j]
  <2>1. p \in Existing
    BY <1>3
  <2> HIDE DEF p
  <2>2. here[p].value = Offered(p, n) /\ here[p].calls = Asked(p, n) /\ getters[p][n] = Half(p, n, 0)
    BY <2>1 DEF Here
  <2>3. Model!Offer(p, n) = Offered(p, n)
    BY <2>1, OfferIs
  <2> HIDE DEF here, getters
  <2> QED  BY <2>2, <2>3 DEF Asked, p
<1> HIDE DEF asked, here, getters
<1>5. I = {j \in 1 .. Len(places) : here[places[j]].value # NULL}
  BY <1>4
<1>6. first = IF I # {} THEN Min(I) ELSE 0
  BY SameOperators
<1>7. I \in SUBSET (1 .. Len(places))
  OBVIOUS
<1> HIDE DEF I, first
<1>8. /\ first \in 0 .. Len(places)
      /\ first # 0 => first \in I
      /\ \A j \in 1 .. Len(places) : first = 0 \/ j < first => j \notin I
  <2> DEFINE L == Len(places)
  <2>1. L \in Nat /\ I \in SUBSET (1 .. L)
    BY <1>3, <1>7
  <2> HIDE DEF L
  <2>2. /\ first \in 0 .. L
        /\ first # 0 => first \in I
        /\ \A j \in 1 .. L : first = 0 \/ j < first => j \notin I
    BY <1>6, <2>1, SelectedIs
  <2> QED  BY <2>2 DEF L
<1>9. first # 0 => first \in 1 .. Len(places) /\ here[places[first]].value # NULL
  BY <1>3, <1>5, <1>8
<1>10. \A j \in 1 .. Len(places) : first = 0 \/ j < first => here[places[j]].value = NULL
  BY <1>5, <1>8
<1>11. Seen(here, places) =
           [value |-> IF first = 0 THEN NULL ELSE here[places[first]].value,
            calls |-> FlattenSeq([j \in 1 .. M |-> here[places[j]].calls])]
  <2> DEFINE V == ValuesOf(n)
  <2>1. NULL \in V /\ here \in [Existing -> Answers(V)]
    BY HereIs DEF here
  <2> HIDE DEF V
  <2> QED  BY <2>1, <1>2, <1>8, <1>9, <1>10, SeenIs
<1>12. [j \in 1 .. M |-> here[places[j]].calls] = [j \in 1 .. M |-> asked(j)]
  <2>1. \A j \in 1 .. M : j \in 1 .. Len(places)
    BY <1>3, <1>8
  <2> HIDE DEF M
  <2> QED  BY <1>4, <2>1
<1>13. Model!FlattenSeq([j \in 1 .. M |-> asked(j)]) = FlattenSeq([j \in 1 .. M |-> here[places[j]].calls])
  <2> HIDE DEF M
  <2> QED  BY <1>12, SameOperators
<1>14. Model!Lookup(o, n) = Seen(here, places)
  <2> HIDE DEF M
  <2> QED  BY <1>1, <1>4, <1>9, <1>11, <1>13
<1> QED  BY <1>14, MemberIsSeen DEF here, places

\* snow_get_member_with_fallback
Fallback(o, n) ==
  LET member == GetMember(o, n)
      missing == Then(member, GetMember(o, "member_missing"))
  IN IF HasAnswer(member) \/ ~HasAnswer(missing) \/ missing.value = Trap
     THEN [missing EXCEPT !.value = IF HasAnswer(member) THEN member.value ELSE @]
     ELSE Called(missing, missing.value)

LEMMA FallbackIs ==
  ASSUME NamesDiffer, LookupInv, ObjectsInv, NULL \notin Nat, NEW o \in Existing, NEW n \in Name
  PROVE  "member_missing" \in Name /\ Fallback(o, n) = Model!LookupOrMissing(o, n)
<1> DEFINE own == GetMember(o, n)
           missing == GetMember(o, "member_missing")
           asks == missing.value \in {NULL, Trap}
<1>1. "member_missing" \in Name
  BY DEF NamesDiffer, Name
<1>2. Model!Lookup(o, n) = own /\ Model!Lookup(o, "member_missing") = missing
  BY <1>1, LookupIs
<1>3. \A m \in Name : GetMember(o, m) = [value |-> GetMember(o, m).value, calls |-> GetMember(o, m).calls]
                      /\ GetMember(o, m).calls \in Seq(Functions)
  <2> SUFFICES ASSUME NEW m \in Name
               PROVE  GetMember(o, m) = [value |-> GetMember(o, m).value, calls |-> GetMember(o, m).calls]
                      /\ GetMember(o, m).calls \in Seq(Functions)
    OBVIOUS
  <2> DEFINE V == ValuesOf(m)
             here == Here(m)
             s == Model!Lineage(o, m)
  <2>1. NULL \in V /\ here \in [Existing -> Answers(V)]
    BY HereIs
  <2>2. s \in Seq(Existing) /\ GetMember(o, m) = Seen(here, s)
    BY LineageEnds, MemberIsSeen DEF LineageIs
  <2> HIDE DEF V, here, s
  <2>3. GetMember(o, m) \in Answers(V)
    BY <2>1, <2>2, SeenTyped
  <2> QED  BY <2>3 DEF Answers
<1>4. /\ own = [value |-> own.value, calls |-> own.calls] /\ own.calls \in Seq(Functions)
      /\ missing = [value |-> missing.value, calls |-> missing.calls]
      /\ missing.calls \in Seq(Functions)
  BY <1>1, <1>3
<1> HIDE DEF own, missing
<1>5. Model!LookupOrMissing(o, n) =
        IF own.value # NULL THEN own
        ELSE [value |-> IF asks THEN missing.value ELSE Returned(missing.value),
              calls |-> own.calls \o missing.calls \o (IF asks THEN <<>> ELSE <<missing.value>>)]
  BY <1>2 DEF Model!LookupOrMissing
<1>6. CASE own.value # NULL
  <2>1. HasAnswer(own) /\ Then(own, missing) = own
    BY <1>6 DEF HasAnswer, Then
  <2>2. [own EXCEPT !.value = own.value] = own
    BY <1>4
  <2>3. Fallback(o, n) = own
    BY <2>1, <2>2 DEF Fallback, own, missing
  <2> QED  BY <1>1, <1>5, <1>6, <2>3
<1>7. CASE own.value = NULL
  <2> DEFINE both == [value |-> missing.value, calls |-> own.calls \o missing.calls]
  <2>1. ~HasAnswer(own) /\ Then(own, missing) = both
    BY <1>7 DEF HasAnswer, Then
  <2>2. Fallback(o, n) = IF ~HasAnswer(both) \/ both.value = Trap
                         THEN [both EXCEPT !.value = @] ELSE Called(both, both.value)
    <3> HIDE DEF both
    <3>1. Then(GetMember(o, n), GetMember(o, "member_missing")) = both /\ ~HasAnswer(GetMember(o, n))
      BY <2>1 DEF own, missing
    <3> QED  BY <3>1 DEF Fallback
  <2>3. own.calls \o missing.calls \in Seq(Functions)
    BY <1>4
  <2>4. CASE asks
    <3>1. own.calls \o missing.calls \o <<>> = own.calls \o missing.calls
      BY <2>3
    <3> QED  BY <1>1, <1>5, <1>7, <2>2, <2>4, <3>1 DEF HasAnswer
  <2>5. CASE ~asks
    <3> DEFINE s == own.calls \o missing.calls
               f == missing.value
    <3>1. s \o <<f>> = Append(s, f)
      <4>1. s \in Seq(Functions \cup {f})
        BY <2>3, LargerSequences
      <4> HIDE DEF s, f
      <4> QED  BY <4>1
    <3>2. Fallback(o, n) = [value |-> Returned(f), calls |-> Append(s, f)]
      BY <2>2, <2>5 DEF HasAnswer, Called
    <3> QED  BY <1>1, <1>5, <1>7, <2>5, <3>1, <3>2
  <2> QED  BY <2>4, <2>5
<1> QED  BY <1>6, <1>7

-----------------------------------------------------------------------------
(***************************************************************************)
(* Who writes                                                              *)
(***************************************************************************)
With(s, n) == {j \in 1 .. Len(s) : Of(s[j], n) >= 0}
FirstWith(s, n) == IF With(s, n) # {} THEN Min(With(s, n)) ELSE 0
WriterIn(s, n) == IF FirstWith(s, n) = 0 THEN NoEntry ELSE Half(s[FirstWith(s, n)], n, 1)

LEMMA FirstWithIs ==
  ASSUME NEW s \in Seq(Existing), NEW n
  PROVE  /\ FirstWith(s, n) \in 0 .. Len(s)
         /\ FirstWith(s, n) # 0 => Of(s[FirstWith(s, n)], n) >= 0
         /\ \A j \in 1 .. Len(s) : FirstWith(s, n) = 0 \/ j < FirstWith(s, n) => ~(Of(s[j], n) >= 0)
<1> DEFINE L == Len(s)
           I == With(s, n)
           first == FirstWith(s, n)
<1>1. L \in Nat /\ I \in SUBSET (1 .. L) /\ \A j \in 1 .. L : j \in I <=> Of(s[j], n) >= 0
  BY DEF With
<1>2. first = IF I # {} THEN Min(I) ELSE 0
  BY DEF FirstWith
<1> HIDE DEF L, I, first
<1>3. /\ first \in 0 .. L
      /\ first # 0 => first \in I
      /\ \A j \in 1 .. L : first = 0 \/ j < first => j \notin I
  BY <1>1, <1>2, SelectedIs
<1>4. first # 0 => first \in 1 .. L
  BY <1>1, <1>3
<1> QED  BY <1>1, <1>3, <1>4 DEF L, first

LEMMA WriterInMore ==
  ASSUME NEW p \in Existing, NEW t \in Seq(Existing), NEW n
  PROVE  /\ WriterIn(<<>>, n) = NoEntry
         /\ WriterIn(<<p>> \o t, n) = IF Of(p, n) >= 0 THEN Half(p, n, 1) ELSE WriterIn(t, n)
<1>1. WriterIn(<<>>, n) = NoEntry
  <2>1. With(<<>>, n) = {}
    BY DEF With
  <2> QED  BY <2>1 DEF WriterIn, FirstWith
<1> DEFINE s == <<p>> \o t
           f == FirstWith(s, n)
           h == FirstWith(t, n)
<1>2. /\ Len(t) \in Nat /\ s \in Seq(Existing) /\ Len(s) = Len(t) + 1 /\ s[1] = p
      /\ \A j \in 1 .. Len(t) : s[j + 1] = t[j]
  OBVIOUS
<1> HIDE DEF s
<1>3. /\ f \in 0 .. Len(t) + 1
      /\ f # 0 => Of(s[f], n) >= 0
      /\ \A j \in 1 .. Len(t) + 1 : f = 0 \/ j < f => ~(Of(s[j], n) >= 0)
  BY <1>2, FirstWithIs
<1>4. /\ h \in 0 .. Len(t)
      /\ h # 0 => Of(t[h], n) >= 0
      /\ \A j \in 1 .. Len(t) : h = 0 \/ j < h => ~(Of(t[j], n) >= 0)
  BY FirstWithIs
<1>5. WriterIn(s, n) = (IF f = 0 THEN NoEntry ELSE Half(s[f], n, 1))
  BY DEF WriterIn
<1>6. WriterIn(t, n) = (IF h = 0 THEN NoEntry ELSE Half(t[h], n, 1))
  BY DEF WriterIn
<1> HIDE DEF f, h
<1>7. CASE Of(p, n) >= 0
  <2>1. 1 \in 1 .. Len(t) + 1
    BY <1>2
  <2>2. f = 1
    BY <1>2, <1>3, <1>7, <2>1
  <2> QED  BY <1>1, <1>2, <1>5, <1>7, <2>2 DEF s
<1>8. CASE ~(Of(p, n) >= 0)
  <2>1. f # 1
    BY <1>2, <1>3, <1>8
  <2>2. f # 0 => f - 1 \in 1 .. Len(t) /\ s[f] = t[f - 1]
    <3> SUFFICES ASSUME f # 0 PROVE f - 1 \in 1 .. Len(t) /\ s[f] = t[f - 1]
      OBVIOUS
    <3>1. f - 1 \in 1 .. Len(t) /\ (f - 1) + 1 = f
      BY <1>2, <1>3, <2>1
    <3> QED  BY <1>2, <3>1
  <2>3. f # 0 => h # 0 /\ ~(f - 1 < h)
    BY <1>3, <1>4, <2>2
  <2>4. h # 0 => h \in 1 .. Len(t) /\ h + 1 \in 1 .. Len(t) + 1 /\ s[h + 1] = t[h]
    BY <1>2, <1>4
  <2>5. h # 0 => f # 0 /\ ~(h + 1 < f)
    BY <1>3, <1>4, <2>4
  <2>6. CASE h = 0
    <3>1. f = 0
      BY <2>3, <2>6
    <3> QED  BY <1>1, <1>5, <1>6, <1>8, <2>6, <3>1 DEF s
  <2>7. CASE h # 0
    <3>1. f = h + 1 /\ s[f] = t[h] /\ f # 0
      BY <1>3, <1>4, <2>3, <2>4, <2>5, <2>7
    <3> QED  BY <1>1, <1>5, <1>6, <1>8, <2>7, <3>1 DEF s
  <2> QED  BY <2>6, <2>7
<1> QED  BY <1>7, <1>8

LEMMA WriterIs ==
  ASSUME NamesDiffer, LookupInv, ObjectsInv, NULL \notin Nat, NEW o \in Existing, NEW n \in Name
  PROVE  /\ Model!Writer(o, n) = WriterIn(Model!Given(o), n)
         /\ Model!Writer(o, n) = IF Of(o, n) >= 0 THEN Half(o, n, 1)
                                 ELSE IF Prototype(o) # NULL THEN WriterIn(Model!Given(Prototype(o)), n)
                                 ELSE NoEntry
<1> DEFINE places == Model!Given(o)
           I == {j \in 1 .. Len(places) : Model!HasProperty(places[j], n)}
           first == IF I # {} THEN Model!Min(I) ELSE 0
           setters == [p \in Existing |-> [m \in Name |-> Half(p, m, 1)]]
<1>1. Model!Writer(o, n) = IF first = 0 THEN NoEntry ELSE setters[places[first]][n]
  BY DEF Model!Writer, Model!SelectInSeq
<1>2. places \in Seq(Existing)
  BY GivenEnds DEF GivenIs
<1>3. places = <<o>> \o (IF Prototype(o) = NULL THEN <<>> ELSE Model!Given(Prototype(o)))
  BY GivenEnds DEF GivenIs
<1>4. Prototype(o) # NULL => Model!Given(Prototype(o)) \in Seq(Existing)
  <2>1. Prototype(o) # NULL => Prototype(o) \in Existing
    BY DEF ObjectsInv, PrototypesAreOlder
  <2> QED  BY <2>1, GivenEnds DEF GivenIs
<1> HIDE DEF places
<1>5. I = With(places, n)
  <2>1. \A j \in 1 .. Len(places) : places[j] \in Existing
    BY <1>2
  <2>2. \A p \in Existing : Model!HasProperty(p, n) <=> Of(p, n) >= 0
    BY ModelIs
  <2> QED  BY <2>1, <2>2 DEF With
<1>6. first = FirstWith(places, n)
  <2> HIDE DEF I
  <2> QED  BY <1>5, SameOperators DEF FirstWith
<1> HIDE DEF first
<1>7. first # 0 => setters[places[first]][n] = Half(places[first], n, 1)
  <2>1. first \in 0 .. Len(places)
    BY <1>2, <1>6, FirstWithIs
  <2>2. first # 0 => places[first] \in Existing
    BY <1>2, <2>1
  <2> QED  BY <2>2
<1> HIDE DEF setters
<1>8. Model!Writer(o, n) = WriterIn(places, n)
  BY <1>1, <1>6, <1>7 DEF WriterIn
<1>9. WriterIn(places, n) = IF Of(o, n) >= 0 THEN Half(o, n, 1)
                            ELSE IF Prototype(o) # NULL THEN WriterIn(Model!Given(Prototype(o)), n)
                            ELSE NoEntry
  <2>1. CASE Prototype(o) = NULL
    <3>1. /\ WriterIn(<<>>, n) = NoEntry
          /\ WriterIn(<<o>> \o <<>>, n) = IF Of(o, n) >= 0 THEN Half(o, n, 1) ELSE WriterIn(<<>>, n)
      BY WriterInMore, NoSequence
    <3> QED  BY <1>3, <2>1, <3>1
  <2>2. CASE Prototype(o) # NULL
    <3> DEFINE t == Model!Given(Prototype(o))
    <3>1. t \in Seq(Existing)
      BY <1>4, <2>2
    <3> HIDE DEF t
    <3>2. WriterIn(<<o>> \o t, n) = IF Of(o, n) >= 0 THEN Half(o, n, 1) ELSE WriterIn(t, n)
      BY <3>1, WriterInMore
    <3> QED  BY <1>3, <2>2, <3>2 DEF t
  <2> QED  BY <2>1, <2>2
<1> QED  BY <1>8, <1>9 DEF places

\* What object_set_with_property tells of it.
Told(w) ==
  IF w = NoEntry THEN Nothing
  ELSE IF w = NULL THEN [Nothing EXCEPT !.value = Trap]
  ELSE Called(Nothing, w)

LEMMA WriterTold ==
  ASSUME NamesDiffer, LookupInv, ObjectsInv, NULL \notin Nat, NEW n \in Name
  PROVE  \A p \in Existing : /\ SetWithProperty(p, n) = Told(Model!Writer(p, n))
                             /\ Model!Writer(p, n) \in Functions \cup {NULL, NoEntry}
<1> DEFINE F(f) ==
             [p \in Existing |->
               LET found == ArrayFind(objects[p].property_names, n)
                   setter == ArrayGet(objects[p].property_data, 2 * found + 1)
               IN IF found >= 0
                  THEN IF EvalTruth(setter) THEN Called(Nothing, setter)
                       ELSE [Nothing EXCEPT !.value = Trap]
                  ELSE IF objects[p].prototype # NULL THEN f[objects[p].prototype]
                  ELSE Nothing]
           g == [p \in Existing |-> Told(Model!Writer(p, n))]
           Own(p) == LET setter == ArrayGet(objects[p].property_data, 2 * Of(p, n) + 1)
                     IN IF EvalTruth(setter) THEN Called(Nothing, setter)
                        ELSE [Nothing EXCEPT !.value = Trap]
           Rest(p, f) == IF Prototype(p) # NULL THEN f[Prototype(p)] ELSE Nothing
<1>1. \A f, p : p \in Existing => F(f)[p] = IF Of(p, n) >= 0 THEN Own(p) ELSE Rest(p, f)
  BY DEF Of, Prototype
<1>2. PICK rank \in [Existing -> Nat] : Descends(rank)
  BY PrototypesEnd
<1>3. \A p \in Existing : Prototype(p) # NULL => Prototype(p) \in Existing /\ rank[Prototype(p)] < rank[p]
  BY <1>2, PrototypesEnd DEF Descends
<1>4. ASSUME NEW p \in Existing
      PROVE  /\ Of(p, n) >= 0 => Told(Half(p, n, 1)) = Own(p)
             /\ Of(p, n) >= 0 => Half(p, n, 1) \in Functions \cup {NULL}
  <2> SUFFICES ASSUME Of(p, n) >= 0
               PROVE  Told(Half(p, n, 1)) = Own(p) /\ Half(p, n, 1) \in Functions \cup {NULL}
    OBVIOUS
  <2> DEFINE setter == ArrayGet(objects[p].property_data, 2 * Of(p, n) + 1)
             w == Half(p, n, 1)
  <2>1. w \in Functions \cup {NULL} /\ w = Entry(setter)
    BY HalfIs
  <2> HIDE DEF setter, w
  <2>2. w # NoEntry
    BY <2>1 DEF NamesDiffer
  <2>3. CASE EvalTruth(setter)
    <3>1. w = setter /\ w # NULL
      BY <2>1, <2>3 DEF Entry, EvalTruth
    <3>2. Told(w) = Called(Nothing, setter)
      BY <2>2, <3>1 DEF Told
    <3> QED  BY <2>1, <2>3, <3>2 DEF setter, w
  <2>4. CASE ~EvalTruth(setter)
    <3>1. w = NULL
      BY <2>1, <2>4 DEF Entry
    <3>2. Told(w) = [Nothing EXCEPT !.value = Trap]
      BY <2>2, <3>1 DEF Told
    <3> QED  BY <2>1, <2>4, <3>2 DEF setter, w
  <2> QED  BY <2>3, <2>4
<1>5. ASSUME NEW p \in Existing
      PROVE  Model!Writer(p, n) = IF Of(p, n) >= 0 THEN Half(p, n, 1)
                                  ELSE IF Prototype(p) # NULL THEN Model!Writer(Prototype(p), n)
                                  ELSE NoEntry
  <2>1. Model!Writer(p, n) = IF Of(p, n) >= 0 THEN Half(p, n, 1)
                             ELSE IF Prototype(p) # NULL THEN WriterIn(Model!Given(Prototype(p)), n)
                             ELSE NoEntry
    BY WriterIs
  <2>2. Prototype(p) # NULL => Model!Writer(Prototype(p), n) = WriterIn(Model!Given(Prototype(p)), n)
    BY <1>3, WriterIs
  <2> QED  BY <2>1, <2>2
<1> HIDE DEF Own
<1>6. \A p \in Existing : g[p] = IF Of(p, n) >= 0 THEN Own(p) ELSE Rest(p, g)
  <2> SUFFICES ASSUME NEW p \in Existing
               PROVE  g[p] = IF Of(p, n) >= 0 THEN Own(p) ELSE Rest(p, g)
    OBVIOUS
  <2>1. g[p] = Told(Model!Writer(p, n))
    OBVIOUS
  <2>2. Prototype(p) # NULL => g[Prototype(p)] = Told(Model!Writer(Prototype(p), n))
    BY <1>3
  <2>3. Told(NoEntry) = Nothing
    BY DEF Told
  <2> HIDE DEF g
  <2> QED  BY <1>4, <1>5, <2>1, <2>2, <2>3
<1>7. ASSUME NEW f, NEW h, NEW p \in Existing,
             \A q \in Existing : rank[q] < rank[p] => f[q] = h[q]
      PROVE  Rest(p, f) = Rest(p, h)
  BY <1>3, <1>7
<1> HIDE DEF Rest
<1>8. g = F(g)
  <2>1. \A p \in Existing : g[p] = F(g)[p]
    <3> HIDE DEF g, F
    <3> QED  BY <1>1, <1>6
  <2>2. g = [p \in Existing |-> g[p]] /\ F(g) = [p \in Existing |-> F(g)[p]]
    OBVIOUS
  <2> HIDE DEF g, F
  <2> QED  BY <2>1, <2>2
<1> DEFINE c == CHOOSE f : f = F(f)
<1>9. c = F(c)
  <2> HIDE DEF F, g
  <2> QED  BY <1>8
<1>10. \A p \in Existing : SetWithProperty(p, n) = c[p]
  BY DEF SetWithProperty
<1> HIDE DEF c
<1>11. \A p \in Existing : c[p] = IF Of(p, n) >= 0 THEN Own(p) ELSE Rest(p, c)
  <2> HIDE DEF F
  <2> QED  BY <1>1, <1>9
<1> HIDE DEF F
<1>12. \A p \in Existing : c[p] = g[p] /\ Model!Writer(p, n) \in Functions \cup {NULL, NoEntry}
  <2> DEFINE Good == {p \in Existing : /\ c[p] = g[p]
                                       /\ Model!Writer(p, n) \in Functions \cup {NULL, NoEntry}}
  <2>1. ASSUME NEW p \in Existing, \A q \in Existing : rank[q] < rank[p] => q \in Good
        PROVE  p \in Good
    <3> HIDE DEF g
    <3>1. \A q \in Existing : rank[q] < rank[p] => c[q] = g[q]
      BY <2>1
    <3>2. Rest(p, c) = Rest(p, g)
      BY <1>7, <3>1
    <3>3. c[p] = g[p]
      BY <1>6, <1>11, <3>2
    <3>4. Prototype(p) # NULL => Model!Writer(Prototype(p), n) \in Functions \cup {NULL, NoEntry}
      BY <1>3, <2>1
    <3>5. Model!Writer(p, n) \in Functions \cup {NULL, NoEntry}
      BY <1>4, <1>5, <3>4
    <3> QED  BY <3>3, <3>5
  <2>2. \A p \in Existing : (\A q \in Existing : rank[q] < rank[p] => q \in Good) => p \in Good
    BY <2>1
  <2> HIDE DEF Good
  <2>3. \A p \in Existing : p \in Good
    BY <2>2, ByRank
  <2> HIDE DEF g
  <2> QED  BY <2>3 DEF Good
<1> QED  BY <1>10, <1>12

-----------------------------------------------------------------------------
\* What an object includes, with its modules'.
LEMMA IncludesIs ==
  ASSUME ObjectsInv
  PROVE  \A p \in Existing : Model!Includes(p) = {t \in Existing : IsIncluded(p, t)}
<1> DEFINE Rest(p, f) == UNION {f[m] : m \in ToSet(Modules(p))}
           F(f) == [p \in Existing |-> {p} \cup Rest(p, f)]
           g == [p \in Existing |-> {t \in Existing : IsIncluded(p, t)}]
<1>1. ASSUME NEW p \in Existing
      PROVE  /\ \A k \in DOMAIN Modules(p) : Modules(p)[k] \in Existing
             /\ ToSet(Modules(p)) = {Modules(p)[k] : k \in DOMAIN Modules(p)}
  <2>1. Modules(p) \in Seq(Existing)
    BY DEF ObjectsInv, ModulesInv
  <2> QED  BY <2>1 DEF ToSet
<1>2. ASSUME NEW p \in Existing, NEW t \in Existing
      PROVE  IsIncluded(p, t) <=> p = t \/ \E m \in ToSet(Modules(p)) : IsIncluded(m, t)
  <2>1. ModulesInv
    BY DEF ObjectsInv
  <2>2. Reaches(Existing, {t}, Edges, p) <=>
          p \in {t} \/ \E y \in Existing : <<p, y>> \in Edges /\ Reaches(Existing, {t}, Edges, y)
    BY ReachesIs
  <2>3. \A y \in Existing : <<p, y>> \in Edges <=> y \in ToSet(Modules(p))
    BY <1>1, <2>1, EdgesAre
  <2>4. \A y \in Existing : IsIncluded(y, t) <=> Reaches(Existing, {t}, Edges, y)
    BY <2>1, IncludedIs
  <2>5. ToSet(Modules(p)) \subseteq Existing
    BY <1>1
  <2> QED  BY <2>2, <2>3, <2>4, <2>5
<1>3. \A p \in Existing : g[p] = {p} \cup Rest(p, g)
  <2> SUFFICES ASSUME NEW p \in Existing PROVE g[p] = {p} \cup Rest(p, g)
    OBVIOUS
  <2>1. ToSet(Modules(p)) \subseteq Existing
    BY <1>1
  <2>2. \A q \in Existing : g[q] = {t \in Existing : IsIncluded(q, t)}
    OBVIOUS
  <2> HIDE DEF g
  <2>3. \A t : t \in Rest(p, g) <=> t \in Existing /\ \E m \in ToSet(Modules(p)) : IsIncluded(m, t)
    BY <2>1, <2>2
  <2>4. \A t : t \in g[p] <=> t \in {p} \cup Rest(p, g)
    BY <1>2, <2>2, <2>3
  <2> QED  BY <2>4
<1>4. \A f, p : p \in Existing => F(f)[p] = {p} \cup Rest(p, f)
  OBVIOUS
<1>5. PICK rank \in [Existing -> Nat] : Ranked(rank)
  BY DEF ObjectsInv, ModulesInv
<1>6. ASSUME NEW f, NEW h, NEW p \in Existing,
             \A q \in Existing : rank[q] < rank[p] => f[q] = h[q]
      PROVE  Rest(p, f) = Rest(p, h)
  <2>1. \A m \in ToSet(Modules(p)) : f[m] = h[m]
    BY <1>1, <1>5, <1>6 DEF Ranked
  <2> QED  BY <2>1
<1> HIDE DEF Rest
<1>7. g = F(g)
  <2>1. \A p \in Existing : g[p] = F(g)[p]
    <3> HIDE DEF g, F
    <3> QED  BY <1>3, <1>4
  <2>2. g = [p \in Existing |-> g[p]] /\ F(g) = [p \in Existing |-> F(g)[p]]
    OBVIOUS
  <2> HIDE DEF g, F
  <2> QED  BY <2>1, <2>2
<1> DEFINE c == CHOOSE f : f = F(f)
<1>8. c = F(c)
  <2> HIDE DEF F, g
  <2> QED  BY <1>7
<1>9. \A p \in Existing : Model!Includes(p) = c[p]
  <2> DEFINE A == [o \in Existing |-> objects[o].included_modules]
             M(f) == [p \in Model!Existing |-> {p} \cup UNION {f[m] : m \in Model!ToSet(A[p])}]
  <2>1. ASSUME NEW f PROVE M(f) = F(f)
    <3>1. Model!Existing = Existing
      BY DEF Model!Existing
    <3>2. \A p \in Existing : A[p] = Modules(p)
      BY DEF Modules
    <3>3. \A p \in Existing : Model!ToSet(A[p]) = ToSet(Modules(p))
      BY <3>2, SameOperators
    <3> HIDE DEF A
    <3> QED  BY <3>1, <3>3 DEF Rest
  <2>2. \A p \in Existing : Model!Includes(p) = (CHOOSE f : f = M(f))[p]
    BY DEF Model!Includes
  <2>3. (CHOOSE f : f = M(f)) = (CHOOSE f : f = F(f))
    <3> HIDE DEF M, F
    <3> QED  BY <2>1
  <2> QED  BY <2>2, <2>3
<1> HIDE DEF c
<1>10. \A p \in Existing : c[p] = {p} \cup Rest(p, c)
  <2> HIDE DEF F
  <2> QED  BY <1>4, <1>8
<1> HIDE DEF F
<1>11. \A p \in Existing : c[p] = g[p]
  <2> DEFINE Good == {p \in Existing : c[p] = g[p]}
  <2>1. ASSUME NEW p \in Existing, \A q \in Existing : rank[q] < rank[p] => q \in Good
        PROVE  p \in Good
    <3> HIDE DEF g
    <3>1. \A q \in Existing : rank[q] < rank[p] => c[q] = g[q]
      BY <2>1
    <3>2. Rest(p, c) = Rest(p, g)
      BY <1>6, <3>1
    <3>3. c[p] = g[p]
      BY <1>3, <1>10, <3>2
    <3> QED  BY <3>3
  <2>2. \A p \in Existing : (\A q \in Existing : rank[q] < rank[p] => q \in Good) => p \in Good
    BY <2>1
  <2> HIDE DEF Good
  <2>3. \A p \in Existing : p \in Good
    BY <2>2, ByRank
  <2> HIDE DEF g
  <2> QED  BY <2>3 DEF Good
<1> QED  BY <1>9, <1>11

-----------------------------------------------------------------------------
(***************************************************************************)
(* The state as ObjectModel sees it                                        *)
(***************************************************************************)
Prototypes == [o \in Existing |-> objects[o].prototype]
Ancestors == [o \in Existing |-> NextPrototype(o)]
Included == [o \in Existing |-> objects[o].included_modules]
Getters == [o \in Existing |-> [n \in Name |-> Half(o, n, 0)]]
Setters == [o \in Existing |-> [n \in Name |-> Half(o, n, 1)]]
Members == [o \in Existing |-> [n \in Name |-> MapGet(objects[o].members, n)]]

ShapesStay == Prototypes' = Prototypes /\ Ancestors' = Ancestors /\ Included' = Included
PropertiesStay == Getters' = Getters /\ Setters' = Setters

Writes(o, n, word, w) ==
  \/ /\ w = NULL
     /\ answer' = [value |-> Trap, calls |-> <<>>]
     /\ Members' = Members
  \/ /\ w \in Functions /\ Returned(w) # NULL
     /\ answer' = [value |-> Returned(w), calls |-> <<w>>]
     /\ Members' = Members
  \/ /\ w = NoEntry \/ (w \in Functions /\ Returned(w) = NULL)
     /\ answer' = [value |-> word, calls |-> IF w = NoEntry THEN <<>> ELSE <<w>>]
     /\ Members' = [Members EXCEPT ![o][n] = word]

LEMMA ReadingIs ==
  ASSUME ShapesStay, PropertiesStay, Members' = Members, NEW o, NEW n
  PROVE  /\ answer' = Model!Lookup(o, n) => Model!Read(o, n)
         /\ answer' = Model!LookupOrMissing(o, n) => Model!ReadOrMissing(o, n)
BY DEF Model!Read, Model!ReadOrMissing, ShapesStay, PropertiesStay, Prototypes, Ancestors, Included,
       Getters, Setters, Members

LEMMA WritingIs ==
  ASSUME ShapesStay, PropertiesStay, NEW o, NEW n, NEW word, Writes(o, n, word, Model!Writer(o, n))
  PROVE  Model!Write(o, n, word)
BY DEF Model!Write, Writes, Members, Functions, ShapesStay, PropertiesStay, Prototypes, Ancestors,
       Included, Getters, Setters

LEMMA DefiningIs ==
  ASSUME ShapesStay, Members' = Members, NEW o, NEW n, NEW half, NEW f, answer' = Nothing,
         Getters' = [Getters EXCEPT ![o][n] = IF half = 0 THEN f ELSE IF @ = NoEntry THEN NULL ELSE @],
         Setters' = [Setters EXCEPT ![o][n] = IF half = 1 THEN f ELSE IF @ = NoEntry THEN NULL ELSE @]
  PROVE  Model!Define(o, n, half, f)
<1>1. Model!Nothing = Nothing
  BY DEF Model!Nothing, Nothing
<1> QED  BY <1>1, Zenon DEF Model!Define, ShapesStay, Prototypes, Ancestors, Included, Members,
                     Getters, Setters

LEMMA OtherIs ==
  ASSUME ShapesStay, PropertiesStay, Members' = Members, answer' = Nothing
  PROVE  Model!Other
<1>1. Model!Nothing = Nothing
  BY DEF Model!Nothing, Nothing
<1> QED  BY <1>1 DEF Model!Other, ShapesStay, PropertiesStay, Prototypes, Ancestors, Included, Members,
                     Getters, Setters

LEMMA IncludingIs ==
  ASSUME Prototypes' = Prototypes, Ancestors' = Ancestors, PropertiesStay, Members' = Members,
         answer' = Nothing, NEW o, NEW m
  PROVE  /\ /\ m \notin ToSet(Included[o]) /\ o \notin Model!Includes(m)
            /\ Included' = [Included EXCEPT ![o] = Append(@, m)]
            => Model!Include(o, m)
         /\ (\E j \in DOMAIN Included[o] :
               Included[o][j] = m /\ Included' = [Included EXCEPT ![o] = RemoveAt(@, j)])
            => Model!Uninclude(o, m)
<1>1. Model!Nothing = Nothing
  BY DEF Model!Nothing, Nothing
<1>2. /\ \A s : Model!ToSet(s) = ToSet(s)
      /\ \A s, j : Model!RemoveAt(s, j) = RemoveAt(s, j)
  BY SameOperators DEF Model!RemoveAt, RemoveAt
<1>3. /\ answer' = Model!Nothing
      /\ UNCHANGED <<Prototypes, Ancestors, Getters, Setters, Members>>
  BY <1>1 DEF PropertiesStay
<1>4. ASSUME m \notin ToSet(Included[o]) /\ o \notin Model!Includes(m)
             /\ Included' = [Included EXCEPT ![o] = Append(@, m)]
      PROVE  Model!Include(o, m)
  <2>1. m \notin Model!ToSet(Included[o])
    BY <1>2, <1>4
  <2> QED  BY <1>3, <1>4, <2>1, ZenonT(60)
           DEF Model!Include, Prototypes, Ancestors, Included, Members, Getters, Setters
<1>5. ASSUME NEW j \in DOMAIN Included[o], Included[o][j] = m,
             Included' = [Included EXCEPT ![o] = RemoveAt(@, j)]
      PROVE  Model!Uninclude(o, m)
  <2>1. Included' = [Included EXCEPT ![o] = Model!RemoveAt(@, j)]
    BY <1>2, <1>5
  <2> QED  BY <1>3, <1>5, <2>1, ZenonT(60)
           DEF Model!Uninclude, Prototypes, Ancestors, Included, Members, Getters, Setters
<1> QED  BY <1>4, <1>5

LEMMA CreatingIs ==
  ASSUME NamesDiffer, answer' = Nothing, NEW protos, Prototypes' = Prototypes \o protos,
         Existing \subseteq Existing', \A o \in Existing : objects'[o] = objects[o],
         \A o \in Existing' \ Existing :
           objects'[o].included_modules = <<>> /\ objects'[o].property_names = <<>>
  PROVE  Model!Create(protos)
<1>1. Model!Existing = Existing /\ Model!Nothing = Nothing
  BY DEF Model!Existing, Model!Nothing, Nothing
<1>2. DOMAIN Prototypes = Existing /\ DOMAIN Prototypes' = Existing'
  BY DEF Prototypes
<1>3. ASSUME NEW o \in Existing
      PROVE  /\ Ancestors'[o] = Ancestors[o]
             /\ Included'[o] = Included[o] /\ Members'[o] = Members[o]
             /\ Getters'[o] = Getters[o] /\ Setters'[o] = Setters[o]
  <2>1. o \in Existing' /\ objects'[o] = objects[o]
    OBVIOUS
  <2>2. Included'[o] = Included[o] /\ Members'[o] = Members[o]
    BY <2>1 DEF Included, Members
  <2>3. Ancestors'[o] = Ancestors[o]
    BY <2>1 DEF Ancestors, NextPrototype
  <2>4. \A n, half : Half(o, n, half)' = Half(o, n, half)
    BY <2>1 DEF Half, Of
  <2>5. Getters'[o] = Getters[o] /\ Setters'[o] = Setters[o]
    BY <2>1, <2>4 DEF Getters, Setters
  <2> QED  BY <2>2, <2>3, <2>5
<1>4. \A o \in Existing' \ Existing : Included'[o] = <<>>
  BY DEF Included
<1>5. ASSUME NEW o \in Existing' \ Existing, NEW n \in Name
      PROVE  Getters'[o][n] = NoEntry /\ Setters'[o][n] = NoEntry
  <2>1. ArrayFind(<<>>, n) < 0
    BY DEF ArrayFind
  <2>2. \A half : Half(o, n, half)' = NoEntry
    BY <2>1 DEF Half, Of
  <2> QED  BY <2>2 DEF Getters, Setters
<1> QED  BY <1>1, <1>2, <1>3, <1>4, <1>5 DEF Model!Create, Prototypes, Ancestors, Included, Members, Getters, Setters

-----------------------------------------------------------------------------
(***************************************************************************)
(* What the operations change of it                                        *)
(***************************************************************************)
\* What r keeps of the object p when its members, its name or the mark are written.
SameFields(r, p) ==
  SameShape(r, p) /\ r.property_names = p.property_names /\ r.property_data = p.property_data

LEMMA FieldWith ==
  ASSUME NEW p, IsObject(p), NEW s
  PROVE  /\ SameFields([p EXCEPT !.members = s], p) /\ [p EXCEPT !.members = s].members = s
         /\ SameFields([p EXCEPT !.assigned = s], p) /\ [p EXCEPT !.assigned = s].members = p.members
         /\ SameFields([p EXCEPT !.name = s], p) /\ [p EXCEPT !.name = s].members = p.members
         /\ SameFields(p, p)
BY DEF SameFields, SameShape, IsObject

LEMMA ShapesKeep ==
  ASSUME Existing' = Existing,
         \A p \in Existing : /\ objects'[p].type = objects[p].type
                             /\ objects'[p].prototype = objects[p].prototype
  PROVE  /\ Prototypes' = Prototypes /\ Ancestors' = Ancestors
         /\ (\A p \in Existing : objects'[p].included_modules = objects[p].included_modules)
              => Included' = Included
<1>1. \A p \in Existing : NextPrototype(p)' = NextPrototype(p)
  BY DEF NextPrototype
<1>2. Prototypes' = Prototypes
  BY DEF Prototypes
<1>3. Ancestors' = Ancestors
  BY <1>1 DEF Ancestors
<1>4. ASSUME \A p \in Existing : objects'[p].included_modules = objects[p].included_modules
      PROVE  Included' = Included
  BY <1>4 DEF Included
<1> QED  BY <1>2, <1>3, <1>4

LEMMA PropertiesKeep ==
  ASSUME Existing' = Existing,
         \A p \in Existing : /\ objects'[p].property_names = objects[p].property_names
                             /\ objects'[p].property_data = objects[p].property_data
  PROVE  PropertiesStay
<1>1. \A p \in Existing : \A n, half : Half(p, n, half)' = Half(p, n, half)
  BY DEF Half, Of
<1>2. Getters' = Getters
  BY <1>1 DEF Getters
<1>3. Setters' = Setters
  BY <1>1 DEF Setters
<1> QED  BY <1>2, <1>3 DEF PropertiesStay

\* LookupInv, where no property is defined.
LEMMA LookupKeeps ==
  ASSUME LookupInv, ObjectsInv, program' = program, Existing \subseteq Existing',
         \A p \in Existing : /\ objects'[p].property_names = objects[p].property_names
                             /\ objects'[p].property_data = objects[p].property_data,
         \A p \in {ClassPrototype, ObjectPrototype} :
           objects'[p].type = objects[p].type /\ objects'[p].prototype = objects[p].prototype,
         \A p \in Existing' \ Existing :
           objects'[p].property_names = <<>> /\ objects'[p].property_data = <<>>
  PROVE  LookupInv'
<1>1. ClassPrototype \in Existing
  BY ObjectsAreASequence DEF ObjectsInv, ObjectsExist, ClassPrototype
<1>2. FirstObjectsStay'
  BY <1>1 DEF LookupInv, FirstObjectsStay, Of, ClassPrototype, ObjectPrototype
<1>3. ASSUME NEW p \in Existing' PROVE PropertiesFit(objects[p])'
  <2>1. CASE p \in Existing
    BY <2>1 DEF LookupInv, PropertiesFit
  <2>2. CASE p \notin Existing
    <3>1. objects'[p].property_names = <<>> /\ objects'[p].property_data = <<>>
      BY <2>2
    <3> QED  BY <3>1, NoSequence DEF PropertiesFit
  <2> QED  BY <2>1, <2>2
<1> QED  BY <1>2, <1>3 DEF LookupInv

LEMMA AfterSetIs ==
  ASSUME NamesDiffer, LookupInv, ObjectsInv, NULL \notin Nat, NEW o \in Existing, NEW n \in Name, NEW word
  PROVE  \E r : /\ SameFields(r, objects[o]) /\ AfterSet(o, n, word) = [objects EXCEPT ![o] = r]
                /\ r.members = IF HasAnswer(SetWithProperty(o, n)) THEN objects[o].members
                               ELSE MapSet(objects[o].members, n, word)
<1> DEFINE p == objects[o]
           set == SetWithProperty(o, n)
<1>1. IsObject(p) /\ objects = [q \in Existing |-> objects[q]]
  BY ObjectsAreASequence DEF ObjectsInv, ObjectsExist
<1>2. set.calls = <<SetName>> => HasAnswer(set)
  <2> DEFINE w == Model!Writer(o, n)
  <2>1. set = Told(w) /\ w \in Functions \cup {NULL, NoEntry}
    BY WriterTold
  <2> HIDE DEF w
  <2>2. Told(w).calls = <<>> \/ Told(w) = [value |-> Returned(w), calls |-> <<w>>]
    BY DEF Told, Nothing, Called
  <2>3. Returned(SetName) = SetName /\ SetName # NULL
    BY DEF Returned, NamesDiffer, Functions
  <2>4. <<SetName>> # <<>> /\ (<<w>> = <<SetName>> => w = SetName)
    OBVIOUS
  <2>5. ASSUME set.calls = <<SetName>> PROVE HasAnswer(set)
    <3>1. Told(w) = [value |-> Returned(w), calls |-> <<w>>] /\ w = SetName
      BY <2>1, <2>2, <2>4, <2>5
    <3> HIDE DEF set
    <3> QED  BY <2>1, <2>3, <3>1 DEF HasAnswer
  <2> QED  BY <2>5
<1>3. CASE set.calls = <<SetName>>
  <2>1. AfterSet(o, n, word) = [objects EXCEPT ![o] = [p EXCEPT !.name = word]]
    BY <1>3 DEF AfterSet
  <2> HIDE DEF p, set
  <2>2. SameFields([p EXCEPT !.name = word], p) /\ [p EXCEPT !.name = word].members = p.members
    BY <1>1, FieldWith
  <2> QED  BY <1>2, <1>3, <2>1, <2>2 DEF p, set
<1>4. CASE set.calls # <<SetName>> /\ HasAnswer(set)
  <2>1. AfterSet(o, n, word) = [objects EXCEPT ![o] = p]
    BY <1>1, <1>4 DEF AfterSet
  <2>2. SameFields(p, p)
    BY <1>1, FieldWith
  <2> QED  BY <1>4, <2>1, <2>2
<1>5. CASE set.calls # <<SetName>> /\ ~HasAnswer(set)
  <2> DEFINE m == MapSet(p.members, n, word)
  <2>1. AfterSet(o, n, word) = [objects EXCEPT ![o] = [p EXCEPT !.members = m]]
    BY <1>5 DEF AfterSet
  <2> HIDE DEF p, m, set
  <2>2. SameFields([p EXCEPT !.members = m], p) /\ [p EXCEPT !.members = m].members = m
    BY <1>1, FieldWith
  <2> QED  BY <1>5, <2>1, <2>2 DEF p, m, set
<1> QED  BY <1>3, <1>4, <1>5

LEMMA WritesAre ==
  ASSUME NamesDiffer, LookupInv, ObjectsInv, NULL \notin Nat, NEW o \in Existing, NEW n \in Name, NEW word,
         answer' = SetAnswer(o, n, word),
         HasAnswer(SetWithProperty(o, n)) => Members' = Members,
         ~HasAnswer(SetWithProperty(o, n)) => Members' = [Members EXCEPT ![o][n] = word]
  PROVE  Writes(o, n, word, Model!Writer(o, n))
<1> DEFINE w == Model!Writer(o, n)
           set == SetWithProperty(o, n)
<1>1. set = Told(w) /\ w \in Functions \cup {NULL, NoEntry}
  BY WriterTold
<1>2. /\ HasAnswer(set) => answer' = set /\ Members' = Members
      /\ ~HasAnswer(set) => answer' = [set EXCEPT !.value = word]
                             /\ Members' = [Members EXCEPT ![o][n] = word]
  BY DEF SetAnswer
<1> HIDE DEF w, set
<1>3. Trap # NULL /\ NULL # NoEntry /\ \A f \in Functions : f # NULL /\ f # NoEntry
  BY DEF NamesDiffer
<1>4. CASE w = NULL
  <2>1. set = [value |-> Trap, calls |-> <<>>]
    BY <1>1, <1>3, <1>4 DEF Told, Nothing
  <2> QED  BY <1>2, <1>3, <1>4, <2>1 DEF HasAnswer, Writes, w
<1>5. CASE w = NoEntry
  <2>1. set = [value |-> NULL, calls |-> <<>>]
    BY <1>1, <1>5 DEF Told, Nothing
  <2>2. answer' = [value |-> word, calls |-> <<>>] /\ Members' = [Members EXCEPT ![o][n] = word]
    BY <1>2, <2>1 DEF HasAnswer
  <2> QED  BY <1>5, <2>2 DEF Writes, w
<1>6. CASE w \in Functions
  <2>1. set = [value |-> Returned(w), calls |-> <<w>>]
    BY <1>1, <1>3, <1>6 DEF Told, Called, Nothing
  <2>2. CASE Returned(w) # NULL
    BY <1>2, <1>6, <2>1, <2>2 DEF HasAnswer, Writes, w
  <2>3. CASE Returned(w) = NULL
    <3>1. answer' = [value |-> word, calls |-> <<w>>] /\ Members' = [Members EXCEPT ![o][n] = word]
      BY <1>2, <2>1, <2>3 DEF HasAnswer
    <3>2. w # NoEntry
      BY <1>3, <1>6
    <3> QED  BY <1>6, <2>3, <3>1, <3>2 DEF Writes, w
  <2> QED  BY <2>2, <2>3
<1> QED  BY <1>1, <1>4, <1>5, <1>6

MembersFollow(o, n, word, s) ==
  /\ s = objects[o].members => Members' = Members
  /\ s = MapSet(objects[o].members, n, word) => Members' = [Members EXCEPT ![o][n] = word]

LEMMA MembersWritten ==
  ASSUME Existing' = Existing, NEW o \in Existing, NEW n \in Name, NEW word, NEW s,
         objects'[o].members = s, \A p \in Existing : p # o => objects'[p] = objects[p]
  PROVE  MembersFollow(o, n, word, s)
<1>1. Members' = [p \in Existing |-> [m \in Name |-> MapGet(objects'[p].members, m)]]
  BY DEF Members
<1>2. ASSUME s = objects[o].members PROVE Members' = Members
  <2>1. \A p \in Existing : objects'[p].members = objects[p].members
    BY <1>2
  <2> QED  BY <1>1, <2>1 DEF Members
<1>3. ASSUME s = MapSet(objects[o].members, n, word) PROVE Members' = [Members EXCEPT ![o][n] = word]
  <2> DEFINE row == [m \in Name |-> MapGet(objects[o].members, m)]
  <2>1. \A m \in Name : MapGet(s, m) = IF m = n THEN word ELSE MapGet(objects[o].members, m)
    BY <1>3 DEF MapGet, MapSet
  <2>2. [m \in Name |-> MapGet(s, m)] = [row EXCEPT ![n] = word]
    BY <2>1
  <2>3. [Members EXCEPT ![o][n] = word] = [Members EXCEPT ![o] = [row EXCEPT ![n] = word]]
    BY DEF Members
  <2> HIDE DEF row
  <2>4. ASSUME NEW p \in Existing
        PROVE  Members'[p] = [Members EXCEPT ![o] = [row EXCEPT ![n] = word]][p]
    BY <1>1, <2>2 DEF Members
  <2>5. Members' = [Members EXCEPT ![o] = [row EXCEPT ![n] = word]]
    <3>1. Members' = [p \in Existing |-> Members'[p]]
      BY <1>1
    <3>2. [Members EXCEPT ![o] = [row EXCEPT ![n] = word]]
            = [p \in Existing |-> [Members EXCEPT ![o] = [row EXCEPT ![n] = word]][p]]
      BY DEF Members
    <3> QED  BY <2>4, <3>1, <3>2
  <2> QED  BY <2>3, <2>5
<1> QED  BY <1>2, <1>3 DEF MembersFollow

-----------------------------------------------------------------------------
(***************************************************************************)
(* Each operation is one of ObjectModel                                    *)
(***************************************************************************)
LEMMA OneWritten ==
  ASSUME LookupInv, ObjectsInv, program' = program, NEW o \in Existing, NEW r,
         SameFields(r, objects[o]), objects' = [objects EXCEPT ![o] = r]
  PROVE  /\ LookupInv' /\ ShapesStay /\ PropertiesStay /\ Existing' = Existing
         /\ objects'[o] = r /\ \A p \in Existing : p # o => objects'[p] = objects[p]
<1>1. Existing = 1 .. Len(objects) /\ Len(objects) >= 4 /\ Len(objects) \in Nat
  BY ObjectsAreASequence DEF ObjectsInv, ObjectsExist
<1>2. /\ Existing' = Existing /\ objects'[o] = r
      /\ \A p \in Existing : p # o => objects'[p] = objects[p]
  BY DEF Existing
<1>3. \A p \in Existing :
        /\ objects'[p].type = objects[p].type /\ objects'[p].prototype = objects[p].prototype
        /\ objects'[p].included_modules = objects[p].included_modules
        /\ objects'[p].property_names = objects[p].property_names
        /\ objects'[p].property_data = objects[p].property_data
  BY <1>2 DEF SameFields, SameShape
<1>4. ShapesStay
  BY <1>2, <1>3, ShapesKeep DEF ShapesStay
<1>5. PropertiesStay
  BY <1>2, <1>3, PropertiesKeep
<1>6. LookupInv'
  <2>1. ClassPrototype \in Existing /\ ObjectPrototype \in Existing
    BY <1>1 DEF ClassPrototype, ObjectPrototype
  <2> QED  BY <1>2, <1>3, <2>1, LookupKeeps
<1> QED  BY <1>2, <1>4, <1>5, <1>6

LEMMA SetStep ==
  ASSUME NamesDiffer, LookupInv, ObjectsInv, NULL \notin Nat, NEW o \in Existing, NEW n \in Name, NEW word,
         SetMember(o, n, word)
  PROVE  LookupInv' /\ Model!Write(o, n, word)
<1>1. PICK r : /\ SameFields(r, objects[o]) /\ AfterSet(o, n, word) = [objects EXCEPT ![o] = r]
               /\ r.members = IF HasAnswer(SetWithProperty(o, n)) THEN objects[o].members
                              ELSE MapSet(objects[o].members, n, word)
  BY AfterSetIs
<1>2. objects' = [objects EXCEPT ![o] = r] /\ answer' = SetAnswer(o, n, word) /\ program' = program
  BY <1>1 DEF SetMember, Step
<1>3. /\ LookupInv' /\ ShapesStay /\ PropertiesStay /\ Existing' = Existing
      /\ objects'[o] = r /\ \A p \in Existing : p # o => objects'[p] = objects[p]
  BY <1>1, <1>2, OneWritten
<1> DEFINE s == r.members
<1>4. objects'[o].members = s
  BY <1>3
<1>5. /\ HasAnswer(SetWithProperty(o, n)) => s = objects[o].members
      /\ ~HasAnswer(SetWithProperty(o, n)) => s = MapSet(objects[o].members, n, word)
  BY <1>1
<1> HIDE DEF s
<1>6. MembersFollow(o, n, word, s)
  <2>1. Existing' = Existing /\ \A p \in Existing : p # o => objects'[p] = objects[p]
    BY <1>3
  <2> QED  BY <1>4, <2>1, MembersWritten
<1>7. Writes(o, n, word, Model!Writer(o, n))
  <2>1. HasAnswer(SetWithProperty(o, n)) => Members' = Members
    BY <1>5, <1>6 DEF MembersFollow
  <2>2. ~HasAnswer(SetWithProperty(o, n)) => Members' = [Members EXCEPT ![o][n] = word]
    BY <1>5, <1>6 DEF MembersFollow
  <2> QED  BY <1>2, <2>1, <2>2, WritesAre
<1>8. Model!Write(o, n, word)
  BY <1>3, <1>7, WritingIs
<1> QED  BY <1>3, <1>8

LEMMA AssignStep ==
  ASSUME NamesDiffer, LookupInv, ObjectsInv, NULL \notin Nat, NEW o \in Existing, NEW word,
         Assign(o, word)
  PROVE  LookupInv' /\ Model!Write(o, NameOf, word)
<1>0. NameOf \in Name
  BY DEF Name
<1>1. PICK r : /\ SameFields(r, objects[o]) /\ AfterSet(o, NameOf, word) = [objects EXCEPT ![o] = r]
               /\ r.members = IF HasAnswer(SetWithProperty(o, NameOf)) THEN objects[o].members
                              ELSE MapSet(objects[o].members, NameOf, word)
  BY <1>0, AfterSetIs
<1> DEFINE q == [r EXCEPT !.assigned = TRUE]
<1>2. objects' = [objects EXCEPT ![o] = q] /\ answer' = SetAnswer(o, NameOf, word) /\ program' = program
  BY <1>1 DEF Assign, Step
<1>3. SameFields(q, objects[o]) /\ q.members = r.members
  <2>1. IsObject(r)
    BY <1>1 DEF SameFields, SameShape
  <2>2. SameFields(q, r) /\ q.members = r.members
    BY <2>1, FieldWith
  <2> HIDE DEF q
  <2> QED  BY <1>1, <2>2 DEF SameFields, SameShape
<1> HIDE DEF q
<1>4. /\ LookupInv' /\ ShapesStay /\ PropertiesStay /\ Existing' = Existing
      /\ objects'[o] = q /\ \A p \in Existing : p # o => objects'[p] = objects[p]
  BY <1>2, <1>3, OneWritten
<1> DEFINE s == q.members
           n == NameOf
<1>5. objects'[o].members = s
  BY <1>4
<1>6. /\ HasAnswer(SetWithProperty(o, n)) => s = objects[o].members
      /\ ~HasAnswer(SetWithProperty(o, n)) => s = MapSet(objects[o].members, n, word)
      /\ n \in Name /\ answer' = SetAnswer(o, n, word)
  BY <1>0, <1>1, <1>2, <1>3
<1> HIDE DEF s, n
<1>7. MembersFollow(o, n, word, s)
  <2>1. Existing' = Existing /\ \A p \in Existing : p # o => objects'[p] = objects[p]
    BY <1>4
  <2> QED  BY <1>5, <1>6, <2>1, MembersWritten
<1>8. Writes(o, n, word, Model!Writer(o, n))
  <2>1. HasAnswer(SetWithProperty(o, n)) => Members' = Members
    BY <1>6, <1>7 DEF MembersFollow
  <2>2. ~HasAnswer(SetWithProperty(o, n)) => Members' = [Members EXCEPT ![o][n] = word]
    BY <1>6, <1>7 DEF MembersFollow
  <2> QED  BY <1>6, <2>1, <2>2, WritesAre
<1>9. Model!Write(o, n, word)
  BY <1>4, <1>6, <1>8, WritingIs
<1> QED  BY <1>4, <1>9 DEF n

LEMMA ReadStep ==
  ASSUME NamesDiffer, LookupInv, ObjectsInv, NULL \notin Nat, NEW o \in Existing, NEW n \in Name,
         Get(o, n) \/ GetWithFallback(o, n)
  PROVE  /\ LookupInv'
         /\ Get(o, n) => Model!Read(o, n)
         /\ GetWithFallback(o, n) => Model!ReadOrMissing(o, n)
<1>1. objects' = objects /\ program' = program
  BY DEF Get, GetWithFallback, Step
<1>2. Existing' = Existing /\ ShapesStay /\ PropertiesStay
  <2>1. Existing' = Existing
    BY <1>1 DEF Existing
  <2>2. PropertiesStay
    BY <1>1, <2>1, PropertiesKeep
  <2> QED  BY <1>1, <2>1, <2>2, ShapesKeep DEF ShapesStay
<1>3. Members' = Members
  BY <1>1, <1>2 DEF Members
<1>4. LookupInv'
  BY <1>1, <1>2, LookupKeeps
<1>5. Get(o, n) => answer' = Model!Lookup(o, n)
  BY LookupIs DEF Get
<1>6. GetWithFallback(o, n) => answer' = Model!LookupOrMissing(o, n)
  <2>1. GetWithFallback(o, n) => answer' = Fallback(o, n)
    BY DEF GetWithFallback, Fallback
  <2>2. Fallback(o, n) = Model!LookupOrMissing(o, n)
    BY FallbackIs
  <2> QED  BY <2>1, <2>2
<1> QED  BY <1>2, <1>3, <1>4, <1>5, <1>6, ReadingIs

LEMMA ResetStep ==
  ASSUME NamesDiffer, LookupInv, ObjectsInv, NULL \notin Nat, NEW o \in Existing, ResetAssignedName(o)
  PROVE  LookupInv' /\ Model!Other
<1> DEFINE p == objects[o]
           r == [p EXCEPT !.assigned = FALSE]
<1>1. objects' = [objects EXCEPT ![o] = r] /\ program' = program /\ answer' = Nothing
  BY DEF ResetAssignedName, Step
<1>2. IsObject(p)
  BY DEF ObjectsInv, ObjectsExist
<1>3. SameFields(r, p) /\ r.members = p.members
  <2> HIDE DEF p
  <2> QED  BY <1>2, FieldWith
<1> HIDE DEF r
<1>4. /\ LookupInv' /\ ShapesStay /\ PropertiesStay /\ Existing' = Existing
      /\ objects'[o] = r /\ \A q \in Existing : q # o => objects'[q] = objects[q]
  BY <1>1, <1>3, OneWritten
<1>5. Members' = Members
  <2>1. \A q \in Existing : objects'[q].members = objects[q].members
    BY <1>3, <1>4
  <2> QED  BY <1>4, <2>1 DEF Members
<1> QED  BY <1>1, <1>4, <1>5, OtherIs

-----------------------------------------------------------------------------
\* One half of a property of r, of which Half is that of an object.
HalfOf(r, n, half) ==
  IF ArrayFind(r.property_names, n) < 0 THEN NoEntry
  ELSE Entry(ArrayGet(r.property_data, 2 * ArrayFind(r.property_names, n) + half))

LEMMA EntryTyped ==
  ASSUME NamesDiffer, NEW a \in Seq(Entries), NEW k \in Nat
  PROVE  Entry(ArrayGet(a, k)) \in Functions \cup {NULL} /\ Entry(ArrayGet(a, k)) # NoEntry
<1>1. ArrayGet(a, k) \in Entries
  <2>1. Len(a) \in Nat /\ \A j \in 1 .. Len(a) : a[j] \in Entries
    OBVIOUS
  <2>2. k < Len(a) => k + 1 \in 1 .. Len(a)
    BY <2>1
  <2> QED  BY <2>1, <2>2 DEF ArrayGet, Entries
<1>2. Entry(ArrayGet(a, k)) \in Functions \cup {NULL}
  BY <1>1 DEF Entry, Entries, EvalTruth
<1> QED  BY <1>2 DEF NamesDiffer

\* The two entries of n are at 2 idx and behind; no other name has them.
PropertyIsWritten(p, r, n, half, f) ==
  /\ PropertiesFit(r) /\ HalfOf(r, n, half) = f
  /\ HalfOf(r, n, 1 - half) = IF HalfOf(p, n, 1 - half) = NoEntry THEN NULL ELSE HalfOf(p, n, 1 - half)
  /\ \A m \in Name, h \in {0, 1} : m # n => HalfOf(r, m, h) = HalfOf(p, m, h)

LEMMA PropertyWritten ==
  ASSUME NamesDiffer, NEW p, PropertiesFit(p), NEW n \in Name, NEW half \in {0, 1},
         NEW f \in Functions \cup {NULL}, NEW known, known = ArrayFind(p.property_names, n),
         NEW found, found = IF known >= 0 THEN known ELSE Len(p.property_names),
         NEW r, r.property_names = IF known >= 0 THEN p.property_names ELSE Append(p.property_names, n),
         r.property_data = ArraySet(p.property_data, 2 * found + half, f)
  PROVE  PropertyIsWritten(p, r, n, half, f)
<1> DEFINE a == p.property_names
           b == r.property_names
           s == p.property_data
           t == r.property_data
           k == 2 * found + half
<1>1. a \in Seq(Name) /\ s \in Seq(Entries) /\ Len(s) <= 2 * Len(a) /\ Len(a) \in Nat /\ Len(s) \in Nat
  BY DEF PropertiesFit
<1>2. b = (IF known >= 0 THEN a ELSE Append(a, n)) /\ t = ArraySet(s, k, f)
      /\ known = ArrayFind(a, n) /\ found = IF known >= 0 THEN known ELSE Len(a)
  OBVIOUS
<1>3. /\ HalfOf(r, n, half) = IF ArrayFind(b, n) < 0 THEN NoEntry
                              ELSE Entry(ArrayGet(t, 2 * ArrayFind(b, n) + half))
      /\ HalfOf(r, n, 1 - half) = IF ArrayFind(b, n) < 0 THEN NoEntry
                                  ELSE Entry(ArrayGet(t, 2 * ArrayFind(b, n) + (1 - half)))
      /\ HalfOf(p, n, 1 - half) = IF known < 0 THEN NoEntry
                                  ELSE Entry(ArrayGet(s, 2 * known + (1 - half)))
      /\ \A m, h : /\ HalfOf(r, m, h) = IF ArrayFind(b, m) < 0 THEN NoEntry
                                        ELSE Entry(ArrayGet(t, 2 * ArrayFind(b, m) + h))
                   /\ HalfOf(p, m, h) = IF ArrayFind(a, m) < 0 THEN NoEntry
                                        ELSE Entry(ArrayGet(s, 2 * ArrayFind(a, m) + h))
  BY DEF HalfOf
<1>4. PropertiesFit(r) <=> b \in Seq(Name) /\ t \in Seq(Entries) /\ Len(t) <= 2 * Len(b)
  BY DEF PropertiesFit
<1> HIDE DEF a, b, s, t
<1>5. /\ known \in Int
      /\ known >= 0 => known + 1 \in 1 .. Len(a) /\ a[known + 1] = n
  BY <1>1, <1>2, ArrayFindTells
<1>6. /\ ArrayFind(b, n) = found /\ b \in Seq(Name) /\ found + 1 <= Len(b) /\ Len(b) \in Nat
      /\ \A m : m # n => ArrayFind(b, m) = ArrayFind(a, m)
  <2>1. CASE known >= 0
    BY <1>1, <1>2, <1>5, <2>1
  <2>2. CASE ~(known >= 0)
    <3>1. ArrayFind(a, n) < 0
      BY <1>2, <1>5, <2>2
    <3>2. /\ ArrayFind(Append(a, n), n) = Len(a)
          /\ \A m : m # n => ArrayFind(Append(a, n), m) = ArrayFind(a, m)
      BY <1>1, <3>1, ArrayFindAppended
    <3>3. Append(a, n) \in Seq(Name) /\ Len(Append(a, n)) = Len(a) + 1
      BY <1>1
    <3> QED  BY <1>1, <1>2, <2>2, <3>2, <3>3
  <2> QED  BY <2>1, <2>2
<1>7. found \in Nat /\ k \in Nat /\ k + 1 <= 2 * Len(b)
  BY <1>1, <1>2, <1>5, <1>6
<1>8. SN_NIL \in Entries /\ f \in Entries
  BY DEF Entries
<1> HIDE DEF k
<1>9. /\ t \in Seq(Entries) /\ Len(t) = (IF k >= Len(s) THEN k + 1 ELSE Len(s)) /\ ArrayGet(t, k) = f
      /\ \A j \in Nat : j # k => Entry(ArrayGet(t, j)) = Entry(ArrayGet(s, j))
  <2>1. EntryIsWritten(Entries, s, k, f)
    BY <1>1, <1>7, <1>8, EntryWritten
  <2> QED  BY <1>2, <2>1 DEF EntryIsWritten
<1>10. PropertiesFit(r)
  <2>1. Len(a) <= Len(b)
    BY <1>1, <1>2
  <2> QED  BY <1>1, <1>4, <1>6, <1>7, <1>9, <2>1
<1>11. HalfOf(r, n, half) = f
  <2>1. Entry(f) = f
    BY DEF Entry, EvalTruth, NamesDiffer
  <2> QED  BY <1>3, <1>6, <1>7, <1>9, <2>1 DEF k
<1>12. HalfOf(r, n, 1 - half) = IF HalfOf(p, n, 1 - half) = NoEntry THEN NULL ELSE HalfOf(p, n, 1 - half)
  <2> DEFINE j == 2 * found + (1 - half)
  <2>1. j \in Nat /\ j # k
    <3>1. CASE half = 0
      BY <1>7, <3>1 DEF k
    <3>2. CASE half = 1
      BY <1>7, <3>2 DEF k
    <3> QED  BY <3>1, <3>2
  <2>2. HalfOf(r, n, 1 - half) = Entry(ArrayGet(t, j))
    BY <1>3, <1>6, <1>7
  <2> HIDE DEF j
  <2>3. HalfOf(r, n, 1 - half) = Entry(ArrayGet(s, j))
    BY <1>9, <2>1, <2>2
  <2>4. CASE known >= 0
    <3>1. HalfOf(p, n, 1 - half) = Entry(ArrayGet(s, j))
      BY <1>2, <1>3, <1>5, <2>4 DEF j
    <3>2. Entry(ArrayGet(s, j)) # NoEntry
      BY <1>1, <2>1, EntryTyped
    <3> QED  BY <2>3, <3>1, <3>2
  <2>5. CASE ~(known >= 0)
    <3>1. HalfOf(p, n, 1 - half) = NoEntry
      BY <1>3, <1>5, <2>5
    <3>2. ~(j < Len(s))
      BY <1>1, <1>2, <2>5 DEF j
    <3>3. Entry(ArrayGet(s, j)) = NULL
      BY <3>2 DEF ArrayGet, Entry
    <3> QED  BY <2>3, <3>1, <3>3
  <2> QED  BY <2>4, <2>5
<1>13. ASSUME NEW m \in Name, NEW h \in {0, 1}, m # n PROVE HalfOf(r, m, h) = HalfOf(p, m, h)
  <2> DEFINE g == ArrayFind(a, m)
  <2>1. g \in Int /\ (g >= 0 => g + 1 \in 1 .. Len(a) /\ a[g + 1] = m)
    BY <1>1, ArrayFindTells
  <2>2. ArrayFind(b, m) = g
    BY <1>6, <1>13
  <2> HIDE DEF g
  <2>3. CASE g < 0
    BY <1>3, <2>2, <2>3 DEF g
  <2>4. CASE ~(g < 0)
    <3>1. g # found
      BY <1>1, <1>2, <1>5, <1>13, <2>1, <2>4
    <3>2. 2 * g + h \in Nat /\ 2 * g + h # k
      <4>1. g \in Nat
        BY <2>1, <2>4
      <4>2. CASE half = 0
        BY <1>7, <3>1, <4>1, <4>2 DEF k
      <4>3. CASE half = 1
        BY <1>7, <3>1, <4>1, <4>3 DEF k
      <4> QED  BY <4>2, <4>3
    <3>3. Entry(ArrayGet(t, 2 * g + h)) = Entry(ArrayGet(s, 2 * g + h))
      BY <1>9, <3>2
    <3> QED  BY <1>3, <2>2, <2>4, <3>3 DEF g
  <2> QED  BY <2>3, <2>4
<1> QED  BY <1>10, <1>11, <1>12, <1>13 DEF PropertyIsWritten

LEMMA DefineStep ==
  ASSUME NamesDiffer, LookupInv, ObjectsInv, NULL \notin Nat, NEW o \in Existing, o \notin Basic,
         NEW n \in Name, NEW half \in {0, 1}, NEW f \in Functions \cup {NULL}, Define(o, n, half, f)
  PROVE  LookupInv' /\ Model!Define(o, n, half, f)
<1> DEFINE p == objects[o]
           known == ArrayFind(p.property_names, n)
           names == IF known >= 0 THEN p.property_names ELSE Append(p.property_names, n)
           found == IF known >= 0 THEN known ELSE Len(p.property_names)
           stored == ArraySet(p.property_data, 2 * found + half, f)
           r == [[p EXCEPT !.property_names = names] EXCEPT !.property_data = stored]
<1>1. IsObject(p) /\ PropertiesFit(p)
  BY DEF ObjectsInv, ObjectsExist, LookupInv
<1>2. objects' = [objects EXCEPT ![o] = r] /\ answer' = Nothing /\ program' = program
  BY <1>1 DEF Define, PropertyData, IsObject, Step
<1>3. /\ r.type = p.type /\ r.prototype = p.prototype /\ r.included_modules = p.included_modules
      /\ r.members = p.members /\ r.property_names = names /\ r.property_data = stored
  <2> HIDE DEF p, names, stored
  <2> QED  BY <1>1 DEF IsObject
<1> HIDE DEF r
<1>4. /\ PropertiesFit(r) /\ HalfOf(r, n, half) = f
      /\ HalfOf(r, n, 1 - half) = IF HalfOf(p, n, 1 - half) = NoEntry THEN NULL ELSE HalfOf(p, n, 1 - half)
      /\ \A m \in Name, h \in {0, 1} : m # n => HalfOf(r, m, h) = HalfOf(p, m, h)
  <2>1. /\ known = ArrayFind(p.property_names, n)
        /\ found = IF known >= 0 THEN known ELSE Len(p.property_names)
        /\ r.property_names = IF known >= 0 THEN p.property_names ELSE Append(p.property_names, n)
        /\ r.property_data = ArraySet(p.property_data, 2 * found + half, f)
    BY <1>3
  <2> HIDE DEF p, known, found
  <2>2. PropertyIsWritten(p, r, n, half, f)
    BY <1>1, <2>1, PropertyWritten
  <2> QED  BY <2>2 DEF PropertyIsWritten
<1>5. /\ Existing' = Existing /\ objects'[o] = r
      /\ \A q \in Existing : q # o => objects'[q] = objects[q]
  BY <1>2 DEF Existing
<1> HIDE DEF p
<1>6. \A q \in Existing : \A m, h : /\ Half(q, m, h) = HalfOf(objects[q], m, h)
                                    /\ Half(q, m, h)' = HalfOf(objects'[q], m, h)
  BY DEF Half, HalfOf, Of, Entry
<1>7. ShapesStay
  <2>1. \A q \in Existing : /\ objects'[q].type = objects[q].type
                            /\ objects'[q].prototype = objects[q].prototype
                            /\ objects'[q].included_modules = objects[q].included_modules
    BY <1>3, <1>5 DEF p
  <2> QED  BY <1>5, <2>1, ShapesKeep DEF ShapesStay
<1>8. Members' = Members
  <2>1. \A q \in Existing : objects'[q].members = objects[q].members
    BY <1>3, <1>5 DEF p
  <2> QED  BY <1>5, <2>1 DEF Members
<1> DEFINE Halves(h) == [q \in Existing |-> [m \in Name |-> HalfOf(objects[q], m, h)]]
           Later(h) == [q \in Existing |-> [m \in Name |-> HalfOf(objects'[q], m, h)]]
<1>9. /\ Getters = Halves(0) /\ Setters = Halves(1) /\ Getters' = Later(0) /\ Setters' = Later(1)
  BY <1>5, <1>6 DEF Getters, Setters
<1>10. ASSUME NEW h \in {0, 1}, NEW v, HalfOf(r, n, h) = v
       PROVE  Later(h) = [Halves(h) EXCEPT ![o][n] = v]
  <2> DEFINE row == [m \in Name |-> HalfOf(p, m, h)]
             next == [m \in Name |-> HalfOf(r, m, h)]
  <2>1. next = [row EXCEPT ![n] = v]
    <3>1. \A m \in Name : HalfOf(r, m, h) = IF m = n THEN v ELSE HalfOf(p, m, h)
      BY <1>4, <1>10
    <3> QED  BY <3>1
  <2>2. Halves(h)[o] = row /\ Later(h)[o] = next
    BY <1>5 DEF p
  <2>3. [Halves(h) EXCEPT ![o][n] = v] = [Halves(h) EXCEPT ![o] = [row EXCEPT ![n] = v]]
    BY <2>2
  <2>4. \A q \in Existing : q # o => Later(h)[q] = Halves(h)[q]
    BY <1>5
  <2> HIDE DEF row, next
  <2>5. \A q \in Existing : Later(h)[q] = [Halves(h) EXCEPT ![o] = next][q]
    <3>1. /\ [Halves(h) EXCEPT ![o] = next][o] = next
          /\ \A q \in Existing : q # o => [Halves(h) EXCEPT ![o] = next][q] = Halves(h)[q]
      OBVIOUS
    <3> HIDE DEF Halves, Later
    <3> QED  BY <2>2, <2>4, <3>1
  <2>6. /\ Later(h) = [q \in Existing |-> Later(h)[q]]
        /\ [Halves(h) EXCEPT ![o] = next] = [q \in Existing |-> [Halves(h) EXCEPT ![o] = next][q]]
    OBVIOUS
  <2> HIDE DEF Halves, Later
  <2> QED  BY <2>1, <2>3, <2>5, <2>6
<1>11. Halves(0)[o][n] = HalfOf(p, n, 0) /\ Halves(1)[o][n] = HalfOf(p, n, 1)
  BY DEF p
<1> HIDE DEF Halves, Later
<1>12. Model!Define(o, n, half, f)
  <2>1. CASE half = 0
    <3>1. HalfOf(r, n, 0) = f
          /\ HalfOf(r, n, 1) = IF HalfOf(p, n, 1) = NoEntry THEN NULL ELSE HalfOf(p, n, 1)
      BY <1>4, <2>1
    <3>2. Later(0) = [Halves(0) EXCEPT ![o][n] = f]
      BY <1>10, <3>1
    <3>3. Later(1) = [Halves(1) EXCEPT ![o][n] = IF @ = NoEntry THEN NULL ELSE @]
      BY <1>10, <1>11, <3>1
    <3> QED  BY <1>2, <1>7, <1>8, <1>9, <2>1, <3>2, <3>3, DefiningIs
  <2>2. CASE half = 1
    <3>1. HalfOf(r, n, 1) = f
          /\ HalfOf(r, n, 0) = IF HalfOf(p, n, 0) = NoEntry THEN NULL ELSE HalfOf(p, n, 0)
      BY <1>4, <2>2
    <3>2. Later(1) = [Halves(1) EXCEPT ![o][n] = f]
      BY <1>10, <3>1
    <3>3. Later(0) = [Halves(0) EXCEPT ![o][n] = IF @ = NoEntry THEN NULL ELSE @]
      BY <1>10, <1>11, <3>1
    <3> QED  BY <1>2, <1>7, <1>8, <1>9, <2>2, <3>2, <3>3, DefiningIs
  <2> QED  BY <2>1, <2>2
<1>13. LookupInv'
  <2>1. \A q \in Existing' : PropertiesFit(objects[q])'
    BY <1>4, <1>5 DEF LookupInv, PropertiesFit
  <2>2. FirstObjectsStay'
    <3>1. ClassPrototype \in Existing /\ ObjectPrototype \in Existing
          /\ ClassPrototype # o /\ ObjectPrototype # o
      BY ObjectsAreASequence DEF ObjectsInv, ObjectsExist, ClassPrototype, ObjectPrototype, Basic
    <3> QED  BY <1>5, <3>1 DEF LookupInv, FirstObjectsStay, Of
  <2> QED  BY <1>2, <2>1, <2>2 DEF LookupInv
<1> QED  BY <1>12, <1>13

-----------------------------------------------------------------------------
LEMMA ModulesWritten ==
  ASSUME LookupInv, ObjectsInv, program' = program, NEW o \in Existing, NEW s,
         objects' = [objects EXCEPT ![o] = [objects[o] EXCEPT !.included_modules = s]]
  PROVE  /\ LookupInv' /\ PropertiesStay /\ Members' = Members
         /\ Prototypes' = Prototypes /\ Ancestors' = Ancestors
         /\ Included' = [Included EXCEPT ![o] = s]
<1> DEFINE p == objects[o]
           r == [p EXCEPT !.included_modules = s]
<1>1. IsObject(p)
  BY DEF ObjectsInv, ObjectsExist
<1>2. /\ r.type = p.type /\ r.prototype = p.prototype /\ r.included_modules = s /\ r.members = p.members
      /\ r.property_names = p.property_names /\ r.property_data = p.property_data
  <2> HIDE DEF p
  <2> QED  BY <1>1 DEF IsObject
<1>3. objects' = [objects EXCEPT ![o] = r]
  OBVIOUS
<1> HIDE DEF r
<1>4. Existing' = Existing /\ objects'[o] = r /\ \A q \in Existing : q # o => objects'[q] = objects[q]
  BY <1>3 DEF Existing
<1>5. \A q \in Existing :
        /\ objects'[q].type = objects[q].type /\ objects'[q].prototype = objects[q].prototype
        /\ objects'[q].members = objects[q].members
        /\ objects'[q].property_names = objects[q].property_names
        /\ objects'[q].property_data = objects[q].property_data
        /\ objects'[q].included_modules = IF q = o THEN s ELSE objects[q].included_modules
  BY <1>2, <1>4
<1>6. Prototypes' = Prototypes /\ Ancestors' = Ancestors
  BY <1>4, <1>5, ShapesKeep
<1>7. PropertiesStay
  BY <1>4, <1>5, PropertiesKeep
<1>8. Members' = Members
  BY <1>4, <1>5 DEF Members
<1>9. Included' = [Included EXCEPT ![o] = s]
  BY <1>4, <1>5 DEF Included
<1>10. LookupInv'
  <2>1. ClassPrototype \in Existing /\ ObjectPrototype \in Existing
    BY ObjectsAreASequence DEF ObjectsInv, ObjectsExist, ClassPrototype, ObjectPrototype
  <2> QED  BY <1>4, <1>5, <2>1, LookupKeeps
<1> QED  BY <1>6, <1>7, <1>8, <1>9, <1>10

LEMMA IncludeStep ==
  ASSUME LookupInv, ObjectsInv, NEW o \in Existing, NEW m \in Existing, Include(o, m)
  PROVE  LookupInv' /\ Model!Include(o, m)
<1> DEFINE a == objects[o].included_modules
           s == Append(a, m)
<1>1. /\ objects' = [objects EXCEPT ![o] = [objects[o] EXCEPT !.included_modules = s]]
      /\ answer' = Nothing /\ program' = program /\ ArrayFind(a, m) < 0 /\ ~IsIncluded(m, o)
  BY DEF Include, Step
<1>2. a \in Seq(Existing)
  BY DEF ObjectsInv, ModulesInv, Modules
<1>3. m \notin ToSet(a)
  <2>1. \A j \in 1 .. Len(a) : a[j] # m
    BY <1>1, <1>2, ArrayFindTells
  <2>2. DOMAIN a = 1 .. Len(a)
    BY <1>2
  <2> HIDE DEF a
  <2> QED  BY <2>1, <2>2 DEF ToSet
<1>4. o \notin Model!Includes(m)
  BY <1>1, IncludesIs
<1>5. Included[o] = a
  BY DEF Included
<1> HIDE DEF s
<1>6. /\ LookupInv' /\ PropertiesStay /\ Members' = Members
      /\ Prototypes' = Prototypes /\ Ancestors' = Ancestors
      /\ Included' = [Included EXCEPT ![o] = s]
  BY <1>1, ModulesWritten
<1>7. Included' = [Included EXCEPT ![o] = Append(@, m)]
  BY <1>5, <1>6 DEF s
<1>8. Model!Include(o, m)
  BY <1>1, <1>3, <1>4, <1>5, <1>6, <1>7, IncludingIs
<1> QED  BY <1>6, <1>8

LEMMA UnincludeStep ==
  ASSUME LookupInv, ObjectsInv, NEW o \in Existing, NEW m, Uninclude(o, m)
  PROVE  LookupInv' /\ Model!Uninclude(o, m)
<1> DEFINE a == objects[o].included_modules
           at == ArrayFind(a, m) + 1
           s == RemoveAt(a, at)
<1>1. /\ objects' = [objects EXCEPT ![o] = [objects[o] EXCEPT !.included_modules = s]]
      /\ answer' = Nothing /\ program' = program /\ ArrayFind(a, m) >= 0
  BY DEF Uninclude, Step, ArrayErase
<1>2. a \in Seq(Existing)
  BY DEF ObjectsInv, ModulesInv, Modules
<1>3. at \in DOMAIN a /\ a[at] = m
  BY <1>1, <1>2, ArrayFindTells
<1>5. Included[o] = a
  BY DEF Included
<1> HIDE DEF at, s
<1>6. /\ LookupInv' /\ PropertiesStay /\ Members' = Members
      /\ Prototypes' = Prototypes /\ Ancestors' = Ancestors
      /\ Included' = [Included EXCEPT ![o] = s]
  BY <1>1, ModulesWritten
<1>7. Included' = [Included EXCEPT ![o] = RemoveAt(@, at)]
  BY <1>5, <1>6 DEF s
<1>8. \E j \in DOMAIN Included[o] :
        Included[o][j] = m /\ Included' = [Included EXCEPT ![o] = RemoveAt(@, j)]
  BY <1>3, <1>5, <1>7
<1>9. Model!Uninclude(o, m)
  BY <1>1, <1>6, <1>8, IncludingIs
<1> QED  BY <1>6, <1>9

\* A new object has no modules and no properties.
IsNew(r) == r.included_modules = <<>> /\ r.property_names = <<>> /\ r.property_data = <<>>

LEMMA NewAre ==
  /\ \A p : IsNew(NewObject(p))
  /\ \A n, p : IsNew(NewClass(n, p))
  /\ \A c, p : IsNew(InstancesOf(c, p))
<1>1. \A p : IsNew(NewObject(p)) /\ IsObject(NewObject(p))
  BY NewObjectIs DEF NewObject, IsNew
<1>2. ASSUME NEW n, NEW p PROVE IsNew(NewClass(n, p))
  <2> DEFINE q == NewObject(ClassPrototype)
  <2>1. IsNew(q) /\ IsObject(q)
    BY <1>1
  <2>2. NewClass(n, p) = [q EXCEPT !.type = "class", !.name = n, !.instance_prototype = p]
    BY DEF NewClass
  <2> HIDE DEF q
  <2> QED  BY <2>1, <2>2 DEF IsNew, IsObject
<1>3. ASSUME NEW c, NEW p PROVE IsNew(InstancesOf(c, p))
  <2> DEFINE q == NewObject(p)
             m == "class" :> c
  <2>1. IsNew(q) /\ IsObject(q)
    BY <1>1
  <2>2. InstancesOf(c, p) = [q EXCEPT !.members = m]
    BY DEF InstancesOf
  <2> HIDE DEF q, m
  <2> QED  BY <2>1, <2>2 DEF IsNew, IsObject
<1> QED  BY <1>1, <1>2, <1>3

LEMMA IsSequence ==
  ASSUME NEW S, NEW n \in Nat, NEW r \in [1 .. n -> S]
  PROVE  r \in Seq(S) /\ Len(r) = n
OBVIOUS

LEMMA JoinedIs ==
  ASSUME NEW S, NEW r \in Seq(S), NEW s \in Seq(S)
  PROVE  r \o s = [k \in 1 .. Len(r) + Len(s) |-> IF k <= Len(r) THEN r[k] ELSE s[k - Len(r)]]
<1> DEFINE joined == [k \in 1 .. Len(r) + Len(s) |-> IF k <= Len(r) THEN r[k] ELSE s[k - Len(r)]]
<1>1. Len(r) \in Nat /\ Len(s) \in Nat /\ r \o s \in Seq(S) /\ Len(r \o s) = Len(r) + Len(s)
  OBVIOUS
<1>2. r \o s = [k \in 1 .. Len(r) + Len(s) |-> (r \o s)[k]]
  <2> DEFINE both == r \o s
  <2>1. both \in Seq(S) /\ Len(both) = Len(r) + Len(s)
    BY <1>1
  <2> HIDE DEF both
  <2>2. both = [k \in 1 .. Len(both) |-> both[k]]
    BY <2>1
  <2> QED  BY <2>1, <2>2 DEF both
<1>3. \A k \in 1 .. Len(r) + Len(s) : (r \o s)[k] = joined[k]
  BY <1>1
<1>4. joined = [k \in 1 .. Len(r) + Len(s) |-> joined[k]]
  OBVIOUS
<1> HIDE DEF joined
<1>5. r \o s = joined
  BY <1>2, <1>3, <1>4
<1> QED  BY <1>5 DEF joined

LEMMA CreatedStep ==
  ASSUME NamesDiffer, LookupInv, ObjectsInv, program' = program, answer' = Nothing,
         NEW T, NEW s \in Seq(T), \A k \in 1 .. Len(s) : IsNew(s[k]),
         objects' = objects \o s, NEW protos, protos = [k \in 1 .. Len(s) |-> s[k].prototype]
  PROVE  LookupInv' /\ Model!Create(protos)
<1>1. PICK U : objects \in Seq(U)
  BY DEF ObjectsInv, ObjectsExist
<1>2. Existing = 1 .. Len(objects) /\ Len(objects) >= 4 /\ Len(objects) \in Nat
  BY ObjectsAreASequence DEF ObjectsInv, ObjectsExist
<1>3. /\ Existing' = 1 .. Len(objects) + Len(s) /\ Len(s) \in Nat
      /\ \A o \in Existing : objects'[o] = objects[o]
      /\ \A k \in 1 .. Len(s) : objects'[Len(objects) + k] = s[k]
  BY <1>1, <1>2 DEF Existing
<1>4. \A o \in Existing' \ Existing :
        o - Len(objects) \in 1 .. Len(s) /\ o = Len(objects) + (o - Len(objects))
  BY <1>2, <1>3
<1>5. \A o \in Existing' \ Existing : IsNew(objects'[o])
  BY <1>3, <1>4
<1>6. Existing \subseteq Existing'
  BY <1>2, <1>3
<1>7. LookupInv'
  <2>1. ClassPrototype \in Existing /\ ObjectPrototype \in Existing
    BY <1>2 DEF ClassPrototype, ObjectPrototype
  <2> QED  BY <1>3, <1>5, <1>6, <2>1, LookupKeeps DEF IsNew
<1>8. Prototypes' = Prototypes \o protos
  <2>1. /\ Prototypes = [o \in 1 .. Len(objects) |-> objects[o].prototype]
        /\ Prototypes' = [o \in 1 .. Len(objects) + Len(s) |-> objects'[o].prototype]
    BY <1>2, <1>3 DEF Prototypes
  <2> DEFINE W == {Prototypes[o] : o \in 1 .. Len(objects)} \cup {protos[k] : k \in 1 .. Len(s)}
  <2>2. /\ Prototypes \in Seq(W) /\ Len(Prototypes) = Len(objects)
        /\ protos \in Seq(W) /\ Len(protos) = Len(s)
    <3>1. /\ Prototypes = [o \in 1 .. Len(objects) |-> Prototypes[o]]
          /\ protos = [k \in 1 .. Len(s) |-> protos[k]]
      BY <2>1
    <3>2. Prototypes \in [1 .. Len(objects) -> W] /\ protos \in [1 .. Len(s) -> W]
      BY <3>1
    <3> HIDE DEF W
    <3>3. Prototypes \in Seq(W) /\ Len(Prototypes) = Len(objects)
      BY <1>2, <3>2, IsSequence
    <3>4. protos \in Seq(W) /\ Len(protos) = Len(s)
      BY <1>3, <3>2, IsSequence
    <3> QED  BY <3>3, <3>4
  <2> HIDE DEF W
  <2>3. Prototypes \o protos = [o \in 1 .. Len(objects) + Len(s) |->
                                IF o <= Len(objects) THEN Prototypes[o] ELSE protos[o - Len(objects)]]
    BY <2>2, JoinedIs
  <2>4. ASSUME NEW o \in 1 .. Len(objects) + Len(s)
        PROVE  objects'[o].prototype = IF o <= Len(objects) THEN Prototypes[o] ELSE protos[o - Len(objects)]
    <3>1. CASE o <= Len(objects)
      BY <1>2, <1>3, <2>1, <3>1
    <3>2. CASE ~(o <= Len(objects))
      BY <1>2, <1>3, <1>4, <3>2
    <3> QED  BY <3>1, <3>2
  <2> QED  BY <2>1, <2>3, <2>4
<1>9. Model!Create(protos)
  BY <1>3, <1>5, <1>6, <1>8, CreatingIs DEF IsNew
<1> QED  BY <1>7, <1>9

LEMMA OneCreated ==
  ASSUME NamesDiffer, LookupInv, ObjectsInv, program' = program, answer' = Nothing,
         NEW p, objects' = Append(objects, NewObject(p))
  PROVE  LookupInv' /\ Model!Create(<<p>>)
<1> DEFINE r == NewObject(p)
           s == <<r>>
<1>1. IsNew(r) /\ r.prototype = p
  BY NewAre, NewObjectIs
<1> HIDE DEF r
<1>2. PICK U : objects \in Seq(U)
  BY DEF ObjectsInv, ObjectsExist
<1>3. objects' = objects \o s
  BY <1>2 DEF r
<1>4. s \in Seq({r}) /\ Len(s) = 1 /\ s[1] = r
  OBVIOUS
<1>5. <<p>> = [k \in 1 .. Len(s) |-> s[k].prototype]
  BY <1>1, <1>4
<1>6. \A k \in 1 .. Len(s) : IsNew(s[k])
  BY <1>1, <1>4
<1> HIDE DEF s
<1> QED  BY <1>3, <1>4, <1>5, <1>6, CreatedStep

LEMMA CreateClassStep ==
  ASSUME NamesDiffer, LookupInv, ObjectsInv, NEW superclass, CreateClass(superclass),
         NEW j, j = InstancePrototype(superclass)
  PROVE  LookupInv' /\ Model!Create(<<ClassPrototype, j>>)
<1> DEFINE class == Len(objects) + 1
           q == NewClass(NoEntry, class + 1)
           r == InstancesOf(class, j)
           s == <<q, r>>
           protos == <<ClassPrototype, j>>
<1>1. objects' = objects \o s /\ program' = program /\ answer' = Nothing
  BY DEF CreateClass, Step
<1>2. IsNew(q) /\ IsNew(r)
  BY NewAre
<1>3. q.prototype = ClassPrototype /\ r.prototype = j
  BY NewClassIs, InstancesOfIs
<1> HIDE DEF q, r
<1>4. s \in Seq({q, r}) /\ Len(s) = 2 /\ s[1] = q /\ s[2] = r
  OBVIOUS
<1>5. protos = [k \in 1 .. Len(s) |-> s[k].prototype]
  BY <1>3, <1>4
<1>6. \A k \in 1 .. Len(s) : IsNew(s[k])
  BY <1>2, <1>4
<1> HIDE DEF s, protos
<1>7. LookupInv' /\ Model!Create(protos)
  BY <1>1, <1>4, <1>5, <1>6, CreatedStep
<1> QED  BY <1>7 DEF protos

LEMMA LookupInit == ASSUME NamesDiffer, ProgramsAreOrdered, ObjectsInit PROVE LookupInv
<1> DEFINE P == program.prototypes
           c1 == NewClass("Class", ClassPrototype)
           c2 == [InstancesOf(Class, NULL) EXCEPT
                    !.property_names = <<NameOf>>, !.property_data = <<GetName, SetName>>]
           c3 == NewClass("Object", ObjectPrototype)
           c4 == InstancesOf(Object, NULL)
           more == [k \in DOMAIN P |-> NewObject(P[k])]
<1>1. P \in Seq(Nat \cup {NULL}) /\ program \in Programs
  BY DEF ProgramsAreOrdered, ObjectsInit
<1>2. objects = <<c1, c2, c3, c4>> \o more
  BY DEF ObjectsInit
<1>3. IsNew(c1) /\ IsNew(c3) /\ IsNew(c4) /\ \A k \in DOMAIN P : IsNew(more[k])
  BY NewAre
<1>4. c4.type = "object" /\ c4.prototype = NULL
  BY InstancesOfIs
<1>5. /\ c2.type = "object" /\ c2.prototype = NULL
      /\ c2.property_names = <<NameOf>> /\ c2.property_data = <<GetName, SetName>>
  <2> DEFINE c == InstancesOf(Class, NULL)
             a == <<NameOf>>
             b == <<GetName, SetName>>
  <2>1. IsObject(c) /\ c.type = "object" /\ c.prototype = NULL
    BY InstancesOfIs
  <2>2. c2 = [c EXCEPT !.property_names = a, !.property_data = b]
    OBVIOUS
  <2> HIDE DEF c, c2, a, b
  <2>3. c2.type = "object" /\ c2.prototype = NULL /\ c2.property_names = a /\ c2.property_data = b
    BY <2>1, <2>2 DEF IsObject
  <2> QED  BY <2>3 DEF a, b
<1>6. DOMAIN more = DOMAIN P /\ DOMAIN P = 1 .. Len(P) /\ Len(P) \in Nat
  BY <1>1
<1> HIDE DEF P, c1, c2, c3, c4
<1> DEFINE T == {c1, c2, c3, c4} \cup {more[k] : k \in DOMAIN P}
<1>10. more \in Seq(T) /\ Len(more) = Len(P)
  <2>1. more \in [1 .. Len(P) -> T]
    BY <1>6
  <2> HIDE DEF more, T
  <2> QED  BY <1>6, <2>1
<1>11. c1 \in T /\ c2 \in T /\ c3 \in T /\ c4 \in T
  OBVIOUS
<1> HIDE DEF more, T
<1>12. <<c1, c2, c3, c4>> \in Seq(T) /\ Len(<<c1, c2, c3, c4>>) = 4
  BY <1>11
<1>7. /\ Existing = 1 .. 4 + Len(P)
      /\ objects[1] = c1 /\ objects[2] = c2 /\ objects[3] = c3 /\ objects[4] = c4
      /\ \A k \in 1 .. Len(P) : objects[4 + k] = more[k]
  <2>1. DOMAIN <<c1, c2, c3, c4>> = 1 .. 4
    OBVIOUS
  <2>2. objects \in Seq(T) /\ Len(objects) = 4 + Len(P)
    BY <1>2, <1>10, <1>12, BothSequences
  <2>3. objects[1] = c1 /\ objects[2] = c2 /\ objects[3] = c3 /\ objects[4] = c4
    BY <1>2, <1>10, <1>12, <2>1
  <2>4. \A k \in 1 .. Len(P) : objects[4 + k] = more[k]
    BY <1>2, <1>6, <1>10, <1>12
  <2>5. Existing = 1 .. 4 + Len(P)
    BY <1>6, <2>2 DEF Existing
  <2> QED  BY <2>3, <2>4, <2>5
<1>8. ASSUME NEW o \in Existing PROVE PropertiesFit(objects[o])
  <2>1. o = 2 \/ o \in {1, 3, 4} \/ (o - 4 \in 1 .. Len(P) /\ 4 + (o - 4) = o)
    BY <1>6, <1>7
  <2>2. CASE o = 2
    <3>1. <<NameOf>> \in Seq(Name) /\ Len(<<NameOf>>) = 1
      BY DEF Name
    <3>2. <<GetName, SetName>> \in Seq(Entries) /\ Len(<<GetName, SetName>>) = 2
      BY DEF Entries, Functions
    <3>3. 2 <= 2 * 1
      OBVIOUS
    <3>4. objects[o].property_names = <<NameOf>> /\ objects[o].property_data = <<GetName, SetName>>
      BY <1>5, <1>7, <2>2
    <3> DEFINE a == <<NameOf>>
               b == <<GetName, SetName>>
    <3>5. a \in Seq(Name) /\ Len(a) = 1 /\ b \in Seq(Entries) /\ Len(b) = 2
      BY <3>1, <3>2
    <3> HIDE DEF a, b
    <3>6. objects[o].property_names = a /\ objects[o].property_data = b
      BY <3>4 DEF a, b
    <3> DEFINE r == objects[o]
    <3>7. r.property_names = a /\ r.property_data = b
      BY <3>6
    <3> HIDE DEF r
    <3>8. Len(r.property_names) = 1 /\ Len(r.property_data) = 2
      BY <3>5, <3>7
    <3>9. r.property_names \in Seq(Name) /\ r.property_data \in Seq(Entries)
      BY <3>5, <3>7
    <3>10. PropertiesFit(r)
      BY <3>3, <3>8, <3>9 DEF PropertiesFit
    <3> QED  BY <3>10 DEF r
  <2>3. CASE o # 2
    <3>1. IsNew(objects[o])
      BY <1>3, <1>6, <1>7, <2>1, <2>3
    <3> QED  BY <3>1, NoSequence DEF IsNew, PropertiesFit
  <2> QED  BY <2>2, <2>3
<1>9. FirstObjectsStay
  <2>1. Of(ClassPrototype, NameOf) >= 0
    <3> DEFINE a == <<NameOf>>
    <3>1. a \in Seq(Name) /\ Len(a) = 1 /\ a[1] = NameOf
      BY DEF Name
    <3> HIDE DEF a
    <3>2. /\ ArrayFind(a, NameOf) \in Int
          /\ ArrayFind(a, NameOf) < 0 => \A j \in 1 .. Len(a) : a[j] # NameOf
      BY <3>1, ArrayFindTells
    <3>3. ArrayFind(a, NameOf) >= 0
      BY <3>1, <3>2
    <3>4. objects[ClassPrototype].property_names = a
      BY <1>5, <1>7 DEF ClassPrototype, a
    <3> QED  BY <3>3, <3>4 DEF Of
  <2> QED  BY <1>4, <1>5, <1>7, <2>1 DEF FirstObjectsStay, ClassPrototype, ObjectPrototype
<1> QED  BY <1>1, <1>8, <1>9 DEF LookupInv

LEMMA TargetsExist ==
  ASSUME NamesDiffer, LookupInv
  PROVE  /\ Targets \subseteq Existing /\ Targets \cap Basic = {}
         /\ program.names \subseteq Name /\ UserName \subseteq Name
BY DEF Targets, NamesDiffer, LookupInv, Name

LEMMA LookupNext ==
  ASSUME NamesDiffer, NULL \notin Nat, LookupInv, ObjectsInv, ObjectsNext
  PROVE  LookupInv'
<1>1. /\ Targets \subseteq Existing /\ Targets \cap Basic = {}
      /\ program.names \subseteq Name /\ UserName \subseteq Name
  BY TargetsExist
<1>2. ASSUME NEW p, Create(p) PROVE LookupInv'
  BY <1>2, OneCreated DEF Create, Step
<1>3. ASSUME NEW o \in Targets, NEW n \in program.names, Get(o, n) \/ GetWithFallback(o, n)
      PROVE  LookupInv'
  BY <1>1, <1>3, ReadStep
<1>4. ASSUME NEW o \in Targets, NEW n \in program.names, NEW word, SetMember(o, n, word)
      PROVE  LookupInv'
  BY <1>1, <1>4, SetStep
<1>5. ASSUME NEW o \in Targets, NEW n \in program.names, NEW half \in {0, 1},
             NEW f \in Function \cup {NULL}, Define(o, n, half, f)
      PROVE  LookupInv'
  <2>1. f \in Functions \cup {NULL} /\ o \in Existing /\ o \notin Basic /\ n \in Name
    BY <1>1 DEF Functions
  <2> QED  BY <1>5, <2>1, DefineStep
<1>6. ASSUME NEW o \in Targets, NEW m \in Targets, Include(o, m) \/ Uninclude(o, m)
      PROVE  LookupInv'
  BY <1>1, <1>6, IncludeStep, UnincludeStep
<1>7. ASSUME NEW c, CreateClass(c) PROVE LookupInv'
  <2>1. PICK j : j = InstancePrototype(c)
    OBVIOUS
  <2> QED  BY <1>7, <2>1, CreateClassStep
<1>8. ASSUME NEW c, CreateInstance(c) PROVE LookupInv'
  BY <1>8, OneCreated DEF CreateInstance, Step
<1>9. ASSUME NEW o \in Targets, ResetAssignedName(o) PROVE LookupInv'
  BY <1>1, <1>9, ResetStep
<1>10. ASSUME NEW o \in Targets, NEW n, Assign(o, n) PROVE LookupInv'
  BY <1>1, <1>10, AssignStep
<1> QED  BY <1>2, <1>3, <1>4, <1>5, <1>6, <1>7, <1>8, <1>9, <1>10 DEF ObjectsNext

LEMMA OperationsAre ==
  ASSUME NamesDiffer, NULL \notin Nat, LookupInv, ObjectsInv
  PROVE  OperationsAreOfTheModel
<1>1. /\ Targets \subseteq Existing /\ Targets \cap Basic = {}
      /\ program.names \subseteq Name /\ UserName \subseteq Name
  BY TargetsExist
<1>2. ASSUME NEW o \in Targets, NEW n \in program.names
      PROVE  /\ Get(o, n) => Model!Read(o, n)
             /\ GetWithFallback(o, n) => Model!ReadOrMissing(o, n)
  BY <1>1, ReadStep
<1>3. ASSUME NEW o \in Targets, NEW n \in program.names \cap UserName, NEW word, SetMember(o, n, word)
      PROVE  Model!Write(o, n, word)
  BY <1>1, <1>3, SetStep
<1>4. ASSUME NEW o \in Targets, NEW n \in program.names \cap UserName, NEW half \in {0, 1},
             NEW f \in Function \cup {NULL}, Define(o, n, half, f)
      PROVE  Model!Define(o, n, half, f)
  <2>1. f \in Functions \cup {NULL} /\ o \in Existing /\ o \notin Basic /\ n \in Name
    BY <1>1 DEF Functions
  <2> QED  BY <1>4, <2>1, DefineStep
<1>5. ASSUME NEW o \in Targets, NEW n, Assign(o, n) PROVE Model!Write(o, NameOf, n)
  BY <1>1, <1>5, AssignStep
<1>6. ASSUME NEW o \in Targets, NEW m \in Targets
      PROVE  (Include(o, m) => Model!Include(o, m)) /\ (Uninclude(o, m) => Model!Uninclude(o, m))
  BY <1>1, IncludeStep, UnincludeStep
<1>7. ASSUME NEW p, Create(p) PROVE Model!Create(<<p>>)
  <2>1. objects' = Append(objects, NewObject(p)) /\ program' = program /\ answer' = Nothing
    BY <1>7 DEF Create, Step
  <2> QED  BY <2>1, OneCreated
<1>8. ASSUME NEW c, CreateClass(c) PROVE Model!Create(<<ClassPrototype, InstancePrototype(c)>>)
  <2>1. PICK j : j = InstancePrototype(c)
    OBVIOUS
  <2>2. Model!Create(<<ClassPrototype, j>>)
    BY <1>8, <2>1, CreateClassStep
  <2> QED  BY <2>1, <2>2 DEF Model!Create
<1>9. ASSUME NEW c \in Classes \ {Class}, CreateInstance(c)
      PROVE  Model!Create(<<InstancePrototype(c)>>)
  <2>1. c # NULL
    BY ObjectsAreASequence DEF ObjectsInv, Classes
  <2>2. PICK j : j = InstancePrototype(c)
    OBVIOUS
  <2>3. objects' = Append(objects, NewObject(j)) /\ program' = program /\ answer' = Nothing
    BY <1>9, <2>1, <2>2 DEF CreateInstance, Step, InstancePrototype
  <2>4. Model!Create(<<j>>)
    BY <2>3, OneCreated
  <2> QED  BY <2>2, <2>4 DEF Model!Create
<1>10. ASSUME NEW o \in Targets, ResetAssignedName(o) PROVE Model!Other
  BY <1>1, <1>10, ResetStep
<1> QED  BY <1>2, <1>3, <1>4, <1>5, <1>6, <1>7, <1>8, <1>9, <1>10 DEF OperationsAreOfTheModel

\* Objects keep what ObjectModel promises, whatever programs do with them: each
\* lookup, write, definition, inclusion and creation of snow.c, object.c and class.c
\* is that of the model, for the object, the name and the value it was asked for.
THEOREM ObjectsKeepTheirPromise == ObjectsSpec => ImplementsObjectModel
<1>1. ObjectsInit => ObjectsInv /\ LookupInv
  BY ObjectsInvInit, LookupInit, ObjectsAssumption
<1>2. ASSUME ObjectsInv, LookupInv, [ObjectsNext]_object_vars
      PROVE  ObjectsInv' /\ LookupInv' /\ [OperationsAreOfTheModel]_object_vars
  <2>1. ObjectsInv' /\ NULL \notin Nat
    BY <1>2, ObjectsInvNext, ObjectsAssumption DEF ProgramsAreOrdered
  <2>2. OperationsAreOfTheModel
    BY <1>2, <2>1, OperationsAre, ObjectsAssumption
  <2>3. LookupInv'
    <3>1. CASE ObjectsNext
      BY <1>2, <2>1, <3>1, LookupNext, ObjectsAssumption
    <3>2. CASE UNCHANGED object_vars
      BY <1>2, <3>2 DEF object_vars, LookupInv, FirstObjectsStay, PropertiesFit, Existing, Of
    <3> QED  BY <1>2, <3>1, <3>2
  <2> HIDE DEF OperationsAreOfTheModel
  <2> QED  BY <2>1, <2>2, <2>3
<1> QED  BY <1>1, <1>2, PTL DEF ObjectsSpec, ImplementsObjectModel
=============================================================================
