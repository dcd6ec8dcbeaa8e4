-------------------------- MODULE ExceptionsProofs --------------------------
(***************************************************************************)
(* The three kinds of try, in any nesting and across tasks, leave and find *)
(* exactly the handlers that they count on, when no function returns from  *)
(* a try or a catch block (NoReturns). The argument is a tale that the     *)
(* frames tell: with k frames on the stack, the chains of handlers were    *)
(* g[k], and each frame adds to the chains of the frames below it what its *)
(* phase owns, or, when it performs a task, a chain of its own. As what a  *)
(* frame found is remembered, an exception that unwinds the stack to frame *)
(* k by its handler finds the chains g[k - 1] again, however many frames,  *)
(* all in their ensure block, it passes by (Catcher, Above).               *)
(* From the same tale, and from what the handlers remember (Recorded),     *)
(* each action maps to one of TryCatchEnsure, or to none.                  *)
(***************************************************************************)
EXTENDS Exceptions, SequenceLemmas

FrameType ==
  [kind : Kinds \cup {"loop"}, phase : Phases, catch : Catches, held : Seq(Value), left : Nat]
Role == Kinds \cup {"base", "catcher", "catch"}
HandlerType == [frame : Nat, exception : Value \cup {NoException}, role : Role]

\* What HandlersMatchFrames tells of a handler, of a chain, and of all chains.
Entry == Nat \X Role
Origin(chain) == [i \in DOMAIN chain |-> <<chain[i].frame, chain[i].role>>]
Origins(cs) == [i \in DOMAIN cs |-> Origin(cs[i])]

\* OwnedBy, of any frame.
Owned(f, k) ==
  LET guard == IF f.kind = "callback" THEN "catcher" ELSE "catch"
  IN IF f.kind = "loop" THEN <<>>
     ELSE IF f.kind = "resume" \/ f.phase = "try" THEN <<<<k, f.kind>>>>
     ELSE IF f.phase = "ensure" THEN <<>>
     ELSE <<<<k, f.kind>>, <<k, guard>>>>

(***************************************************************************)
(* The chains as the frames tell them: g[k] is what the first k frames ask *)
(* for.  A frame adds its handlers to the last chain, and a task a chain   *)
(* of its own.                                                             *)
(***************************************************************************)
Stacks == Seq(Seq(Entry)) \ {<<>>}
Push(G, entries) == Append(Front(G), Last(G) \o entries)
Told(f, k, G) == IF f.phase = "task" THEN Append(G, <<>>) ELSE Push(G, Owned(f, k))
Tale(g, fs, cs) ==
  /\ g \in [0 .. Len(fs) -> Stacks]
  /\ g[0] = <<<<<<0, "base">>>>>>
  /\ \A k \in 1 .. Len(fs) : g[k] = Told(fs[k], k, g[k - 1])
  /\ Origins(cs) = g[Len(fs)]

(***************************************************************************)
(* Sequences                                                               *)
(***************************************************************************)
LEMMA RangeIs ==
  ASSUME NEW S, NEW s \in Seq(S)
  PROVE  /\ Range(s) \in SUBSET S
         /\ \A i \in 1 .. Len(s) : s[i] \in Range(s)
         /\ \A x \in Range(s) : \E i \in 1 .. Len(s) : x = s[i]
<1>1. DOMAIN s = 1 .. Len(s) /\ \A i \in 1 .. Len(s) : s[i] \in S
  OBVIOUS
<1> QED  BY <1>1 DEF Range

LEMMA RangeFront ==
  ASSUME NEW S, NEW s \in Seq(S), s # <<>>
  PROVE  Range(Front(s)) \subseteq Range(s) /\ Last(s) \in Range(s)
<1>1. /\ Len(s) \in Nat \ {0} /\ Front(s) \in Seq(S) /\ Len(Front(s)) = Len(s) - 1
      /\ \A i \in 1 .. Len(s) - 1 : Front(s)[i] = s[i]
      /\ Last(s) = s[Len(s)]
  BY FrontLast
<1>2. ASSUME NEW x \in Range(Front(s)) PROVE x \in Range(s)
  <2>1. PICK i \in 1 .. Len(Front(s)) : x = Front(s)[i]
    BY <1>1, RangeIs
  <2>2. i \in 1 .. Len(s) - 1 /\ i \in 1 .. Len(s)
    BY <2>1, <1>1
  <2> QED  BY <2>1, <2>2, <1>1, RangeIs
<1>3. Last(s) \in Range(s)
  <2>1. Len(s) \in 1 .. Len(s)
    BY <1>1
  <2> QED  BY <2>1, <1>1, RangeIs
<1> QED  BY <1>2, <1>3

LEMMA RangeAppend ==
  ASSUME NEW S, NEW s \in Seq(S), NEW x \in S
  PROVE  \A y \in Range(Append(s, x)) : y \in Range(s) \/ y = x
<1>1. /\ Append(s, x) \in Seq(S) /\ Len(Append(s, x)) = Len(s) + 1 /\ Append(s, x)[Len(s) + 1] = x
      /\ \A i \in 1 .. Len(s) : Append(s, x)[i] = s[i]
      /\ Len(s) \in Nat
  BY Appended
<1> SUFFICES ASSUME NEW y \in Range(Append(s, x)) PROVE y \in Range(s) \/ y = x
  OBVIOUS
<1>2. PICK i \in 1 .. Len(Append(s, x)) : y = Append(s, x)[i]
  BY <1>1, RangeIs
<1>3. i = Len(s) + 1 \/ i \in 1 .. Len(s)
  BY <1>1, <1>2
<1> QED  BY <1>1, <1>2, <1>3, RangeIs

LEMMA RangeCut ==
  ASSUME NEW S, NEW s \in Seq(S), NEW m \in 0 .. Len(s)
  PROVE  Range(SubSeq(s, 1, m)) \subseteq Range(s)
<1>1. /\ SubSeq(s, 1, m) \in Seq(S) /\ Len(SubSeq(s, 1, m)) = m
      /\ \A i \in 1 .. m : SubSeq(s, 1, m)[i] = s[i]
  OBVIOUS
<1> SUFFICES ASSUME NEW x \in Range(SubSeq(s, 1, m)) PROVE x \in Range(s)
  OBVIOUS
<1>2. PICK i \in 1 .. m : x = SubSeq(s, 1, m)[i]
  BY <1>1, RangeIs
<1>3. i \in 1 .. Len(s) /\ x = s[i]
  BY <1>1, <1>2
<1> QED  BY <1>3, RangeIs

(***************************************************************************)
(* Origins                                                                 *)
(***************************************************************************)
LEMMA OriginIs ==
  ASSUME NEW c \in Seq(HandlerType)
  PROVE  /\ Origin(c) \in Seq(Entry) /\ Len(Origin(c)) = Len(c)
         /\ DOMAIN Origin(c) = 1 .. Len(c)
         /\ \A i \in 1 .. Len(c) : Origin(c)[i] = <<c[i].frame, c[i].role>>
         /\ c = <<>> <=> Origin(c) = <<>>
<1>1. DOMAIN c = 1 .. Len(c) /\ Len(c) \in Nat
  OBVIOUS
<1>2. ASSUME NEW i \in 1 .. Len(c) PROVE <<c[i].frame, c[i].role>> \in Entry
  <2>1. c[i] \in HandlerType
    OBVIOUS
  <2> QED  BY <2>1 DEF HandlerType, Entry
<1>3. Origin(c) \in Seq(Entry) /\ Len(Origin(c)) = Len(c)
  BY <1>1, <1>2 DEF Origin
<1> QED  BY <1>1, <1>3 DEF Origin

LEMMA OriginAppend ==
  ASSUME NEW c \in Seq(HandlerType), NEW h \in HandlerType
  PROVE  Origin(Append(c, h)) = Append(Origin(c), <<h.frame, h.role>>)
<1> DEFINE e == <<h.frame, h.role>>
           d == Append(c, h)
<1>1. d \in Seq(HandlerType) /\ Len(d) = Len(c) + 1 /\ d[Len(c) + 1] = h
      /\ \A i \in 1 .. Len(c) : d[i] = c[i]
  BY Appended
<1>2. e \in Entry
  BY DEF HandlerType, Entry
<1>3. Origin(c) \in Seq(Entry) /\ Len(Origin(c)) = Len(c) /\ Len(c) \in Nat
  BY OriginIs
<1> HIDE DEF d
<1>4. Origin(d) \in Seq(Entry) /\ Len(Origin(d)) = Len(c) + 1
  BY <1>1, OriginIs
<1>5. Append(Origin(c), e) \in Seq(Entry) /\ Len(Append(Origin(c), e)) = Len(c) + 1
  BY <1>2, <1>3
<1>6. ASSUME NEW i \in 1 .. Len(c) + 1 PROVE Origin(d)[i] = Append(Origin(c), e)[i]
  <2>1. Origin(d)[i] = <<d[i].frame, d[i].role>>
    BY <1>1, OriginIs
  <2>2. CASE i = Len(c) + 1
    BY <2>1, <2>2, <1>1, <1>2, <1>3, Appended
  <2>3. CASE i # Len(c) + 1
    <3>1. i \in 1 .. Len(c)
      BY <2>3, <1>3
    <3>2. Append(Origin(c), e)[i] = Origin(c)[i]
      BY <3>1, <1>2, <1>3, Appended
    <3> QED  BY <2>1, <3>1, <3>2, <1>1, OriginIs
  <2> QED  BY <2>2, <2>3
<1>7. Origin(d) = Append(Origin(c), e)
  <2> HIDE DEF e
  <2> QED  BY <1>4, <1>5, <1>6, SameSequence
<1> QED  BY <1>7 DEF d

LEMMA OriginFront ==
  ASSUME NEW c \in Seq(HandlerType), c # <<>>
  PROVE  /\ Origin(Front(c)) = Front(Origin(c))
         /\ Last(Origin(c)) = <<Last(c).frame, Last(c).role>>
         /\ Origin(c) # <<>>
<1>1. /\ Len(c) \in Nat \ {0} /\ Front(c) \in Seq(HandlerType) /\ Len(Front(c)) = Len(c) - 1
      /\ \A i \in 1 .. Len(c) - 1 : Front(c)[i] = c[i]
      /\ Last(c) = c[Len(c)]
  BY FrontLast
<1>2. Origin(c) \in Seq(Entry) /\ Len(Origin(c)) = Len(c) /\ Origin(c) # <<>>
  BY OriginIs
<1>3. /\ Front(Origin(c)) \in Seq(Entry) /\ Len(Front(Origin(c))) = Len(c) - 1
      /\ \A i \in 1 .. Len(c) - 1 : Front(Origin(c))[i] = Origin(c)[i]
      /\ Last(Origin(c)) = Origin(c)[Len(c)]
  BY <1>2, FrontLast
<1>4. Origin(Front(c)) \in Seq(Entry) /\ Len(Origin(Front(c))) = Len(c) - 1
  BY <1>1, OriginIs
<1>5. ASSUME NEW i \in 1 .. Len(c) - 1 PROVE Origin(Front(c))[i] = Front(Origin(c))[i]
  <2>1. i \in 1 .. Len(c) /\ i \in 1 .. Len(Front(c))
    BY <1>1
  <2> QED  BY <2>1, <1>1, <1>3, OriginIs, ZenonT(60)
<1>6. Origin(Front(c)) = Front(Origin(c))
  BY <1>3, <1>4, <1>5, SameSequence
<1>7. Last(Origin(c)) = <<Last(c).frame, Last(c).role>>
  BY <1>1, <1>3, OriginIs
<1> QED  BY <1>2, <1>6, <1>7

\* A handler that is given another exception stays where it is.
LEMMA OriginGiven ==
  ASSUME NEW c \in Seq(HandlerType), c # <<>>, NEW e \in Value \cup {NoException}
  PROVE  /\ Append(Front(c), [Last(c) EXCEPT !.exception = e]) \in Seq(HandlerType)
         /\ Origin(Append(Front(c), [Last(c) EXCEPT !.exception = e])) = Origin(c)
<1> DEFINE h == [Last(c) EXCEPT !.exception = e]
<1>1. Front(c) \in Seq(HandlerType) /\ Last(c) \in HandlerType
  BY FrontLast
<1>2. h \in HandlerType /\ h.frame = Last(c).frame /\ h.role = Last(c).role
  BY <1>1 DEF HandlerType
<1> HIDE DEF h
<1>3. Origin(Append(Front(c), h)) = Append(Origin(Front(c)), <<h.frame, h.role>>)
  BY <1>1, <1>2, OriginAppend
<1>4. Origin(Append(Front(c), h)) = Append(Front(Origin(c)), Last(Origin(c)))
  BY <1>2, <1>3, OriginFront
<1>5. Origin(c) \in Seq(Entry) /\ Origin(c) # <<>>
  BY OriginIs
<1>6. Origin(Append(Front(c), h)) = Origin(c)
  BY <1>4, <1>5, Rebuilt
<1>7. Append(Front(c), h) \in Seq(HandlerType)
  BY <1>1, <1>2, Appended
<1> QED  BY <1>6, <1>7 DEF h

\* The chains of all tasks.
LEMMA OriginsAre ==
  ASSUME NEW cs \in Seq(Seq(HandlerType))
  PROVE  /\ Origins(cs) \in Seq(Seq(Entry)) /\ Len(Origins(cs)) = Len(cs)
         /\ \A i \in 1 .. Len(cs) : Origins(cs)[i] = Origin(cs[i])
         /\ cs = <<>> <=> Origins(cs) = <<>>
<1>1. DOMAIN cs = 1 .. Len(cs) /\ Len(cs) \in Nat
  OBVIOUS
<1>2. \A i \in 1 .. Len(cs) : Origin(cs[i]) \in Seq(Entry)
  BY OriginIs
<1>3. Origins(cs) \in Seq(Seq(Entry)) /\ Len(Origins(cs)) = Len(cs)
  BY <1>1, <1>2 DEF Origins
<1> QED  BY <1>1, <1>3 DEF Origins

LEMMA OriginsFront ==
  ASSUME NEW cs \in Seq(Seq(HandlerType)), cs # <<>>
  PROVE  /\ Origins(Front(cs)) = Front(Origins(cs))
         /\ Last(Origins(cs)) = Origin(Last(cs))
<1>1. /\ Len(cs) \in Nat \ {0} /\ Front(cs) \in Seq(Seq(HandlerType)) /\ Len(Front(cs)) = Len(cs) - 1
      /\ \A i \in 1 .. Len(cs) - 1 : Front(cs)[i] = cs[i]
      /\ Last(cs) = cs[Len(cs)]
  BY FrontLast
<1>2. Origins(cs) \in Seq(Seq(Entry)) /\ Len(Origins(cs)) = Len(cs) /\ Origins(cs) # <<>>
  BY OriginsAre
<1>3. /\ Front(Origins(cs)) \in Seq(Seq(Entry)) /\ Len(Front(Origins(cs))) = Len(cs) - 1
      /\ \A i \in 1 .. Len(cs) - 1 : Front(Origins(cs))[i] = Origins(cs)[i]
      /\ Last(Origins(cs)) = Origins(cs)[Len(cs)]
  BY <1>2, FrontLast
<1>4. Origins(Front(cs)) \in Seq(Seq(Entry)) /\ Len(Origins(Front(cs))) = Len(cs) - 1
  BY <1>1, OriginsAre
<1>5. ASSUME NEW i \in 1 .. Len(cs) - 1 PROVE Origins(Front(cs))[i] = Front(Origins(cs))[i]
  <2>1. i \in 1 .. Len(cs) /\ i \in 1 .. Len(Front(cs))
    BY <1>1
  <2> QED  BY <2>1, <1>1, <1>3, OriginsAre
<1>6. Origins(Front(cs)) = Front(Origins(cs))
  BY <1>3, <1>4, <1>5, SameSequence
<1>7. Last(Origins(cs)) = Origin(Last(cs))
  BY <1>1, <1>3, OriginsAre
<1> QED  BY <1>6, <1>7

LEMMA OriginsAppend ==
  ASSUME NEW cs \in Seq(Seq(HandlerType)), NEW c \in Seq(HandlerType)
  PROVE  Origins(Append(cs, c)) = Append(Origins(cs), Origin(c))
<1> DEFINE d == Append(cs, c)
<1>1. d \in Seq(Seq(HandlerType)) /\ Len(d) = Len(cs) + 1 /\ d[Len(cs) + 1] = c
      /\ \A i \in 1 .. Len(cs) : d[i] = cs[i]
  BY Appended
<1>2. Origin(c) \in Seq(Entry)
  BY OriginIs
<1>3. Origins(cs) \in Seq(Seq(Entry)) /\ Len(Origins(cs)) = Len(cs) /\ Len(cs) \in Nat
  BY OriginsAre
<1> HIDE DEF d
<1>4. Origins(d) \in Seq(Seq(Entry)) /\ Len(Origins(d)) = Len(cs) + 1
  BY <1>1, OriginsAre
<1>5. /\ Append(Origins(cs), Origin(c)) \in Seq(Seq(Entry))
      /\ Len(Append(Origins(cs), Origin(c))) = Len(cs) + 1
  BY <1>2, <1>3, Appended
<1>6. ASSUME NEW i \in 1 .. Len(cs) + 1 PROVE Origins(d)[i] = Append(Origins(cs), Origin(c))[i]
  <2>1. Origins(d)[i] = Origin(d[i])
    BY <1>1, OriginsAre
  <2>2. CASE i = Len(cs) + 1
    BY <2>1, <2>2, <1>1, <1>2, <1>3, Appended
  <2>3. CASE i # Len(cs) + 1
    <3>1. i \in 1 .. Len(cs)
      BY <2>3, <1>3
    <3>2. Append(Origins(cs), Origin(c))[i] = Origins(cs)[i]
      BY <3>1, <1>2, <1>3, Appended
    <3> QED  BY <2>1, <3>1, <3>2, <1>1, OriginsAre
  <2> QED  BY <2>2, <2>3
<1>7. Origins(d) = Append(Origins(cs), Origin(c))
  BY <1>4, <1>5, <1>6, SameSequence
<1> QED  BY <1>7 DEF d

(***************************************************************************)
(* The tale of frames and chains                                           *)
(***************************************************************************)
LEMMA PushIs ==
  ASSUME NEW G \in Stacks, NEW x \in Seq(Entry)
  PROVE  /\ Push(G, x) \in Stacks
         /\ Front(Push(G, x)) = Front(G) /\ Last(Push(G, x)) = Last(G) \o x
         /\ Last(G) \in Seq(Entry)
         /\ Push(G, <<>>) = G
<1> DEFINE E == Seq(Entry)
           y == Last(G) \o x
<1>1. G \in Seq(E) /\ G # <<>>
  BY DEF Stacks
<1>2. Front(G) \in Seq(E) /\ Last(G) \in E
  <2> HIDE DEF E
  <2> QED  BY <1>1, FrontLast
<1>3. y \in E /\ Last(G) \o <<>> = Last(G)
  BY <1>2, Joined
<1>4. Push(G, <<>>) = G
  <2>1. Append(Front(G), Last(G)) = G
    <3> HIDE DEF E
    <3> QED  BY <1>1, Rebuilt
  <2> QED  BY <1>3, <2>1 DEF Push
<1>5. /\ Append(Front(G), y) \in Seq(E) /\ Append(Front(G), y) # <<>>
      /\ Front(Append(Front(G), y)) = Front(G) /\ Last(Append(Front(G), y)) = y
  <2> HIDE DEF E, y
  <2> QED  BY <1>2, <1>3, Appended
<1> QED  BY <1>2, <1>4, <1>5 DEF Push, Stacks

LEMMA OwnedIs ==
  ASSUME NEW f \in FrameType, NEW k \in Nat
  PROVE  /\ Owned(f, k) \in Seq(Entry)
         /\ \/ Owned(f, k) = <<>>
            \/ Owned(f, k) = <<<<k, f.kind>>>> /\ <<k, f.kind>> \in Entry
            \/ /\ \E r \in {"catcher", "catch"} :
                    Owned(f, k) = <<<<k, f.kind>>, <<k, r>>>> /\ <<k, r>> \in Entry
               /\ <<k, f.kind>> \in Entry
<1>1. ASSUME f.kind # "loop" PROVE <<k, f.kind>> \in Entry
  <2>1. f.kind \in Kinds
    BY <1>1 DEF FrameType
  <2> QED  BY <2>1 DEF Entry, Role
<1>2. <<k, "catcher">> \in Entry /\ <<k, "catch">> \in Entry
  BY DEF Entry, Role
<1>3. CASE f.kind = "loop"
  BY <1>3 DEF Owned
<1>4. CASE f.kind # "loop" /\ (f.kind = "resume" \/ f.phase = "try")
  <2>1. Owned(f, k) = <<<<k, f.kind>>>>
    BY <1>4 DEF Owned
  <2> QED  BY <1>1, <1>4, <2>1
<1>5. CASE f.kind # "loop" /\ ~(f.kind = "resume" \/ f.phase = "try") /\ f.phase = "ensure"
  BY <1>5 DEF Owned
<1>6. CASE f.kind # "loop" /\ ~(f.kind = "resume" \/ f.phase = "try") /\ f.phase # "ensure"
  <2>1. PICK r \in {"catcher", "catch"} : Owned(f, k) = <<<<k, f.kind>>, <<k, r>>>>
    BY <1>6 DEF Owned
  <2> QED  BY <1>1, <1>2, <1>6, <2>1
<1> QED  BY <1>3, <1>4, <1>5, <1>6

LEMMA ToldIs ==
  ASSUME NEW f \in FrameType, NEW k \in Nat, NEW G \in Stacks
  PROVE  Told(f, k, G) \in Stacks
<1>1. <<>> \in Seq(Entry) /\ G \in Seq(Seq(Entry))
  BY DEF Stacks
<1>2. Append(G, <<>>) \in Stacks
  BY <1>1, Appended DEF Stacks
<1>3. Push(G, Owned(f, k)) \in Stacks
  BY OwnedIs, PushIs
<1> QED  BY <1>2, <1>3 DEF Told

\* A frame that asks for nothing.
Plain(f, k) == f.phase # "task" /\ Owned(f, k) = <<>>

LEMMA Stacked ==
  ASSUME NEW fs \in Seq(FrameType), NEW cs, NEW g, Tale(g, fs, cs),
         NEW k \in 1 .. Len(fs) + 1, NEW f \in FrameType, NEW ds,
         Origins(ds) = Told(f, k, g[k - 1])
  PROVE  LET gs == Append(SubSeq(fs, 1, k - 1), f) IN
         /\ gs \in Seq(FrameType) /\ Len(gs) = k /\ gs[k] = f
         /\ \A j \in 1 .. k - 1 : gs[j] = fs[j]
         /\ \E h : Tale(h, gs, ds) /\ \A j \in 0 .. k - 1 : h[j] = g[j]
<1> DEFINE gs == Append(SubSeq(fs, 1, k - 1), f)
           h == [j \in 0 .. k |-> IF j = k THEN Told(f, k, g[k - 1]) ELSE g[j]]
<1>1. k \in Nat \ {0} /\ k - 1 \in 0 .. Len(fs) /\ Len(fs) \in Nat
  OBVIOUS
<1>2. gs \in Seq(FrameType) /\ Len(gs) = k /\ gs[k] = f /\ \A j \in 1 .. k - 1 : gs[j] = fs[j]
  BY <1>1
<1> HIDE DEF gs
<1>3. \A j \in 0 .. k - 1 : g[j] \in Stacks
  BY <1>1 DEF Tale
<1>4. Told(f, k, g[k - 1]) \in Stacks
  BY <1>1, <1>3, ToldIs
<1>5. h \in [0 .. k -> Stacks] /\ h[k] = Told(f, k, g[k - 1]) /\ \A j \in 0 .. k - 1 : h[j] = g[j]
  BY <1>1, <1>3, <1>4
<1> HIDE DEF h
<1>6. h[0] = <<<<<<0, "base">>>>>>
  BY <1>1, <1>5 DEF Tale
<1>7. ASSUME NEW j \in 1 .. k PROVE h[j] = Told(gs[j], j, h[j - 1])
  <2>1. CASE j = k
    BY <2>1, <1>1, <1>2, <1>5
  <2>2. CASE j # k
    <3>1. j \in 1 .. k - 1 /\ j \in 0 .. k - 1 /\ j - 1 \in 0 .. k - 1 /\ j \in 1 .. Len(fs)
      BY <2>2, <1>1
    <3> QED  BY <3>1, <1>2, <1>5 DEF Tale
  <2> QED  BY <2>1, <2>2
<1>8. Tale(h, gs, ds)
  BY <1>2, <1>5, <1>6, <1>7 DEF Tale
<1> QED  BY <1>2, <1>5, <1>8 DEF gs

LEMMA Unstacked ==
  ASSUME NEW fs \in Seq(FrameType), NEW cs, NEW g, Tale(g, fs, cs),
         NEW k \in 0 .. Len(fs), NEW ds, Origins(ds) = g[k]
  PROVE  LET gs == SubSeq(fs, 1, k) IN
         /\ gs \in Seq(FrameType) /\ Len(gs) = k
         /\ \A j \in 1 .. k : gs[j] = fs[j]
         /\ \E h : Tale(h, gs, ds) /\ \A j \in 0 .. k : h[j] = g[j]
<1> DEFINE gs == SubSeq(fs, 1, k)
           h == [j \in 0 .. k |-> g[j]]
<1>1. k \in Nat /\ Len(fs) \in Nat
  OBVIOUS
<1>2. gs \in Seq(FrameType) /\ Len(gs) = k /\ \A j \in 1 .. k : gs[j] = fs[j]
  BY <1>1
<1> HIDE DEF gs
<1>5. h \in [0 .. k -> Stacks] /\ \A j \in 0 .. k : h[j] = g[j]
  BY <1>1 DEF Tale
<1> HIDE DEF h
<1>6. h[0] = <<<<<<0, "base">>>>>>
  BY <1>1, <1>5 DEF Tale
<1>7. ASSUME NEW j \in 1 .. k PROVE h[j] = Told(gs[j], j, h[j - 1])
  <2>1. j \in 0 .. k /\ j - 1 \in 0 .. k /\ j \in 1 .. Len(fs)
    BY <1>1
  <2> QED  BY <2>1, <1>2, <1>5 DEF Tale
<1>8. Tale(h, gs, ds)
  BY <1>1, <1>2, <1>5, <1>6, <1>7 DEF Tale
<1> QED  BY <1>2, <1>5, <1>8 DEF gs

(***************************************************************************)
(* The innermost frame that asks for something                             *)
(***************************************************************************)
Above(fs, t) == \A j \in t + 1 .. Len(fs) : Plain(fs[j], j)

LEMMA Innermosts ==
  ASSUME NEW fs \in Seq(FrameType), NEW cs, NEW g, Tale(g, fs, cs)
  PROVE  \E t \in 0 .. Len(fs) : Above(fs, t) /\ g[t] = g[Len(fs)] /\ (t > 0 => ~Plain(fs[t], t))
<1> DEFINE n == Len(fs)
           P == {t \in 0 .. n : Above(fs, t) /\ g[t] = g[n]}
<1>1. n \in Nat
  OBVIOUS
<1>2. n \in P
  BY <1>1 DEF Above
<1>3. PICK m \in P : \A t \in P : m <= t
  <2>1. P \in SUBSET Nat
    BY <1>1
  <2> HIDE DEF P
  <2> QED  BY <1>2, <2>1, Least
<1>4. ASSUME m > 0, Plain(fs[m], m) PROVE FALSE
  <2>1. m \in 1 .. n /\ m - 1 \in 0 .. n /\ m - 1 \in Nat
    BY <1>1, <1>3, <1>4
  <2>2. g[m - 1] \in Stacks /\ g[m] = Told(fs[m], m, g[m - 1])
    BY <2>1 DEF Tale
  <2>3. g[m] = Push(g[m - 1], <<>>)
    BY <2>2, <1>4 DEF Told, Plain
  <2>4. <<>> \in Seq(Entry)
    OBVIOUS
  <2>5. g[m] = g[m - 1]
    BY <2>2, <2>3, <2>4, PushIs
  <2>6. Above(fs, m - 1)
    <3> SUFFICES ASSUME NEW j \in m - 1 + 1 .. Len(fs) PROVE Plain(fs[j], j)
      BY DEF Above
    <3>1. j = m \/ j \in m + 1 .. Len(fs)
      BY <2>1, <1>1
    <3> QED  BY <3>1, <1>3, <1>4 DEF Above
  <2>7. m - 1 \in P
    BY <1>3, <2>1, <2>5, <2>6
  <2>8. m <= m - 1
    <3> HIDE DEF P
    <3> QED  BY <1>3, <2>7
  <2> QED  BY <2>1, <2>8
<1> QED  BY <1>1, <1>3, <1>4

\* The top handler, or the absence of one, tells which frame that is.
LEMMA TopIs ==
  ASSUME NEW fs \in Seq(FrameType), NEW cs \in Seq(Seq(HandlerType)), NEW g, Tale(g, fs, cs)
  PROVE  /\ cs # <<>> /\ Last(cs) \in Seq(HandlerType)
         /\ Last(cs) = <<>> =>
              \E t \in 1 .. Len(fs) :
                fs[t].phase = "task" /\ Above(fs, t) /\ Origins(cs) = Append(g[t - 1], <<>>)
         /\ Last(cs) # <<>> =>
              LET h == Last(Last(cs)) IN
              /\ h.frame \in 0 .. Len(fs) /\ Above(fs, h.frame) /\ Origins(cs) = g[h.frame]
              /\ h.frame = 0 => h.role = "base"
              /\ h.frame > 0 =>
                   LET f == fs[h.frame] IN
                   /\ f.phase # "task" /\ Owned(f, h.frame) # <<>>
                   /\ Last(Owned(f, h.frame)) = <<h.frame, h.role>>
                   /\ Origins(cs) = Push(g[h.frame - 1], Owned(f, h.frame))
<1>0. PICK t \in 0 .. Len(fs) :
        Above(fs, t) /\ g[t] = g[Len(fs)] /\ (t > 0 => ~Plain(fs[t], t))
  BY Innermosts
<1>1. t \in Nat /\ Len(fs) \in Nat
  BY <1>0
<1>2. Origins(cs) = g[t] /\ g[t] \in Stacks
  BY <1>0 DEF Tale
<1>3. cs # <<>>
  BY <1>2, OriginsAre DEF Stacks
<1>4. Last(cs) \in Seq(HandlerType) /\ Last(Origins(cs)) = Origin(Last(cs))
  BY <1>3, FrontLast, OriginsFront
<1> DEFINE C == Last(cs)
           h == Last(C)
<1>5. C # <<>> => Last(Origin(C)) = <<h.frame, h.role>> /\ Origin(C) # <<>>
  BY <1>4, OriginFront
<1>6. C = <<>> => Origin(C) = <<>>
  BY <1>4, OriginIs
<1> HIDE DEF C
<1>7. CASE t = 0
  <2>1. g[t] = <<<<<<0, "base">>>>>>
    BY <1>7 DEF Tale
  <2>2. Origin(C) = <<<<0, "base">>>>
    BY <2>1, <1>2, <1>4 DEF Last, C
  <2>3. C # <<>> /\ Last(Origin(C)) = <<0, "base">>
    BY <2>2, <1>6 DEF Last
  <2>4. h.frame = 0 /\ h.role = "base"
    BY <2>3, <1>5
  <2> QED  BY <1>0, <1>2, <1>3, <1>4, <1>7, <2>3, <2>4 DEF C
<1>8. CASE t > 0 /\ fs[t].phase = "task"
  <2>1. t \in 1 .. Len(fs) /\ t - 1 \in 0 .. Len(fs)
    BY <1>1, <1>8, <1>0
  <2>2. g[t] = Append(g[t - 1], <<>>) /\ g[t - 1] \in Stacks
    BY <2>1, <1>8 DEF Tale, Told
  <2>3. Last(g[t]) = <<>>
    <3> DEFINE E == Seq(Entry)
               none == <<>>
    <3>1. g[t - 1] \in Seq(E) /\ none \in E
      BY <2>2 DEF Stacks
    <3>2. Last(Append(g[t - 1], none)) = none
      <4> HIDE DEF E, none
      <4> QED  BY <3>1, Appended
    <3> QED  BY <2>2, <3>2
  <2>4. C = <<>>
    BY <2>3, <1>2, <1>4, <1>5 DEF C
  <2> QED  BY <1>0, <1>2, <1>3, <1>4, <1>8, <2>1, <2>2, <2>4 DEF C
<1>9. CASE t > 0 /\ fs[t].phase # "task"
  <2> DEFINE f == fs[t]
             own == Owned(f, t)
             G == g[t - 1]
  <2>1. t \in 1 .. Len(fs) /\ t - 1 \in 0 .. Len(fs) /\ f \in FrameType
    BY <1>1, <1>9, <1>0
  <2>2. g[t] = Push(G, own) /\ G \in Stacks /\ own # <<>>
    BY <2>1, <1>9, <1>0 DEF Tale, Told, Plain
  <2>3. Origin(C) = Last(G) \o own /\ Last(G) \in Seq(Entry) /\ own \in Seq(Entry)
    <3>1. own \in Seq(Entry)
      BY <2>1, <1>1, OwnedIs
    <3> HIDE DEF own, G
    <3> QED  BY <3>1, <2>2, <1>2, <1>4, PushIs DEF C
  <2>4. PICK r : /\ Origin(C) # <<>> /\ Last(Origin(C)) = <<t, r>>
                 /\ Last(own) = <<t, r>>
    <3> HIDE DEF G
    <3>1. CASE own = <<<<t, f.kind>>>> /\ <<t, f.kind>> \in Entry
      BY <3>1, <2>3, JoinedOne DEF Last
    <3>2. ASSUME NEW r \in {"catcher", "catch"}, own = <<<<t, f.kind>>, <<t, r>>>>,
                 <<t, f.kind>> \in Entry, <<t, r>> \in Entry
          PROVE  Origin(C) # <<>> /\ Last(Origin(C)) = <<t, r>> /\ Last(own) = <<t, r>>
      <4> HIDE DEF own
      <4>1. Last(own) = <<t, r>>
        BY <3>2 DEF Last
      <4>2. Last(G) \o own # <<>> /\ Last(Last(G) \o own) = <<t, r>>
        <5> DEFINE L == Last(G)
                   a == <<t, f.kind>>
                   b == <<t, r>>
        <5>1. L \in Seq(Entry) /\ a \in Entry /\ b \in Entry /\ own = <<a, b>>
          BY <3>2, <2>3
        <5> HIDE DEF L, a, b
        <5>2. L \o <<a, b>> = Append(Append(L, a), b)
          BY <5>1, JoinedTwo
        <5>3. Append(L, a) \in Seq(Entry)
          BY <5>1, Appended
        <5>4. Append(Append(L, a), b) # <<>> /\ Last(Append(Append(L, a), b)) = b
          BY <5>1, <5>3, Appended, ZenonT(60)
        <5>5. L \o own # <<>> /\ Last(L \o own) = b
          BY <5>1, <5>2, <5>4
        <5> QED  BY <5>5 DEF L, b
      <4> QED  BY <4>1, <4>2, <2>3
    <3> QED  BY <3>1, <3>2, <2>1, <2>2, <1>1, OwnedIs
  <2>5. C # <<>> /\ h.frame = t /\ h.role = r
    BY <2>4, <1>5, <1>6
  <2> QED  BY <1>0, <1>1, <1>2, <1>3, <1>4, <1>9, <2>2, <2>4, <2>5 DEF C
<1> QED  BY <1>1, <1>7, <1>8, <1>9

\* What becomes of the chains when the last one is cut back.
LEMMA CutBack ==
  ASSUME NEW cs \in Seq(Seq(HandlerType)), cs # <<>>, NEW G \in Stacks, NEW own \in Seq(Entry),
         Origins(cs) = Push(G, own), NEW d \in Seq(HandlerType), NEW x \in Seq(Entry),
         Origin(d) = Last(G) \o x
  PROVE  Origins(Append(Front(cs), d)) = Push(G, x)
<1>1. Front(cs) \in Seq(Seq(HandlerType)) /\ Origins(Front(cs)) = Front(Origins(cs))
  BY FrontLast, OriginsFront
<1>2. Origins(Append(Front(cs), d)) = Append(Front(Origins(cs)), Origin(d))
  BY <1>1, OriginsAppend
<1>3. Front(Origins(cs)) = Front(G)
  BY PushIs
<1> QED  BY <1>2, <1>3 DEF Push

(***************************************************************************)
(* The end of a chain                                                      *)
(***************************************************************************)
LEMMA Pop ==
  ASSUME NEW d \in Seq(HandlerType), NEW L \in Seq(Entry), NEW e \in Entry,
         Origin(d) = Append(L, e)
  PROVE  /\ d # <<>> /\ Last(d) \in HandlerType /\ Last(d).frame = e[1] /\ Last(d).role = e[2]
         /\ Front(d) \in Seq(HandlerType) /\ Origin(Front(d)) = L
         /\ Len(d) = Len(L) + 1
<1>1. Origin(d) # <<>> /\ Front(Origin(d)) = L /\ Last(Origin(d)) = e
  BY Appended
<1>2. d # <<>>
  BY <1>1, OriginIs
<1>3. Front(d) \in Seq(HandlerType) /\ Len(Front(d)) = Len(d) - 1 /\ Last(d) \in HandlerType /\ Len(d) \in Nat
  BY <1>2, FrontLast
<1>4. Origin(Front(d)) = L /\ e = <<Last(d).frame, Last(d).role>>
  BY <1>1, <1>2, OriginFront
<1>5. Len(Front(d)) = Len(L)
  BY <1>3, <1>4, OriginIs
<1> QED  BY <1>2, <1>3, <1>4, <1>5

\* Where the handler of a callback frame is.
IsCallback(h, k) == h.frame = k /\ h.role = "callback"
Cutoff(d, k) == SubSeq(d, 1, SelectLastInSeq(d, LAMBDA h : h.frame = k /\ h.role = "callback") - 1)

LEMMA LastPlace ==
  ASSUME NEW d \in Seq(HandlerType), NEW k, NEW m \in 1 .. Len(d), IsCallback(d[m], k),
         \A j \in m + 1 .. Len(d) : ~IsCallback(d[j], k)
  PROVE  Cutoff(d, k) = SubSeq(d, 1, m - 1)
<1> DEFINE I == {i \in 1 .. Len(d) : d[i].frame = k /\ d[i].role = "callback"}
<1>1. m \in I /\ \A i \in I : m >= i
  BY DEF IsCallback
<1>2. Max(I) = m
  <2>1. \A x \in I : (\A y \in I : x >= y) => x = m
    BY <1>1
  <2> QED  BY <1>1, <2>1 DEF Max
<1>3. I # {}
  BY <1>1
<1> QED  BY <1>2, <1>3 DEF Cutoff, SelectLastInSeq

LEMMA CallbackPopped ==
  ASSUME NEW c \in Seq(HandlerType), NEW L \in Seq(Entry), NEW k \in Nat,
         NEW a \in Entry, a[1] = k, a[2] = "callback", Origin(c) = Append(L, a)
  PROVE  /\ Len(c) = Len(L) + 1 /\ IsCallback(c[Len(c)], k)
         /\ SubSeq(c, 1, Len(c) - 1) \in Seq(HandlerType)
         /\ Origin(SubSeq(c, 1, Len(c) - 1)) = L
<1>1. /\ c # <<>> /\ Last(c).frame = a[1] /\ Last(c).role = a[2] /\ Len(c) = Len(L) + 1
      /\ Front(c) \in Seq(HandlerType) /\ Origin(Front(c)) = L
  BY Pop
<1> QED  BY <1>1 DEF Front, Last, IsCallback

LEMMA CutoffIs ==
  ASSUME NEW d \in Seq(HandlerType), NEW L \in Seq(Entry), NEW k \in Nat,
         NEW a \in Entry, a[1] = k, a[2] = "callback", NEW b \in Entry, b[2] = "catcher",
         Origin(d) = Append(L, a) \/ Origin(d) = Append(Append(L, a), b)
  PROVE  /\ Cutoff(d, k) \in Seq(HandlerType) /\ Origin(Cutoff(d, k)) = L
         /\ Range(Cutoff(d, k)) \subseteq Range(d)
<1>1. ASSUME NEW c \in Seq(HandlerType), Origin(c) = Append(L, a)
      PROVE  /\ Len(c) = Len(L) + 1 /\ IsCallback(c[Len(c)], k)
             /\ SubSeq(c, 1, Len(c) - 1) \in Seq(HandlerType)
             /\ Origin(SubSeq(c, 1, Len(c) - 1)) = L
  BY <1>1, CallbackPopped
<1>2. Len(L) \in Nat /\ Len(d) \in Nat
  OBVIOUS
<1>3. CASE Origin(d) = Append(L, a)
  <2>1. Len(d) \in 1 .. Len(d) /\ \A j \in Len(d) + 1 .. Len(d) : ~IsCallback(d[j], k)
    BY <1>1, <1>2, <1>3
  <2>2. Cutoff(d, k) = SubSeq(d, 1, Len(d) - 1)
    BY <1>1, <1>3, <2>1, LastPlace
  <2>3. Len(d) - 1 \in 0 .. Len(d)
    BY <1>1, <1>2, <1>3
  <2> QED  BY <1>1, <1>3, <2>2, <2>3, RangeCut
<1>4. CASE Origin(d) = Append(Append(L, a), b)
  <2> DEFINE c == Front(d)
             M == Append(L, a)
  <2>1. M \in Seq(Entry) /\ Len(M) = Len(L) + 1
    BY Appended
  <2>2. /\ d # <<>> /\ Last(d).frame = b[1] /\ Last(d).role = b[2] /\ Len(d) = Len(L) + 2
        /\ c \in Seq(HandlerType) /\ Origin(c) = Append(L, a)
    <3>1. Origin(d) = Append(M, b)
      BY <1>4
    <3>2. /\ d # <<>> /\ Last(d).frame = b[1] /\ Last(d).role = b[2] /\ Len(d) = Len(M) + 1
          /\ c \in Seq(HandlerType) /\ Origin(c) = M
      <4> HIDE DEF M
      <4> QED  BY <2>1, <3>1, Pop
    <3> QED  BY <3>2, <2>1, <1>2
  <2>3. Len(d) \in Nat /\ Len(c) = Len(d) - 1 /\ \A i \in 1 .. Len(d) - 1 : c[i] = d[i]
    BY <2>2, FrontLast
  <2>4. /\ Len(c) = Len(L) + 1 /\ IsCallback(c[Len(c)], k)
        /\ SubSeq(c, 1, Len(c) - 1) \in Seq(HandlerType) /\ Origin(SubSeq(c, 1, Len(c) - 1)) = L
    <3> HIDE DEF c
    <3> QED  BY <1>1, <2>2
  <2>5. ~IsCallback(d[Len(d)], k)
    BY <2>2 DEF Last, IsCallback
  <2> HIDE DEF c, M
  <2>6. Cutoff(d, k) = SubSeq(d, 1, Len(c) - 1)
    <3>1. Len(c) \in 1 .. Len(d) /\ IsCallback(d[Len(c)], k)
      BY <2>3, <2>4, <2>2, <1>2
    <3>2. \A j \in Len(c) + 1 .. Len(d) : ~IsCallback(d[j], k)
      BY <2>3, <2>5, <2>2, <1>2
    <3> QED  BY <3>1, <3>2, LastPlace
  <2>7. SubSeq(d, 1, Len(c) - 1) = SubSeq(c, 1, Len(c) - 1)
    BY <1>2, <2>3, <2>4, <2>2
  <2>8. Len(c) - 1 \in 0 .. Len(d)
    BY <1>2, <2>3, <2>4, <2>2
  <2> QED  BY <2>4, <2>6, <2>7, <2>8, RangeCut
<1> QED  BY <1>3, <1>4

(***************************************************************************)
(* The inductive invariant                                                 *)
(***************************************************************************)
\* No function returns from a try or a catch block.
NoReturns == \A p \in TryPrograms : "return" \notin p

\* The phases that each kind of frame goes through.
Fits(f) ==
  /\ f.kind = "loop" <=> f.phase \in {"between", "task"}
  /\ f.kind \in {"resume", "callback"} => f.phase \in {"try", "catch", "ensure"} /\ f.catch = "always"
  /\ f.phase = "condition" => f.catch = "condition"
  /\ f.phase = "ensure" => Len(f.held) <= 1

FramesInv ==
  \A k \in 1 .. Len(frames) :
    /\ Fits(frames[k])
    /\ frames[k].phase = "between" => k = Len(frames) /\ inflight = NoException

TryInv ==
  /\ ExceptionsTypeOK
  /\ outcome = "running" => FramesInv /\ \E g : Tale(g, frames, chains)

(***************************************************************************)
(* What a step does: the stack is cut back to frame k - 1, or k, and there *)
(* may be a frame f in its place; the chains are what these frames ask for.*)
(***************************************************************************)
Types == frames \in Seq(FrameType) /\ chains \in Seq(Seq(HandlerType))
         /\ try_program \in TryPrograms /\ inflight \in Value \cup {NoException}

\* A frame is opened as the features of the program allow.
Opened(f) ==
  /\ f.catch = "condition" => In("condition")
  /\ f.kind = "compiled" =>
       /\ In("task") \/ Chain # <<>>
       /\ In("nested") \/ Chain = <<>> \/ Last(Chain).exception = NoException

Grown(g, k, f) ==
  /\ k \in 1 .. Len(frames) + 1 /\ f \in FrameType /\ Fits(f)
  /\ k <= Len(frames) => f.kind = frames[k].kind /\ f.catch = frames[k].catch
  /\ k = Len(frames) + 1 => ~Between /\ Opened(f)
  /\ f.phase = "between" => inflight' = NoException
  /\ frames' = Append(SubSeq(frames, 1, k - 1), f)
  /\ Origins(chains') = Told(f, k, g[k - 1])

Shrunk(g, k) ==
  /\ k \in 0 .. Len(frames) - 1
  /\ frames' = SubSeq(frames, 1, k)
  /\ Origins(chains') = g[k]

Stays == UNCHANGED <<frames, chains>> /\ ~Between

ChainsOK == chains' \in Seq(Seq(HandlerType)) /\ inflight' \in Value \cup {NoException}
            /\ try_program' = try_program /\ outcome' \in {"running", "unhandled", "crashed"}

LEMMA TypesAre == ExceptionsTypeOK <=> Types /\ outcome \in {"running", "unhandled", "crashed"}
BY DEF ExceptionsTypeOK, Types, FrameType, HandlerType, Role

LEMMA GrownKeeps ==
  ASSUME Types, FramesInv, NEW g, Tale(g, frames, chains), NEW k, NEW f, Grown(g, k, f)
  PROVE  /\ frames' \in Seq(FrameType) /\ FramesInv'
         /\ Len(frames') = k /\ frames'[k] = f /\ \A j \in 1 .. k - 1 : frames'[j] = frames[j]
         /\ \E h : Tale(h, frames', chains') /\ \A j \in 0 .. k - 1 : h[j] = g[j]
<1>1. /\ k \in 1 .. Len(frames) + 1 /\ f \in FrameType /\ Origins(chains') = Told(f, k, g[k - 1])
      /\ frames' = Append(SubSeq(frames, 1, k - 1), f) /\ Fits(f)
      /\ k = Len(frames) + 1 => ~Between
      /\ f.phase = "between" => inflight' = NoException
  BY DEF Grown
<1>2. frames \in Seq(FrameType) /\ Len(frames) \in Nat
  BY DEF Types
<1>3. /\ frames' \in Seq(FrameType) /\ Len(frames') = k /\ frames'[k] = f
      /\ \A j \in 1 .. k - 1 : frames'[j] = frames[j]
      /\ \E h : Tale(h, frames', chains') /\ \A j \in 0 .. k - 1 : h[j] = g[j]
  <2> DEFINE gs == Append(SubSeq(frames, 1, k - 1), f)
             ds == chains'
  <2>1. Origins(ds) = Told(f, k, g[k - 1])
    BY <1>1
  <2>2. /\ gs \in Seq(FrameType) /\ Len(gs) = k /\ gs[k] = f
        /\ \A j \in 1 .. k - 1 : gs[j] = frames[j]
        /\ \E h : Tale(h, gs, ds) /\ \A j \in 0 .. k - 1 : h[j] = g[j]
    <3> HIDE DEF ds
    <3> QED  BY <2>1, <1>1, <1>2, Stacked
  <2>3. frames' = gs
    BY <1>1
  <2> HIDE DEF gs
  <2> QED  BY <2>2, <2>3
<1>4. ASSUME NEW j \in 1 .. Len(frames')
      PROVE  /\ Fits(frames'[j])
             /\ frames'[j].phase = "between" => j = Len(frames') /\ inflight' = NoException
  <2>1. CASE j = k
    BY <2>1, <1>1, <1>3
  <2>2. CASE j # k
    <3>1. j \in 1 .. k - 1 /\ j \in 1 .. Len(frames) /\ frames'[j] = frames[j]
      BY <2>2, <1>1, <1>2, <1>3
    <3>2. frames[j].phase # "between"
      <4> SUFFICES ASSUME frames[j].phase = "between" PROVE FALSE
        OBVIOUS
      <4>1. j = Len(frames)
        BY <3>1 DEF FramesInv
      <4>2. k = Len(frames) + 1
        BY <4>1, <3>1, <1>1, <1>2
      <4>3. Between
        BY <4>1, <3>1, <1>2 DEF Between, Last
      <4> QED  BY <4>2, <4>3, <1>1
    <3> QED  BY <3>1, <3>2 DEF FramesInv
  <2> QED  BY <2>1, <2>2
<1>5. FramesInv'
  BY <1>4 DEF FramesInv, Fits
<1> QED  BY <1>3, <1>5

LEMMA ShrunkKeeps ==
  ASSUME Types, FramesInv, NEW g, Tale(g, frames, chains), NEW k, Shrunk(g, k)
  PROVE  /\ frames' \in Seq(FrameType) /\ FramesInv'
         /\ Len(frames') = k /\ \A j \in 1 .. k : frames'[j] = frames[j]
         /\ \E h : Tale(h, frames', chains') /\ \A j \in 0 .. k : h[j] = g[j]
<1>1. k \in 0 .. Len(frames) /\ k < Len(frames) /\ frames' = SubSeq(frames, 1, k) /\ Origins(chains') = g[k]
  BY DEF Shrunk, Types
<1>2. frames \in Seq(FrameType) /\ Len(frames) \in Nat
  BY DEF Types
<1>3. /\ frames' \in Seq(FrameType) /\ Len(frames') = k
      /\ \A j \in 1 .. k : frames'[j] = frames[j]
      /\ \E h : Tale(h, frames', chains') /\ \A j \in 0 .. k : h[j] = g[j]
  BY <1>1, <1>2, Unstacked
<1>4. ASSUME NEW j \in 1 .. Len(frames')
      PROVE  Fits(frames'[j]) /\ frames'[j].phase # "between"
  <2>1. j \in 1 .. k /\ j \in 1 .. Len(frames) /\ j # Len(frames) /\ frames'[j] = frames[j]
    BY <1>1, <1>2, <1>3
  <2> QED  BY <2>1 DEF FramesInv
<1>5. FramesInv'
  BY <1>4 DEF FramesInv, Fits
<1> QED  BY <1>3, <1>5

\* The frame at the top and the chain it finds.
LEMMA TopFrame ==
  ASSUME Types, NEW g, Tale(g, frames, chains), frames # <<>>
  PROVE  LET n == Len(frames)
             own == Owned(frames[n], n)
         IN /\ n \in Nat \ {0} /\ Last(frames) = frames[n] /\ frames[n] \in FrameType
            /\ Front(frames) = SubSeq(frames, 1, n - 1)
            /\ g[n - 1] \in Stacks /\ Last(g[n - 1]) \in Seq(Entry) /\ g[n] = Origins(chains)
            /\ own \in Seq(Entry) /\ chains # <<>> /\ Chain \in Seq(HandlerType)
            /\ frames[n].phase # "task" =>
                 Origins(chains) = Push(g[n - 1], own) /\ Origin(Chain) = Last(g[n - 1]) \o own
            /\ frames[n].phase = "task" => Front(Origins(chains)) = g[n - 1]
<1> DEFINE n == Len(frames)
           own == Owned(frames[n], n)
           G == g[n - 1]
<1>1. n \in Nat \ {0} /\ frames[n] \in FrameType /\ frames \in Seq(FrameType)
  BY DEF Types
<1>2. G \in Stacks /\ g[n] = Told(frames[n], n, G) /\ g[n] = Origins(chains) /\ g[n] \in Stacks
  <2>1. n \in 1 .. n /\ n - 1 \in 0 .. n /\ n \in 0 .. n
    BY <1>1
  <2> QED  BY <2>1 DEF Tale
<1>3. own \in Seq(Entry)
  BY <1>1, OwnedIs
<1>4. Last(G) \in Seq(Entry)
  BY <1>2, <1>3, PushIs
<1>5. chains # <<>> /\ Chain \in Seq(HandlerType) /\ Last(Origins(chains)) = Origin(Chain)
  <2>1. chains \in Seq(Seq(HandlerType)) /\ chains # <<>>
    BY <1>2, OriginsAre DEF Types, Stacks
  <2> QED  BY <2>1, FrontLast, OriginsFront DEF Chain
<1>6. ASSUME frames[n].phase # "task"
      PROVE  Origins(chains) = Push(G, own) /\ Origin(Chain) = Last(G) \o own
  <2>1. Origins(chains) = Push(G, own)
    BY <1>2, <1>6 DEF Told
  <2> HIDE DEF G, own
  <2> QED  BY <2>1, <1>2, <1>3, <1>5, PushIs
<1>7. ASSUME frames[n].phase = "task" PROVE Front(Origins(chains)) = G
  <2> DEFINE E == Seq(Entry)
             none == <<>>
  <2>1. Origins(chains) = Append(G, none) /\ G \in Seq(E) /\ none \in E
    BY <1>2, <1>7 DEF Told, Stacks
  <2> HIDE DEF G, E, none
  <2> QED  BY <2>1, Appended
<1>8. Last(frames) = frames[n] /\ Front(frames) = SubSeq(frames, 1, n - 1)
  BY DEF Last, Front
<1> QED  BY <1>1, <1>2, <1>3, <1>4, <1>5, <1>6, <1>7, <1>8

(***************************************************************************)
(* Steps of the program                                                    *)
(***************************************************************************)
Effect(g) == (\E k, f : Grown(g, k, f)) \/ (\E k : Shrunk(g, k)) \/ Stays

LEMMA ChainIs ==
  ASSUME Types, NEW g, Tale(g, frames, chains)
  PROVE  /\ chains # <<>> /\ Chain \in Seq(HandlerType) /\ Len(frames) \in Nat
         /\ Front(chains) \in Seq(Seq(HandlerType))
         /\ g[Len(frames)] \in Stacks /\ Origins(chains) = g[Len(frames)]
         /\ Last(g[Len(frames)]) = Origin(Chain)
<1>1. g[Len(frames)] \in Stacks /\ Origins(chains) = g[Len(frames)] /\ Len(frames) \in Nat
  <2>1. Len(frames) \in 0 .. Len(frames) /\ Len(frames) \in Nat
    BY DEF Types
  <2> QED  BY <2>1 DEF Tale
<1>2. chains \in Seq(Seq(HandlerType)) /\ chains # <<>>
  BY <1>1, OriginsAre DEF Types, Stacks
<1> QED  BY <1>1, <1>2, FrontLast, OriginsFront DEF Chain

LEMMA Entered ==
  ASSUME Types, NEW k \in 1 .. Len(frames), NEW phase \in Phases, NEW held \in Seq(Value)
  PROVE  LET f == [frames[k] EXCEPT !.phase = phase, !.held = held] IN
         /\ f \in FrameType /\ f.kind = frames[k].kind /\ f.catch = frames[k].catch
         /\ f.phase = phase /\ f.held = held /\ f.left = frames[k].left
<1>1. frames[k] \in FrameType
  BY DEF Types
<1> QED  BY <1>1 DEF FrameType

LEMMA WithChainIs ==
  ASSUME Types, chains # <<>>, NEW d \in Seq(HandlerType)
  PROVE  WithChain(d) \in Seq(Seq(HandlerType))
<1>1. chains \in Seq(Seq(HandlerType))
  BY DEF Types
<1>2. Front(chains) \in Seq(Seq(HandlerType))
  BY <1>1, FrontLast
<1> QED  BY <1>2, Appended DEF WithChain

LEMMA TryGrows ==
  ASSUME Types, FramesInv, NEW g, Tale(g, frames, chains), NEW kind \in Kinds, NEW catch \in Catches,
         Try(kind, catch), outcome = "running"
  PROVE  ChainsOK /\ \E k, f : Grown(g, k, f)
<1> DEFINE n == Len(frames)
           f == Frame(kind, "try", catch, <<>>, 0)
           h == Handler(n + 1, kind, NoException)
           d == Append(Chain, h)
           e == <<n + 1, kind>>
           O == g[n]
<1>1. /\ ~Between /\ UNCHANGED <<try_program, inflight, outcome>>
      /\ frames' = Append(frames, f) /\ chains' = WithChain(d)
      /\ kind # "compiled" => catch = "always"
  BY DEF Try, UserCode, Innermost
<1>2. chains # <<>> /\ Chain \in Seq(HandlerType) /\ n \in Nat /\ O \in Stacks
      /\ Origins(chains) = O /\ Last(O) = Origin(Chain)
  BY ChainIs
<1>3. h \in HandlerType /\ h.frame = n + 1 /\ h.role = kind /\ e \in Entry
  BY <1>2 DEF HandlerType, Handler, Role, Entry
<1>4. d \in Seq(HandlerType) /\ Origin(d) = Last(O) \o <<e>> /\ Last(O) \in Seq(Entry)
  <2>1. Origin(d) = Append(Origin(Chain), e) /\ d \in Seq(HandlerType)
    <3> HIDE DEF h
    <3> QED  BY <1>2, <1>3, OriginAppend, Appended
  <2>2. Origin(Chain) \in Seq(Entry)
    BY <1>2, OriginIs
  <2> HIDE DEF e, d, O
  <2> QED  BY <2>1, <2>2, <1>2, <1>3, JoinedOne
<1>5. Origins(chains') = Push(O, <<e>>)
  <2>0. <<>> \in Seq(Entry) /\ <<e>> \in Seq(Entry)
    BY <1>3
  <2>1. Origins(chains) = Push(O, <<>>)
    <3> HIDE DEF O
    <3> QED  BY <1>2, <2>0, PushIs
  <2>2. chains \in Seq(Seq(HandlerType))
    BY DEF Types
  <2> HIDE DEF e, d, O
  <2>3. Origins(Append(Front(chains), d)) = Push(O, <<e>>)
    BY <2>0, <2>1, <2>2, <1>2, <1>4, CutBack, ZenonT(60)
  <2> QED  BY <2>3, <1>1 DEF WithChain
<1>6. f \in FrameType /\ Fits(f) /\ f.phase = "try" /\ Owned(f, n + 1) = <<e>>
  BY <1>1, <1>2 DEF FrameType, Frame, Fits, Owned, Kinds, Phases
<1>7. SubSeq(frames, 1, n + 1 - 1) = frames /\ Opened(f)
  <2>1. f.kind = kind /\ f.catch = catch
    BY DEF Frame
  <2>2. Opened(f)
    BY <2>1, <1>1 DEF Opened, Try
  <2> QED  BY <2>2 DEF Types
<1>8. Grown(g, n + 1, f)
  <2>1. Origins(chains') = Told(f, n + 1, g[n + 1 - 1])
    BY <1>2, <1>5, <1>6, SMTT(60) DEF Told
  <2> QED  BY <1>1, <1>2, <1>6, <1>7, <2>1 DEF Grown
<1>9. ChainsOK
  BY <1>1, <1>2, <1>4, WithChainIs DEF ChainsOK, Types
<1> QED  BY <1>8, <1>9

LEMMA LoopGrows ==
  ASSUME Types, FramesInv, NEW g, Tale(g, frames, chains), NEW m \in Nat,
         ParallelForEach(m), outcome = "running"
  PROVE  ChainsOK /\ \E k, f : Grown(g, k, f)
<1> DEFINE n == Len(frames)
           f == Frame("loop", "between", "never", <<>>, m)
           O == g[n]
<1>1. /\ ~Between /\ UNCHANGED <<try_program, chains, inflight, outcome>>
      /\ frames' = Append(frames, f) /\ inflight = NoException
  BY DEF ParallelForEach, UserCode
<1>2. n \in Nat /\ O \in Stacks /\ Origins(chains) = O
  BY ChainIs
<1>3. f \in FrameType /\ Fits(f) /\ f.phase = "between" /\ Owned(f, n + 1) = <<>>
  BY <1>1, <1>2 DEF FrameType, Frame, Fits, Owned, Kinds, Phases, Catches
<1>4. Origins(chains') = Push(O, <<>>)
  <2>1. <<>> \in Seq(Entry) /\ chains' = chains
    BY <1>1
  <2>2. Origins(chains') = O
    BY <2>1, <1>2
  <2> HIDE DEF O
  <2> QED  BY <2>1, <2>2, <1>2, PushIs
<1>5. SubSeq(frames, 1, n + 1 - 1) = frames /\ Opened(f)
  BY DEF Types, Opened, Frame
<1>6. Grown(g, n + 1, f)
  <2>1. Origins(chains') = Told(f, n + 1, g[n + 1 - 1])
    BY <1>2, <1>4, <1>3 DEF Told
  <2> QED  BY <1>1, <1>2, <1>3, <1>5, <2>1 DEF Grown
<1>7. ChainsOK
  BY <1>1 DEF ChainsOK, Types
<1> QED  BY <1>6, <1>7

(***************************************************************************)
(* Frame k is where the chain ends: the frames above ask for nothing.      *)
(***************************************************************************)
At(g, k) ==
  /\ k \in 1 .. Len(frames) /\ frames[k].phase # "task"
  /\ Origins(chains) = Push(g[k - 1], Owned(frames[k], k))

LEMMA AtIs ==
  ASSUME Types, NEW g, Tale(g, frames, chains), NEW k, At(g, k)
  PROVE  /\ k \in Nat \ {0} /\ k - 1 \in 0 .. Len(frames) /\ Len(frames) \in Nat
         /\ frames[k] \in FrameType
         /\ g[k - 1] \in Stacks /\ Last(g[k - 1]) \in Seq(Entry)
         /\ Owned(frames[k], k) \in Seq(Entry)
         /\ chains # <<>> /\ Chain \in Seq(HandlerType)
         /\ Origin(Chain) = Last(g[k - 1]) \o Owned(frames[k], k)
<1> DEFINE own == Owned(frames[k], k)
           G == g[k - 1]
<1>1. /\ k \in Nat \ {0} /\ k - 1 \in 0 .. Len(frames) /\ Len(frames) \in Nat
      /\ frames[k] \in FrameType
  BY DEF At, Types
<1>2. G \in Stacks
  BY <1>1 DEF Tale
<1>3. own \in Seq(Entry)
  BY <1>1, OwnedIs
<1>4. chains # <<>> /\ Chain \in Seq(HandlerType) /\ Last(Origins(chains)) = Origin(Chain)
  BY ChainIs
<1>5. Last(Origins(chains)) = Last(G) \o own /\ Last(G) \in Seq(Entry)
  <2>1. Origins(chains) = Push(G, own)
    BY DEF At
  <2> HIDE DEF G, own
  <2> QED  BY <2>1, <1>2, <1>3, PushIs
<1> QED  BY <1>1, <1>2, <1>3, <1>4, <1>5

LEMMA TopIsAt ==
  ASSUME Types, NEW g, Tale(g, frames, chains), frames # <<>>, Last(frames).phase # "task"
  PROVE  At(g, Len(frames))
<1>1. Len(frames) \in 1 .. Len(frames)
  BY DEF Types
<1> QED  BY <1>1, TopFrame DEF At

\* The handlers that a frame has at the end of the chain.
LEMMA OneHandler ==
  ASSUME Types, NEW g, Tale(g, frames, chains), NEW k, At(g, k),
         NEW r, Owned(frames[k], k) = <<<<k, r>>>>
  PROVE  /\ Chain # <<>> /\ Last(Chain) \in HandlerType
         /\ Last(Chain).frame = k /\ Last(Chain).role = r
         /\ Front(Chain) \in Seq(HandlerType) /\ Origin(Front(Chain)) = Last(g[k - 1])
         /\ Origin(Chain) = Append(Last(g[k - 1]), <<k, r>>) /\ <<k, r>> \in Entry
<1> DEFINE L == Last(g[k - 1])
           e == <<k, r>>
           d == Chain
<1>1. L \in Seq(Entry) /\ d \in Seq(HandlerType) /\ Origin(d) = L \o <<e>> /\ <<e>> \in Seq(Entry)
  BY AtIs
<1>2. e \in Entry
  <2>1. <<e>>[1] \in Entry
    <3> HIDE DEF e
    <3> QED  BY <1>1
  <2> QED  BY <2>1
<1>3. Origin(d) = Append(L, e)
  <2> HIDE DEF L, e, d
  <2> QED  BY <1>1, <1>2, JoinedOne
<1>4. /\ d # <<>> /\ Last(d) \in HandlerType /\ Last(d).frame = e[1] /\ Last(d).role = e[2]
      /\ Front(d) \in Seq(HandlerType) /\ Origin(Front(d)) = L
  <2> HIDE DEF L, e, d
  <2> QED  BY <1>1, <1>2, <1>3, Pop
<1> QED  BY <1>2, <1>3, <1>4

\* Two entries.
Two(a, b) == <<a, b>>

LEMMA TwoHandlers ==
  ASSUME Types, NEW g, Tale(g, frames, chains), NEW k, At(g, k),
         NEW q, NEW r, Owned(frames[k], k) = Two(<<k, q>>, <<k, r>>)
  PROVE  /\ Chain # <<>> /\ Last(Chain) \in HandlerType
         /\ Last(Chain).frame = k /\ Last(Chain).role = r
         /\ Front(Chain) \in Seq(HandlerType)
         /\ Origin(Front(Chain)) = Append(Last(g[k - 1]), <<k, q>>)
         /\ Origin(Chain) = Append(Origin(Front(Chain)), <<k, r>>)
         /\ <<k, q>> \in Entry /\ <<k, r>> \in Entry
<1> DEFINE L == Last(g[k - 1])
           a == <<k, q>>
           b == <<k, r>>
           M == Append(L, a)
           d == Chain
<1>1. L \in Seq(Entry) /\ d \in Seq(HandlerType) /\ Origin(d) = L \o <<a, b>> /\ <<a, b>> \in Seq(Entry)
  BY AtIs DEF Two
<1>2. a \in Entry /\ b \in Entry
  <2>1. <<a, b>>[1] \in Entry /\ <<a, b>>[2] \in Entry
    <3> HIDE DEF a, b
    <3> QED  BY <1>1
  <2> QED  BY <2>1
<1>3. Origin(d) = Append(M, b) /\ M \in Seq(Entry)
  <2> HIDE DEF L, a, b, d
  <2> QED  BY <1>1, <1>2, JoinedTwo, Appended
<1>4. /\ d # <<>> /\ Last(d) \in HandlerType /\ Last(d).frame = b[1] /\ Last(d).role = b[2]
      /\ Front(d) \in Seq(HandlerType) /\ Origin(Front(d)) = M
  <2> HIDE DEF M, a, b, d
  <2> QED  BY <1>1, <1>2, <1>3, Pop
<1> QED  BY <1>2, <1>3, <1>4

\* Frame k enters another phase, and the chain of the task is d from now on.
LEMMA TopEnters ==
  ASSUME Types, FramesInv, NEW g, Tale(g, frames, chains), NEW k, At(g, k),
         NEW phase \in Phases, NEW held \in Seq(Value), NEW d \in Seq(HandlerType), phase # "task",
         LET f == [frames[k] EXCEPT !.phase = phase, !.held = held]
         IN Fits(f) /\ Origin(d) = Last(g[k - 1]) \o Owned(f, k),
         EnterPhase(k, phase, held), chains' = WithChain(d),
         phase = "between" => inflight' = NoException
  PROVE  chains' \in Seq(Seq(HandlerType)) /\ \E j, f : Grown(g, j, f)
<1> DEFINE f == [frames[k] EXCEPT !.phase = phase, !.held = held]
           G == g[k - 1]
           own == Owned(frames[k], k)
           x == Owned(f, k)
<1>1. /\ k \in Nat \ {0} /\ frames[k] \in FrameType /\ G \in Stacks /\ Last(G) \in Seq(Entry)
      /\ own \in Seq(Entry) /\ chains # <<>> /\ k \in 1 .. Len(frames) /\ Len(frames) \in Nat
      /\ Origins(chains) = Push(G, own)
  BY AtIs DEF At
<1>2. f \in FrameType /\ f.kind = frames[k].kind /\ f.catch = frames[k].catch /\ f.phase = phase
  BY <1>1 DEF FrameType
<1>3. x \in Seq(Entry) /\ Origin(d) = Last(G) \o x
  BY <1>1, <1>2, OwnedIs
<1>4. chains \in Seq(Seq(HandlerType))
  BY DEF Types
<1> HIDE DEF G, own, x, f
<1>5. Origins(Append(Front(chains), d)) = Push(G, x)
  BY <1>1, <1>3, <1>4, CutBack
<1>6. Origins(chains') = Told(f, k, g[k - 1])
  BY <1>5, <1>2 DEF Told, WithChain, G, x
<1>7. frames' = Append(SubSeq(frames, 1, k - 1), f)
  BY DEF EnterPhase, f
<1>8. Grown(g, k, f)
  <2>1. Fits(f)
    BY DEF f
  <2> QED  BY <2>1, <1>1, <1>2, <1>6, <1>7 DEF Grown
<1>9. chains' \in Seq(Seq(HandlerType))
  BY <1>1, WithChainIs
<1> QED  BY <1>8, <1>9

\* Frame k is left, with the chain that was there when it was entered.
LEMMA TopLeaves ==
  ASSUME Types, FramesInv, NEW g, Tale(g, frames, chains), NEW k, At(g, k),
         NEW d \in Seq(HandlerType), Origin(d) = Last(g[k - 1]),
         frames' = SubSeq(frames, 1, k - 1), chains' = WithChain(d)
  PROVE  chains' \in Seq(Seq(HandlerType)) /\ \E j : Shrunk(g, j)
<1> DEFINE G == g[k - 1]
           own == Owned(frames[k], k)
<1>1. /\ k \in 1 .. Len(frames) /\ Len(frames) \in Nat /\ G \in Stacks /\ Last(G) \in Seq(Entry)
      /\ own \in Seq(Entry) /\ chains # <<>> /\ Origins(chains) = Push(G, own)
  BY AtIs DEF At
<1>2. Origin(d) = Last(G) \o <<>> /\ <<>> \in Seq(Entry)
  BY <1>1, Joined
<1>3. chains \in Seq(Seq(HandlerType))
  BY DEF Types
<1>4. Push(G, <<>>) = G
  <2> HIDE DEF G
  <2> QED  BY <1>1, <1>2, PushIs
<1>5. Origins(chains') = G
  <2> HIDE DEF G, own
  <2>1. Origins(Append(Front(chains), d)) = Push(G, <<>>)
    BY <1>1, <1>2, <1>3, CutBack
  <2> QED  BY <2>1, <1>4 DEF WithChain
<1>6. Shrunk(g, k - 1)
  BY <1>1, <1>5 DEF Shrunk
<1>7. chains' \in Seq(Seq(HandlerType))
  BY <1>1, WithChainIs
<1> QED  BY <1>6, <1>7

\* The label "ensure".
LEMMA EnsureEnters ==
  ASSUME Types, FramesInv, NEW g, Tale(g, frames, chains), NEW k, At(g, k),
         frames[k].kind = "compiled", NEW held \in Seq(Value), Len(held) <= 1,
         NEW d \in Seq(HandlerType), NEW e \in Entry, Origin(d) = Append(Last(g[k - 1]), e),
         outcome = "running", EnterEnsure(d, k, held)
  PROVE  /\ ChainsOK
         /\ (outcome' = "crashed" /\ frames' = frames) \/ \E j, f : Grown(g, j, f)
<1>1. /\ g[k - 1] \in Stacks /\ Last(g[k - 1]) \in Seq(Entry) /\ chains # <<>>
      /\ frames[k] \in FrameType /\ k \in Nat \ {0} /\ k \in 1 .. Len(frames)
  BY AtIs DEF At
<1>2. /\ d # <<>> /\ Front(d) \in Seq(HandlerType) /\ Origin(Front(d)) = Last(g[k - 1])
      /\ Last(d) \in HandlerType /\ Len(d) \in Nat /\ Len(Front(d)) = Len(d) - 1
  <2>1. d # <<>> /\ Front(d) \in Seq(HandlerType) /\ Origin(Front(d)) = Last(g[k - 1])
    BY <1>1, Pop
  <2> QED  BY <2>1, FrontLast
<1>3. CASE Len(d) = 1
  BY <1>3 DEF EnterEnsure, Crash, ChainsOK, Types
<1>4. CASE Len(d) # 1
  <2> DEFINE below == Front(d)
             c == Append(Front(below), [Last(below) EXCEPT !.exception = Last(d).exception])
             f == [frames[k] EXCEPT !.phase = "ensure", !.held = held]
  <2>1. /\ chains' = WithChain(c) /\ EnterPhase(k, "ensure", held) /\ inflight' = NoException
        /\ UNCHANGED <<try_program, outcome>>
    BY <1>4 DEF EnterEnsure
  <2>2. below # <<>> /\ Last(d).exception \in Value \cup {NoException}
    BY <1>2, <1>4 DEF HandlerType
  <2>3. c \in Seq(HandlerType) /\ Origin(c) = Last(g[k - 1])
    <3> DEFINE v == Last(d).exception
    <3> HIDE DEF below, v
    <3>1. /\ Append(Front(below), [Last(below) EXCEPT !.exception = v]) \in Seq(HandlerType)
          /\ Origin(Append(Front(below), [Last(below) EXCEPT !.exception = v])) = Origin(below)
      BY <1>2, <2>2, OriginGiven DEF below, v
    <3> QED  BY <3>1, <1>2 DEF below, v
  <2> HIDE DEF c
  <2>4. f \in FrameType /\ f.kind = "compiled" /\ f.phase = "ensure" /\ f.held = held
    BY <1>1 DEF FrameType, Phases
  <2>5. Owned(f, k) = <<>> /\ Fits(f)
    BY <2>4 DEF Owned, Fits
  <2>6. Origin(c) = Last(g[k - 1]) \o Owned(f, k)
    BY <2>3, <2>5, <1>1, Joined
  <2>7. "ensure" \in Phases
    BY DEF Phases
  <2>8. chains' \in Seq(Seq(HandlerType)) /\ \E j, h : Grown(g, j, h)
    BY <2>1, <2>3, <2>5, <2>6, <2>7, TopEnters
  <2> QED  BY <2>1, <2>8 DEF ChainsOK, Types
<1> QED  BY <1>3, <1>4

(***************************************************************************)
(* Each action                                                             *)
(***************************************************************************)
Result(g) ==
  /\ ChainsOK
  /\ outcome' = "running" => Effect(g)
  /\ outcome' # "running" => frames' \in Seq(FrameType)

\* The top frame, in user code.
LEMMA InUserCode ==
  ASSUME Types, FramesInv, NEW g, Tale(g, frames, chains), NEW kind, NEW phases,
         InBlock(kind, phases), "task" \notin phases
  PROVE  LET n == Len(frames) IN
         /\ At(g, n) /\ n \in 1 .. Len(frames) /\ frames # <<>> /\ Last(frames) = frames[n]
         /\ frames[n] \in FrameType /\ Fits(frames[n])
         /\ frames[n].kind = kind /\ frames[n].phase \in phases
         /\ outcome = "running" /\ inflight = NoException /\ ~Between
         /\ Front(frames) = SubSeq(frames, 1, n - 1)
<1>1. /\ frames # <<>> /\ Last(frames).kind = kind /\ Last(frames).phase \in phases
      /\ outcome = "running" /\ inflight = NoException /\ ~Between
  BY DEF InBlock, UserCode
<1>2. /\ Len(frames) \in 1 .. Len(frames) /\ Last(frames) = frames[Len(frames)]
      /\ frames[Len(frames)] \in FrameType /\ Front(frames) = SubSeq(frames, 1, Len(frames) - 1)
  BY <1>1, TopFrame
<1>3. At(g, Len(frames))
  BY <1>1, TopIsAt
<1> QED  BY <1>1, <1>2, <1>3 DEF FramesInv

LEMMA EndTryResult ==
  ASSUME Types, FramesInv, NEW g, Tale(g, frames, chains), EndTry
  PROVE  Result(g)
<1> DEFINE n == Len(frames)
           f == [frames[n] EXCEPT !.phase = "ensure", !.held = <<>>]
<1>1. InBlock("resume", {"try", "catch"})
  BY DEF EndTry
<1>2. /\ At(g, n) /\ frames[n] \in FrameType /\ frames[n].kind = "resume" /\ Fits(frames[n])
      /\ outcome = "running" /\ n \in 1 .. Len(frames)
  BY <1>1, InUserCode
<1>3. Owned(frames[n], n) = <<<<n, "resume">>>>
  BY <1>2 DEF Owned
<1>4. Last(Chain).frame = n
  BY <1>2, <1>3, OneHandler
<1>5. /\ EnterPhase(n, "ensure", <<>>) /\ chains' = WithChain(Chain) /\ inflight' = NoException
      /\ UNCHANGED <<try_program, outcome>>
  BY <1>4 DEF EndTry, PrepareIteration
<1>6. f \in FrameType /\ f.kind = "resume" /\ f.phase = "ensure" /\ f.held = <<>> /\ f.catch = frames[n].catch
  <2> DEFINE held == <<>>
  <2>1. held \in Seq(Value) /\ "ensure" \in Phases
    BY DEF Phases
  <2> HIDE DEF held
  <2>2. LET h == [frames[n] EXCEPT !.phase = "ensure", !.held = held] IN
        /\ h \in FrameType /\ h.kind = "resume" /\ h.phase = "ensure"
        /\ h.held = held /\ h.catch = frames[n].catch
    BY <1>2, <2>1 DEF FrameType
  <2> QED  BY <2>2 DEF held
<1>7. Owned(f, n) = Owned(frames[n], n) /\ Fits(f)
  BY <1>2, <1>3, <1>6 DEF Owned, Fits
<1>8. Chain \in Seq(HandlerType) /\ Origin(Chain) = Last(g[n - 1]) \o Owned(f, n)
  BY <1>2, <1>7, AtIs
<1>9. "ensure" \in Phases /\ <<>> \in Seq(Value)
  BY DEF Phases
<1>10. chains' \in Seq(Seq(HandlerType)) /\ \E j, h : Grown(g, j, h)
  BY <1>2, <1>5, <1>7, <1>8, <1>9, TopEnters
<1> QED  BY <1>2, <1>5, <1>10 DEF Result, ChainsOK, Types, Effect

LEMMA EndEnsureResult ==
  ASSUME Types, FramesInv, NEW g, Tale(g, frames, chains), EndEnsure
  PROVE  Result(g)
<1> DEFINE n == Len(frames)
<1>1. InBlock("resume", {"ensure"})
  BY DEF EndEnsure
<1>2. /\ At(g, n) /\ frames[n] \in FrameType /\ frames[n].kind = "resume"
      /\ outcome = "running" /\ Last(frames) = frames[n]
  BY <1>1, InUserCode
<1>3. Owned(frames[n], n) = <<<<n, "resume">>>>
  BY <1>2 DEF Owned
<1>4. Front(Chain) \in Seq(HandlerType) /\ Origin(Front(Chain)) = Last(g[n - 1])
  BY <1>2, <1>3, OneHandler
<1>5. /\ chains' = WithChain(Front(Chain)) /\ frames' = SubSeq(frames, 1, n - 1)
      /\ UNCHANGED <<try_program, outcome>>
      /\ inflight' = IF frames[n].held = <<>> THEN NoException ELSE frames[n].held[1]
  BY <1>2 DEF EndEnsure, FinishResumptions, Innermost
<1>6. inflight' \in Value \cup {NoException}
  <2>1. frames[n].held \in Seq(Value)
    BY <1>2 DEF FrameType
  <2> QED  BY <2>1, <1>5
<1>7. chains' \in Seq(Seq(HandlerType)) /\ \E j : Shrunk(g, j)
  BY <1>2, <1>4, <1>5, TopLeaves
<1> QED  BY <1>2, <1>5, <1>6, <1>7 DEF Result, ChainsOK, Effect

\* The handlers of a callback frame.
LEMMA CallbackChain ==
  ASSUME Types, FramesInv, NEW g, Tale(g, frames, chains), NEW k, At(g, k),
         frames[k].kind = "callback", frames[k].phase \in {"try", "catch"}
  PROVE  /\ Truncated(k) \in Seq(HandlerType) /\ Origin(Truncated(k)) = Last(g[k - 1])
         /\ Range(Truncated(k)) \subseteq Range(Chain)
<1> DEFINE a == <<k, "callback">>
           b == <<k, "catcher">>
           L == Last(g[k - 1])
<1>1. L \in Seq(Entry) /\ Chain \in Seq(HandlerType) /\ k \in Nat
  BY AtIs
<1>2. a \in Entry /\ b \in Entry /\ a[1] = k /\ a[2] = "callback" /\ b[2] = "catcher"
  BY <1>1 DEF Entry, Role, Kinds
<1>3. Origin(Chain) = Append(L, a) \/ Origin(Chain) = Append(Append(L, a), b)
  <2>1. CASE frames[k].phase = "try"
    <3>1. Owned(frames[k], k) = <<<<k, "callback">>>>
      BY <2>1 DEF Owned
    <3> QED  BY <3>1, OneHandler
  <2>2. CASE frames[k].phase = "catch"
    <3>1. Owned(frames[k], k) = <<<<k, "callback">>, <<k, "catcher">>>>
      BY <2>2 DEF Owned
    <3> DEFINE q == "callback"
               r == "catcher"
    <3>2. Owned(frames[k], k) = Two(<<k, q>>, <<k, r>>)
      BY <3>1 DEF Two
    <3> HIDE DEF q, r, L, a, b
    <3>3. Origin(Front(Chain)) = Append(Last(g[k - 1]), <<k, q>>)
      BY <3>2, TwoHandlers
    <3>4. Origin(Chain) = Append(Origin(Front(Chain)), <<k, r>>)
      BY <3>2, TwoHandlers
    <3> QED  BY <3>3, <3>4 DEF q, r, L, a, b
  <2> QED  BY <2>1, <2>2
<1>4. Truncated(k) = Cutoff(Chain, k)
  BY DEF Truncated, Cutoff
<1> HIDE DEF a, b, L
<1>5. /\ Cutoff(Chain, k) \in Seq(HandlerType) /\ Origin(Cutoff(Chain, k)) = L
      /\ Range(Cutoff(Chain, k)) \subseteq Range(Chain)
  BY <1>1, <1>2, <1>3, CutoffIs
<1> QED  BY <1>4, <1>5 DEF L

\* The ensure phase of a callback frame.
LEMMA CallbackEnters ==
  ASSUME Types, FramesInv, NEW g, Tale(g, frames, chains), NEW k, At(g, k),
         frames[k].kind = "callback", frames[k].phase \in {"try", "catch"}, frames[k].catch = "always",
         NEW held \in Seq(Value), Len(held) <= 1,
         chains' = WithChain(Truncated(k)), EnterPhase(k, "ensure", held)
  PROVE  chains' \in Seq(Seq(HandlerType)) /\ \E j, h : Grown(g, j, h)
<1> DEFINE f == [frames[k] EXCEPT !.phase = "ensure", !.held = held]
<1>1. frames[k] \in FrameType /\ Last(g[k - 1]) \in Seq(Entry)
  BY AtIs
<1>2. f \in FrameType /\ f.kind = "callback" /\ f.phase = "ensure" /\ f.held = held /\ f.catch = frames[k].catch
  BY <1>1 DEF FrameType, Phases
<1>3. Owned(f, k) = <<>> /\ Fits(f)
  BY <1>2 DEF Owned, Fits
<1>4. Truncated(k) \in Seq(HandlerType) /\ Origin(Truncated(k)) = Last(g[k - 1])
  BY CallbackChain
<1>5. Origin(Truncated(k)) = Last(g[k - 1]) \o Owned(f, k)
  BY <1>1, <1>3, <1>4, Joined
<1>6. "ensure" \in Phases
  BY DEF Phases
<1> QED  BY <1>3, <1>4, <1>5, <1>6, TopEnters

LEMMA EndCallbackResult ==
  ASSUME Types, FramesInv, NEW g, Tale(g, frames, chains), EndCallback
  PROVE  Result(g)
<1> DEFINE n == Len(frames)
<1>1. InBlock("callback", {"try", "catch"})
  BY DEF EndCallback
<1>2. /\ At(g, n) /\ frames[n].kind = "callback" /\ frames[n].phase \in {"try", "catch"}
      /\ outcome = "running" /\ frames[n].catch = "always"
  BY <1>1, InUserCode DEF Fits
<1>3. /\ chains' = WithChain(Truncated(n)) /\ EnterPhase(n, "ensure", <<>>)
      /\ UNCHANGED <<try_program, inflight, outcome>>
  BY DEF EndCallback, Innermost
<1>4. <<>> \in Seq(Value) /\ Len(<<>>) <= 1
  OBVIOUS
<1>5. chains' \in Seq(Seq(HandlerType)) /\ \E j, h : Grown(g, j, h)
  BY <1>2, <1>3, <1>4, CallbackEnters
<1> QED  BY <1>2, <1>3, <1>5 DEF Result, ChainsOK, Effect, Types

\* A frame in its last phase with no handler of its own.
LEMMA NoHandlerLeft ==
  ASSUME Types, FramesInv, NEW g, Tale(g, frames, chains), NEW k, At(g, k),
         Owned(frames[k], k) = <<>>
  PROVE  /\ Chain \in Seq(HandlerType) /\ Origin(Chain) = Last(g[k - 1])
         /\ Origins(chains) = g[k - 1] /\ chains # <<>>
<1>1. g[k - 1] \in Stacks /\ Last(g[k - 1]) \in Seq(Entry) /\ Chain \in Seq(HandlerType)
      /\ Origin(Chain) = Last(g[k - 1]) \o <<>> /\ chains # <<>>
  BY AtIs
<1>2. Origin(Chain) = Last(g[k - 1])
  BY <1>1, Joined
<1>3. <<>> \in Seq(Entry) /\ Origins(chains) = Push(g[k - 1], <<>>)
  BY DEF At
<1>4. Origins(chains) = g[k - 1]
  <2> DEFINE G == g[k - 1]
  <2> HIDE DEF G
  <2>1. Push(G, <<>>) = G
    BY <1>1, <1>3, PushIs DEF G
  <2> QED  BY <2>1, <1>3 DEF G
<1> QED  BY <1>1, <1>2, <1>4

LEMMA EndEnsureCallbackResult ==
  ASSUME Types, FramesInv, NEW g, Tale(g, frames, chains), EndEnsureCallback
  PROVE  Result(g)
<1> DEFINE n == Len(frames)
<1>1. InBlock("callback", {"ensure"})
  BY DEF EndEnsureCallback
<1>2. /\ At(g, n) /\ frames[n] \in FrameType /\ frames[n].kind = "callback" /\ frames[n].phase = "ensure"
      /\ outcome = "running" /\ Last(frames) = frames[n] /\ n \in 1 .. Len(frames)
      /\ Front(frames) = SubSeq(frames, 1, n - 1)
  BY <1>1, InUserCode
<1>3. Owned(frames[n], n) = <<>>
  BY <1>2 DEF Owned
<1>4. Origins(chains) = g[n - 1]
  BY <1>2, <1>3, NoHandlerLeft
<1>5. /\ frames' = SubSeq(frames, 1, n - 1) /\ UNCHANGED <<try_program, chains, outcome>>
      /\ inflight' = IF frames[n].held = <<>> THEN NoException ELSE frames[n].held[1]
  BY <1>2 DEF EndEnsureCallback
<1>6. inflight' \in Value \cup {NoException}
  <2>1. frames[n].held \in Seq(Value)
    BY <1>2 DEF FrameType
  <2> QED  BY <2>1, <1>5
<1>7. Shrunk(g, n - 1)
  BY <1>2, <1>4, <1>5 DEF Shrunk
<1> QED  BY <1>2, <1>5, <1>6, <1>7 DEF Result, ChainsOK, Effect, Types

\* The handlers of a compiled frame.
LEMMA CompiledChain ==
  ASSUME Types, FramesInv, NEW g, Tale(g, frames, chains), NEW k, At(g, k),
         frames[k].kind = "compiled"
  PROVE  /\ <<k, "compiled">> \in Entry /\ k \in 1 .. Len(frames)
         /\ Chain \in Seq(HandlerType)
         /\ frames[k].phase = "try" =>
              /\ Chain # <<>> /\ Last(Chain).frame = k /\ Last(Chain).role = "compiled"
              /\ Last(Chain) \in HandlerType
              /\ Origin(Chain) = Append(Last(g[k - 1]), <<k, "compiled">>)
         /\ frames[k].phase \in {"condition", "catch"} =>
              /\ Chain # <<>> /\ Last(Chain).frame = k /\ Last(Chain).role = "catch"
              /\ Last(Chain) \in HandlerType /\ Front(Chain) \in Seq(HandlerType)
              /\ Origin(Front(Chain)) = Append(Last(g[k - 1]), <<k, "compiled">>)
              /\ Origin(Chain) = Append(Origin(Front(Chain)), <<k, "catch">>)
         /\ frames[k].phase = "ensure" => Owned(frames[k], k) = <<>>
         /\ frames[k].phase \in {"try", "condition", "catch", "ensure"}
<1>1. k \in Nat \ {0} /\ k \in 1 .. Len(frames) /\ frames[k] \in FrameType /\ Fits(frames[k])
      /\ Chain \in Seq(HandlerType)
  BY AtIs DEF At, FramesInv
<1>2. <<k, "compiled">> \in Entry
  BY <1>1 DEF Entry, Role, Kinds
<1>3. frames[k].phase \in {"try", "condition", "catch", "ensure"}
  BY <1>1 DEF FrameType, Fits, Phases
<1>4. CASE frames[k].phase = "try"
  <2> DEFINE r == "compiled"
  <2>1. Owned(frames[k], k) = <<<<k, r>>>>
    BY <1>4 DEF Owned
  <2> HIDE DEF r
  <2>2. Chain # <<>> /\ Last(Chain).frame = k /\ Last(Chain).role = r /\ Last(Chain) \in HandlerType
    BY <2>1, OneHandler
  <2>3. Origin(Chain) = Append(Last(g[k - 1]), <<k, r>>)
    BY <2>1, OneHandler
  <2> QED  BY <1>1, <1>2, <1>4, <2>2, <2>3 DEF r
<1>5. CASE frames[k].phase \in {"condition", "catch"}
  <2> DEFINE q == "compiled"
             r == "catch"
  <2>1. Owned(frames[k], k) = Two(<<k, q>>, <<k, r>>)
    BY <1>5 DEF Owned, Two
  <2> HIDE DEF q, r
  <2>2. Chain # <<>> /\ Last(Chain).frame = k /\ Last(Chain).role = r /\ Last(Chain) \in HandlerType
    BY <2>1, TwoHandlers
  <2>3. Front(Chain) \in Seq(HandlerType)
    BY <2>1, TwoHandlers
  <2>4. Origin(Front(Chain)) = Append(Last(g[k - 1]), <<k, q>>)
    BY <2>1, TwoHandlers
  <2>5. Origin(Chain) = Append(Origin(Front(Chain)), <<k, r>>)
    BY <2>1, TwoHandlers
  <2> QED  BY <1>1, <1>2, <1>5, <2>2, <2>3, <2>4, <2>5 DEF q, r
<1>6. CASE frames[k].phase = "ensure"
  <2>1. Owned(frames[k], k) = <<>>
    BY <1>6 DEF Owned
  <2> QED  BY <1>1, <1>2, <1>6, <2>1
<1> QED  BY <1>3, <1>4, <1>5, <1>6

\* From what the label "ensure" does to the result of a step.
LEMMA EnsureResult ==
  ASSUME Types, FramesInv, NEW g, ChainsOK,
         (outcome' = "crashed" /\ frames' = frames) \/ \E j, f : Grown(g, j, f)
  PROVE  Result(g)
<1>1. CASE outcome' = "crashed" /\ frames' = frames
  BY <1>1 DEF Result, Types
<1>2. CASE \E j, f : Grown(g, j, f)
  <2>1. frames' \in Seq(FrameType)
    <3>1. PICK j, f : Grown(g, j, f)
      BY <1>2
    <3>2. j \in 1 .. Len(frames) + 1 /\ f \in FrameType /\ frames' = Append(SubSeq(frames, 1, j - 1), f)
      BY <3>1 DEF Grown
    <3>3. frames \in Seq(FrameType)
      BY DEF Types
    <3> QED  BY <3>2, <3>3
  <2> QED  BY <1>2, <2>1 DEF Result, Effect
<1> QED  BY <1>1, <1>2

LEMMA EndTryBlockResult ==
  ASSUME Types, FramesInv, NEW g, Tale(g, frames, chains), EndTryBlock
  PROVE  Result(g)
<1> DEFINE n == Len(frames)
           none == <<>>
<1>1. InBlock("compiled", {"try"}) /\ EnterEnsure(Chain, n, none)
  BY DEF EndTryBlock, Innermost
<1>2. At(g, n) /\ frames[n].kind = "compiled" /\ frames[n].phase = "try" /\ outcome = "running"
  BY <1>1, InUserCode
<1>3. /\ <<n, "compiled">> \in Entry /\ Chain \in Seq(HandlerType)
      /\ Origin(Chain) = Append(Last(g[n - 1]), <<n, "compiled">>)
  BY <1>2, CompiledChain
<1>4. none \in Seq(Value) /\ Len(none) <= 1
  OBVIOUS
<1> HIDE DEF none
<1>5. ChainsOK /\ ((outcome' = "crashed" /\ frames' = frames) \/ \E j, f : Grown(g, j, f))
  BY <1>1, <1>2, <1>3, <1>4, EnsureEnters
<1> QED  BY <1>5, EnsureResult

LEMMA DeclineResult ==
  ASSUME Types, FramesInv, NEW g, Tale(g, frames, chains), Decline
  PROVE  Result(g)
<1> DEFINE n == Len(frames)
           x == Last(Chain).exception
           held == IF x = NoException THEN <<>> ELSE <<x>>
<1>1. InBlock("compiled", {"condition"}) /\ EnterEnsure(Front(Chain), n, held)
  BY DEF Decline, Innermost
<1>2. At(g, n) /\ frames[n].kind = "compiled" /\ frames[n].phase = "condition" /\ outcome = "running"
  BY <1>1, InUserCode
<1>3. /\ <<n, "compiled">> \in Entry /\ Front(Chain) \in Seq(HandlerType)
      /\ Origin(Front(Chain)) = Append(Last(g[n - 1]), <<n, "compiled">>)
      /\ Last(Chain) \in HandlerType
  BY <1>2, CompiledChain
<1>4. held \in Seq(Value) /\ Len(held) <= 1
  <2>1. x \in Value \cup {NoException}
    BY <1>3 DEF HandlerType
  <2> HIDE DEF x
  <2> QED  BY <2>1
<1> HIDE DEF held
<1>5. ChainsOK /\ ((outcome' = "crashed" /\ frames' = frames) \/ \E j, f : Grown(g, j, f))
  BY <1>1, <1>2, <1>3, <1>4, EnsureEnters
<1> QED  BY <1>5, EnsureResult

LEMMA EndCatchBlockResult ==
  ASSUME Types, FramesInv, NEW g, Tale(g, frames, chains), EndCatchBlock
  PROVE  Result(g)
<1> DEFINE n == Len(frames)
           none == <<>>
<1>1. InBlock("compiled", {"catch"}) /\ EnterEnsure(Front(Chain), n, none)
  BY DEF EndCatchBlock, Innermost
<1>2. At(g, n) /\ frames[n].kind = "compiled" /\ frames[n].phase = "catch" /\ outcome = "running"
  BY <1>1, InUserCode
<1>3. /\ <<n, "compiled">> \in Entry /\ Front(Chain) \in Seq(HandlerType)
      /\ Origin(Front(Chain)) = Append(Last(g[n - 1]), <<n, "compiled">>)
  BY <1>2, CompiledChain
<1>4. none \in Seq(Value) /\ Len(none) <= 1
  OBVIOUS
<1> HIDE DEF none
<1>5. ChainsOK /\ ((outcome' = "crashed" /\ frames' = frames) \/ \E j, f : Grown(g, j, f))
  BY <1>1, <1>2, <1>3, <1>4, EnsureEnters
<1> QED  BY <1>5, EnsureResult

\* The chains stay.
LEMMA SameChains ==
  ASSUME Types, chains # <<>>, chains' = chains
  PROVE  chains' = WithChain(Chain)
BY Rebuilt DEF Types, WithChain, Chain

LEMMA EndConditionResult ==
  ASSUME Types, FramesInv, NEW g, Tale(g, frames, chains), EndCondition
  PROVE  Result(g)
<1> DEFINE n == Len(frames)
           held == frames[n].held
           f == [frames[n] EXCEPT !.phase = "catch", !.held = held]
<1>1. InBlock("compiled", {"condition"})
  BY DEF EndCondition
<1>2. /\ At(g, n) /\ frames[n] \in FrameType /\ frames[n].kind = "compiled" /\ Fits(frames[n])
      /\ frames[n].phase = "condition" /\ outcome = "running" /\ Last(frames) = frames[n]
  BY <1>1, InUserCode
<1>3. EnterPhase(n, "catch", held) /\ UNCHANGED <<try_program, chains, inflight, outcome>>
  BY <1>2 DEF EndCondition, Innermost
<1>4. f \in FrameType /\ f.kind = "compiled" /\ f.phase = "catch" /\ f.catch = frames[n].catch
      /\ held \in Seq(Value)
  BY <1>2 DEF FrameType, Phases
<1>5. Owned(f, n) = Owned(frames[n], n) /\ Fits(f)
  BY <1>2, <1>4 DEF Owned, Fits
<1>6. chains # <<>> /\ Chain \in Seq(HandlerType) /\ Origin(Chain) = Last(g[n - 1]) \o Owned(f, n)
  BY <1>2, <1>5, AtIs
<1>7. chains' = WithChain(Chain)
  BY <1>3, <1>6, SameChains
<1>8. "catch" \in Phases
  BY DEF Phases
<1>9. \E j, h : Grown(g, j, h)
  <2> HIDE DEF held
  <2> QED  BY <1>2, <1>3, <1>4, <1>5, <1>6, <1>7, <1>8, TopEnters
<1>10. ChainsOK
  BY <1>2, <1>3 DEF ChainsOK, Types
<1> QED  BY <1>9, <1>10, EnsureResult

LEMMA EndEnsureBlockResult ==
  ASSUME Types, FramesInv, NEW g, Tale(g, frames, chains), EndEnsureBlock
  PROVE  Result(g)
<1> DEFINE n == Len(frames)
<1>1. InBlock("compiled", {"ensure"})
  BY DEF EndEnsureBlock
<1>2. /\ At(g, n) /\ frames[n] \in FrameType /\ frames[n].kind = "compiled" /\ frames[n].phase = "ensure"
      /\ outcome = "running" /\ Last(frames) = frames[n] /\ n \in 1 .. Len(frames)
      /\ Front(frames) = SubSeq(frames, 1, n - 1)
  BY <1>1, InUserCode
<1>3. Owned(frames[n], n) = <<>>
  BY <1>2, CompiledChain
<1>4. /\ Chain \in Seq(HandlerType) /\ Origin(Chain) = Last(g[n - 1])
      /\ Origins(chains) = g[n - 1]
  BY <1>2, <1>3, NoHandlerLeft
<1>5. CASE frames[n].held # <<>>
  <2>1. /\ inflight' = frames[n].held[1] /\ frames' = SubSeq(frames, 1, n - 1)
        /\ UNCHANGED <<try_program, chains, outcome>>
    BY <1>2, <1>5 DEF EndEnsureBlock
  <2>2. inflight' \in Value
    <3>1. frames[n].held \in Seq(Value)
      BY <1>2 DEF FrameType
    <3> QED  BY <3>1, <2>1, <1>5
  <2>3. Shrunk(g, n - 1)
    BY <1>2, <1>4, <2>1 DEF Shrunk
  <2> QED  BY <1>2, <2>1, <2>2, <2>3 DEF Result, ChainsOK, Effect, Types
<1>6. CASE frames[n].held = <<>> /\ Chain = <<>>
  BY <1>2, <1>6 DEF EndEnsureBlock, Crash, Result, ChainsOK, Types
<1>7. CASE frames[n].held = <<>> /\ Chain # <<>>
  <2> DEFINE d == Append(Front(Chain), [Last(Chain) EXCEPT !.exception = NoException])
  <2>1. /\ chains' = WithChain(d) /\ frames' = SubSeq(frames, 1, n - 1)
        /\ UNCHANGED <<try_program, inflight, outcome>>
    BY <1>2, <1>7 DEF EndEnsureBlock
  <2>2. d \in Seq(HandlerType) /\ Origin(d) = Last(g[n - 1])
    BY <1>4, <1>7, OriginGiven
  <2> HIDE DEF d
  <2>3. chains' \in Seq(Seq(HandlerType)) /\ \E j : Shrunk(g, j)
    BY <1>2, <2>1, <2>2, TopLeaves
  <2> QED  BY <1>2, <2>1, <2>3 DEF Result, ChainsOK, Effect, Types
<1> QED  BY <1>5, <1>6, <1>7

LEMMA ReturnResult ==
  ASSUME NoReturns, Types, FramesInv, NEW g, Tale(g, frames, chains), Return
  PROVE  Result(g)
<1> DEFINE n == Len(frames)
<1>1. InBlock("compiled", {"try", "catch", "ensure"})
  BY DEF Return
<1>2. /\ At(g, n) /\ frames[n].kind = "compiled"
      /\ outcome = "running" /\ Last(frames) = frames[n] /\ n \in 1 .. Len(frames)
      /\ Front(frames) = SubSeq(frames, 1, n - 1)
  BY <1>1, InUserCode
<1>3. frames[n].phase = "ensure"
  BY <1>2 DEF Return, In, NoReturns, Types
<1>4. Owned(frames[n], n) = <<>>
  BY <1>2, <1>3, CompiledChain
<1>5. Origins(chains) = g[n - 1]
  BY <1>2, <1>4, NoHandlerLeft
<1>6. frames' = SubSeq(frames, 1, n - 1) /\ UNCHANGED <<try_program, chains, inflight, outcome>>
  BY <1>2 DEF Return
<1>7. Shrunk(g, n - 1)
  BY <1>2, <1>5, <1>6 DEF Shrunk
<1> QED  BY <1>2, <1>6, <1>7 DEF Result, ChainsOK, Effect, Types

(***************************************************************************)
(* Parallel loops                                                          *)
(***************************************************************************)
LEMMA EndTaskResult ==
  ASSUME Types, FramesInv, NEW g, Tale(g, frames, chains), EndTask
  PROVE  Result(g)
<1> DEFINE n == Len(frames)
           G == g[n - 1]
           f == [frames[n] EXCEPT !.phase = "between", !.held = frames[n].held]
<1>1. /\ frames # <<>> /\ Last(frames).kind = "loop" /\ Last(frames).phase = "task"
      /\ outcome = "running" /\ inflight = NoException /\ ~Between
  BY DEF EndTask, InBlock, UserCode
<1>2. /\ n \in Nat \ {0} /\ Last(frames) = frames[n] /\ frames[n] \in FrameType
      /\ G \in Stacks /\ chains # <<>>
      /\ frames[n].phase = "task" => Front(Origins(chains)) = G
  BY <1>1, TopFrame
<1>3. /\ frames' = Append(SubSeq(frames, 1, n - 1), f) /\ chains' = Front(chains)
      /\ UNCHANGED <<try_program, inflight, outcome>>
  BY <1>2 DEF EndTask, EnterPhase, Innermost
<1>4. f \in FrameType /\ f.kind = "loop" /\ f.phase = "between" /\ f.catch = frames[n].catch
  BY <1>1, <1>2 DEF FrameType, Phases
<1>5. Owned(f, n) = <<>> /\ Fits(f)
  BY <1>4 DEF Owned, Fits
<1>6. chains \in Seq(Seq(HandlerType))
  BY DEF Types
<1>7. Origins(chains') = G /\ chains' \in Seq(Seq(HandlerType))
  BY <1>1, <1>2, <1>3, <1>6, OriginsFront, FrontLast
<1>8. Told(f, n, G) = G
  <2>1. Told(f, n, G) = Push(G, <<>>) /\ <<>> \in Seq(Entry)
    BY <1>4, <1>5 DEF Told
  <2> HIDE DEF G, f
  <2> QED  BY <2>1, <1>2, PushIs
<1>9. Grown(g, n, f)
  <2>1. n \in 1 .. Len(frames) + 1
    BY <1>2
  <2> HIDE DEF f
  <2> QED  BY <2>1, <1>1, <1>2, <1>3, <1>4, <1>5, <1>7, <1>8 DEF Grown
<1> QED  BY <1>1, <1>3, <1>7, <1>9 DEF Result, ChainsOK, Effect, Types

\* A loop between two tasks: it has no handlers.
LEMMA BetweenTasks ==
  ASSUME Types, FramesInv, NEW g, Tale(g, frames, chains), Between
  PROVE  LET n == Len(frames) IN
         /\ n \in Nat \ {0} /\ n \in 1 .. n /\ Last(frames) = frames[n] /\ frames[n] \in FrameType
         /\ Front(frames) = SubSeq(frames, 1, n - 1)
         /\ frames[n].phase = "between" /\ frames[n].kind = "loop"
         /\ At(g, n) /\ Origins(chains) = g[n - 1] /\ chains # <<>>
<1> DEFINE n == Len(frames)
<1>1. frames # <<>> /\ Last(frames).phase = "between"
  BY DEF Between
<1>2. /\ n \in Nat \ {0} /\ Last(frames) = frames[n] /\ frames[n] \in FrameType
      /\ Front(frames) = SubSeq(frames, 1, n - 1)
  BY <1>1, TopFrame
<1>3. n \in 1 .. n /\ Fits(frames[n])
  BY <1>2 DEF FramesInv
<1>4. frames[n].kind = "loop" /\ Owned(frames[n], n) = <<>>
  BY <1>1, <1>2, <1>3 DEF Fits, Owned
<1>5. At(g, n)
  BY <1>1, TopIsAt
<1>6. Origins(chains) = g[n - 1] /\ chains # <<>>
  BY <1>4, <1>5, NoHandlerLeft
<1> QED  BY <1>1, <1>2, <1>3, <1>4, <1>5, <1>6

LEMMA PerformTaskResult ==
  ASSUME Types, FramesInv, NEW g, Tale(g, frames, chains), PerformTask
  PROVE  Result(g)
<1> DEFINE n == Len(frames)
           G == g[n - 1]
           f == [frames[n] EXCEPT !.phase = "task", !.left = @ - 1]
           none == <<>>
<1>1. Between /\ inflight = NoException /\ outcome = "running" /\ Last(frames).left > 0
  BY DEF PerformTask
<1>2. /\ n \in Nat \ {0} /\ Last(frames) = frames[n] /\ frames[n] \in FrameType
      /\ Front(frames) = SubSeq(frames, 1, n - 1)
      /\ frames[n].kind = "loop" /\ Origins(chains) = G
  BY <1>1, BetweenTasks
<1>3. /\ frames' = Append(SubSeq(frames, 1, n - 1), f) /\ chains' = Append(chains, none)
      /\ UNCHANGED <<try_program, inflight, outcome>>
  BY <1>2 DEF PerformTask
<1>4. f \in FrameType /\ f.kind = "loop" /\ f.phase = "task" /\ f.catch = frames[n].catch
  <2> DEFINE left == frames[n].left - 1
  <2>1. left \in Nat
    <3>1. frames[n].left \in Nat /\ frames[n].left > 0
      BY <1>1, <1>2 DEF FrameType
    <3> QED  BY <3>1
  <2> HIDE DEF left
  <2>2. LET h == [frames[n] EXCEPT !.phase = "task", !.left = left] IN
        h \in FrameType /\ h.kind = "loop" /\ h.phase = "task" /\ h.catch = frames[n].catch
    BY <1>2, <2>1 DEF FrameType, Phases
  <2> QED  BY <2>2 DEF left
<1>5. Fits(f)
  BY <1>4 DEF Fits
<1>6. chains \in Seq(Seq(HandlerType)) /\ none \in Seq(HandlerType)
  BY DEF Types
<1>7. Origins(chains') = Append(G, <<>>) /\ chains' \in Seq(Seq(HandlerType))
  <2>1. Origin(none) = <<>>
    BY <1>6, OriginIs
  <2> DEFINE S == Seq(HandlerType)
  <2>2. Append(chains, none) \in Seq(S)
    <3> HIDE DEF S, none
    <3> QED  BY <1>6, Appended DEF S
  <2>3. Origins(Append(chains, none)) = Append(Origins(chains), Origin(none))
    <3> HIDE DEF none
    <3> QED  BY <1>6, OriginsAppend
  <2> QED  BY <2>1, <2>2, <2>3, <1>2, <1>3
<1>8. Told(f, n, G) = Append(G, <<>>)
  BY <1>4 DEF Told
<1>9. Grown(g, n, f)
  <2>1. n \in 1 .. Len(frames) + 1
    BY <1>2
  <2> HIDE DEF f
  <2> QED  BY <2>1, <1>1, <1>2, <1>3, <1>4, <1>5, <1>7, <1>8 DEF Grown
<1> QED  BY <1>1, <1>3, <1>7, <1>9 DEF Result, ChainsOK, Effect, Types

LEMMA CollectedIs ==
  ASSUME NEW s \in Seq(Value)
  PROVE  Collected(s) \in Value \cup {NoException}
<1>1. CASE s = <<>>
  BY <1>1 DEF Collected
<1>2. CASE s # <<>> /\ Len(s) = 1
  BY <1>2 DEF Collected
<1>3. CASE s # <<>> /\ Len(s) # 1
  BY <1>3 DEF Collected, Value
<1> QED  BY <1>1, <1>2, <1>3

LEMMA RethrowResult ==
  ASSUME Types, FramesInv, NEW g, Tale(g, frames, chains), CollectExceptionsAndRethrow
  PROVE  Result(g)
<1> DEFINE n == Len(frames)
<1>1. Between /\ inflight = NoException /\ outcome = "running"
  BY DEF CollectExceptionsAndRethrow
<1>2. /\ n \in Nat \ {0} /\ Last(frames) = frames[n] /\ frames[n] \in FrameType
      /\ Front(frames) = SubSeq(frames, 1, n - 1) /\ Origins(chains) = g[n - 1]
  BY <1>1, BetweenTasks
<1>3. /\ frames' = SubSeq(frames, 1, n - 1) /\ inflight' = Collected(frames[n].held)
      /\ UNCHANGED <<try_program, chains, outcome>>
  BY <1>2 DEF CollectExceptionsAndRethrow
<1>4. inflight' \in Value \cup {NoException}
  <2>1. frames[n].held \in Seq(Value)
    BY <1>2 DEF FrameType
  <2> QED  BY <2>1, <1>3, CollectedIs
<1>5. Shrunk(g, n - 1)
  BY <1>2, <1>3 DEF Shrunk
<1> QED  BY <1>1, <1>3, <1>4, <1>5 DEF Result, ChainsOK, Effect, Types

(***************************************************************************)
(* snow_throw_exception                                                    *)
(***************************************************************************)
\* The handler at the top of the chain is that of a frame, in the phase that its
\* role is for, and all frames above are in their ensure blocks.
LEMMA Catcher ==
  ASSUME Types, FramesInv, NEW g, Tale(g, frames, chains), Thrown, Chain # <<>>
  PROVE  LET role == Last(Chain).role IN
         /\ Target \in 0 .. Len(frames) /\ Above(frames, Target)
         /\ Origins(chains) = g[Target]
         /\ Target = 0 => role = "base"
         /\ Target > 0 => /\ At(g, Target) /\ frames[Target] \in FrameType /\ Fits(frames[Target])
                          /\ ~Dangling /\ role # "base"
                          /\ role = "resume" => frames[Target].kind = "resume"
                          /\ role = "callback" => frames[Target].kind = "callback" /\ frames[Target].phase = "try"
                          /\ role = "catcher" => frames[Target].kind = "callback" /\ frames[Target].phase = "catch"
                          /\ role = "compiled" => frames[Target].kind = "compiled" /\ frames[Target].phase = "try"
                          /\ role = "catch" => /\ frames[Target].kind = "compiled"
                                               /\ frames[Target].phase \in {"condition", "catch"}
<1> DEFINE t == Target
           role == Last(Chain).role
           f == frames[t]
           own == Owned(f, t)
<1>1. frames \in Seq(FrameType) /\ chains \in Seq(Seq(HandlerType)) /\ Len(frames) \in Nat
  BY DEF Types
<1>2. /\ t \in 0 .. Len(frames) /\ Above(frames, t) /\ Origins(chains) = g[t]
      /\ t = 0 => role = "base"
      /\ t > 0 => /\ f.phase # "task" /\ own # <<>>
                  /\ Last(own) = <<t, role>>
                  /\ Origins(chains) = Push(g[t - 1], own)
  <2>1. Last(chains) # <<>> /\ Last(Last(chains)) = Last(Chain) /\ Target = Last(Last(chains)).frame
    BY DEF Chain, Target
  <2> QED  BY <1>1, <2>1, TopIs
<1>3. ASSUME t > 0
      PROVE  /\ At(g, t) /\ f \in FrameType /\ Fits(f) /\ ~Dangling /\ role # "base"
             /\ role = "resume" => f.kind = "resume"
             /\ role = "callback" => f.kind = "callback" /\ f.phase = "try"
             /\ role = "catcher" => f.kind = "callback" /\ f.phase = "catch"
             /\ role = "compiled" => f.kind = "compiled" /\ f.phase = "try"
             /\ role = "catch" => f.kind = "compiled" /\ f.phase \in {"condition", "catch"}
  <2>1. t \in 1 .. Len(frames) /\ f \in FrameType /\ Fits(f)
    BY <1>1, <1>2, <1>3 DEF FramesInv
  <2>2. At(g, t) /\ ~Dangling
    BY <1>1, <1>2, <1>3, <2>1 DEF At, Dangling, Innermost
  <2>3. f.kind \in {"resume", "callback", "compiled", "loop"} /\ f.phase \in Phases
    BY <2>1 DEF FrameType, Kinds
  <2>4. f.kind # "loop"
    BY <1>2, <1>3 DEF Owned
  <2>5. CASE f.kind = "resume" \/ f.phase = "try"
    <3>1. own = <<<<t, f.kind>>>>
      BY <2>4, <2>5 DEF Owned
    <3>2. role = f.kind
      BY <3>1, <1>2, <1>3 DEF Last
    <3> QED  BY <2>1, <2>2, <2>3, <2>4, <2>5, <3>2
  <2>6. CASE ~(f.kind = "resume" \/ f.phase = "try")
    <3>1. f.phase # "ensure"
      BY <2>6, <1>2, <1>3 DEF Owned
    <3>2. own = <<<<t, f.kind>>, <<t, IF f.kind = "callback" THEN "catcher" ELSE "catch">>>>
      BY <2>4, <2>6, <3>1 DEF Owned
    <3>3. role = IF f.kind = "callback" THEN "catcher" ELSE "catch"
      BY <3>2, <1>2, <1>3 DEF Last
    <3>4. f.phase \in {"condition", "catch"}
      BY <2>1, <2>3, <2>4, <2>6, <3>1 DEF Fits, Phases
    <3> QED  BY <2>1, <2>2, <2>3, <2>4, <2>6, <3>1, <3>3, <3>4 DEF Fits
  <2> QED  BY <2>5, <2>6
<1> QED  BY <1>2, <1>3

LEMMA ReceivedIs ==
  ASSUME Types, Thrown, Chain \in Seq(HandlerType), Chain # <<>>
  PROVE  /\ Received \in Seq(HandlerType) /\ Origin(Received) = Origin(Chain)
         /\ Front(Received) = Front(Chain) /\ Last(Received).exception = inflight
         /\ Received # <<>>
         /\ inflight \in Value /\ <<inflight>> \in Seq(Value) /\ Len(<<inflight>>) = 1
<1> DEFINE h == [Last(Chain) EXCEPT !.exception = inflight]
<1>1. inflight \in Value
  BY DEF Types, Thrown
<1>2. Front(Chain) \in Seq(HandlerType) /\ Last(Chain) \in HandlerType
  BY FrontLast
<1>3. h \in HandlerType /\ h.exception = inflight
  BY <1>1, <1>2 DEF HandlerType
<1>4. Received \in Seq(HandlerType) /\ Origin(Received) = Origin(Chain)
  BY <1>1, OriginGiven DEF Received
<1> HIDE DEF h
<1>5. Front(Append(Front(Chain), h)) = Front(Chain) /\ Last(Append(Front(Chain), h)) = h
      /\ Append(Front(Chain), h) # <<>>
  BY <1>2, <1>3, Appended
<1>6. Received = Append(Front(Chain), h)
  BY DEF Received, h
<1>7. <<inflight>> \in Seq(Value) /\ Len(<<inflight>>) = 1
  BY <1>1
<1> QED  BY <1>1, <1>3, <1>4, <1>5, <1>6, <1>7

\* A second handler on top of the first.
LEMMA Guarded ==
  ASSUME NEW d \in Seq(HandlerType), NEW L \in Seq(Entry), NEW k \in Nat, NEW q, NEW h \in HandlerType,
         Origin(d) = Append(L, <<k, q>>), <<k, q>> \in Entry, h.frame = k
  PROVE  /\ Append(d, h) \in Seq(HandlerType)
         /\ Origin(Append(d, h)) = L \o <<<<k, q>>, <<k, h.role>>>>
<1> DEFINE a == <<k, q>>
           b == <<h.frame, h.role>>
<1>1. a \in Entry /\ b \in Entry /\ b = <<k, h.role>>
  BY DEF HandlerType, Entry
<1> HIDE DEF a, b
<1>2. Origin(d) = Append(L, a)
  BY DEF a
<1>3. Origin(Append(d, h)) = Append(Origin(d), b) /\ Append(d, h) \in Seq(HandlerType)
  BY OriginAppend, Appended DEF b
<1>4. L \o <<a, b>> = Append(Append(L, a), b)
  BY <1>1, JoinedTwo
<1>5. Origin(Append(d, h)) = L \o <<a, b>>
  BY <1>2, <1>3, <1>4
<1> QED  BY <1>1, <1>3, <1>5 DEF a

LEMMA ResumeTryResult ==
  ASSUME Types, FramesInv, NEW g, Tale(g, frames, chains), ResumeTry
  PROVE  Result(g)
<1> DEFINE t == Target
           f == frames[t]
           L == Last(g[t - 1])
           caught == <<inflight>>
<1>1. Thrown /\ Chain # <<>> /\ Last(Chain).role = "resume" /\ outcome = "running"
  BY DEF ResumeTry, ThrownTo, Thrown
<1>2. At(g, t) /\ f \in FrameType /\ Fits(f) /\ f.kind = "resume" /\ t > 0
  <2>1. t \in 0 .. Len(frames) /\ t # 0
    BY <1>1, Catcher
  <2>2. t > 0
    BY <2>1
  <2> QED  BY <1>1, <2>2, Catcher
<1>3. Owned(f, t) = <<<<t, "resume">>>>
  BY <1>2 DEF Owned
<1>4. /\ Chain \in Seq(HandlerType) /\ Origin(Chain) = L \o Owned(f, t)
      /\ L \in Seq(Entry)
  BY <1>2, AtIs
<1>5. Front(Chain) \in Seq(HandlerType) /\ Origin(Front(Chain)) = L
  BY <1>2, <1>3, OneHandler
<1>6. /\ Received \in Seq(HandlerType) /\ Origin(Received) = Origin(Chain)
      /\ Front(Received) = Front(Chain) /\ Last(Received).exception = inflight
      /\ inflight \in Value /\ caught \in Seq(Value) /\ Len(caught) = 1
  BY <1>1, <1>4, ReceivedIs
<1>7. UNCHANGED <<try_program, outcome>>
  BY DEF ResumeTry
<1>8. ASSUME NEW phase \in {"catch", "ensure"}, EnterPhase(t, phase, caught),
             chains' = WithChain(Received), inflight' = NoException
      PROVE  Result(g)
  <2> DEFINE h == [f EXCEPT !.phase = phase, !.held = caught]
  <2>1. h \in FrameType /\ h.kind = "resume" /\ h.phase = phase /\ h.held = caught /\ h.catch = f.catch
    <3> HIDE DEF caught
    <3> QED  BY <1>2, <1>6 DEF FrameType, Phases
  <2>2. Owned(h, t) = Owned(f, t) /\ Fits(h)
    BY <1>2, <1>3, <1>6, <2>1 DEF Owned, Fits
  <2>3. Origin(Received) = L \o Owned(h, t)
    BY <1>4, <1>6, <2>2
  <2>4. phase \in Phases /\ phase # "task" /\ phase # "between"
    BY DEF Phases
  <2>5. chains' \in Seq(Seq(HandlerType)) /\ \E j, e : Grown(g, j, e)
    <3> HIDE DEF caught
    <3> QED  BY <1>2, <1>6, <1>8, <2>2, <2>3, <2>4, TopEnters
  <2> QED  BY <1>1, <1>7, <1>8, <2>5 DEF Result, ChainsOK, Effect, Types
<1>9. CASE f.phase = "try"
  BY <1>6, <1>8, <1>9 DEF ResumeTry, PrepareIteration
<1>10. CASE f.phase = "catch"
  BY <1>6, <1>8, <1>10 DEF ResumeTry, PrepareIteration
<1>11. CASE f.phase = "ensure"
  <2>1. /\ chains' = WithChain(Front(Chain)) /\ frames' = SubSeq(frames, 1, t - 1)
        /\ inflight' = inflight
    BY <1>6, <1>11 DEF ResumeTry, PrepareIteration, FinishResumptions
  <2>2. chains' \in Seq(Seq(HandlerType)) /\ \E j : Shrunk(g, j)
    BY <1>2, <1>5, <2>1, TopLeaves
  <2> QED  BY <1>1, <1>6, <1>7, <2>1, <2>2 DEF Result, ChainsOK, Effect, Types
<1> QED  BY <1>2, <1>9, <1>10, <1>11 DEF Fits

LEMMA RunCatchFuncResult ==
  ASSUME Types, FramesInv, NEW g, Tale(g, frames, chains), RunCatchFunc
  PROVE  Result(g)
<1> DEFINE t == Target
           f == frames[t]
           L == Last(g[t - 1])
           caught == <<inflight>>
           q == "callback"
           h == Handler(t, "catcher", NoException)
           e == [f EXCEPT !.phase = "catch", !.held = caught]
<1>1. Thrown /\ Chain # <<>> /\ Last(Chain).role = "callback" /\ outcome = "running"
  BY DEF RunCatchFunc, ThrownTo, Thrown
<1>2. /\ At(g, t) /\ f \in FrameType /\ Fits(f) /\ f.kind = "callback" /\ f.phase = "try" /\ t > 0
      /\ t \in Nat
  <2>1. t \in 0 .. Len(frames) /\ t # 0
    BY <1>1, Catcher
  <2>2. t > 0 /\ t \in Nat
    BY <2>1
  <2> QED  BY <1>1, <2>2, Catcher
<1>3. Owned(f, t) = <<<<t, q>>>>
  BY <1>2 DEF Owned
<1>4. Chain \in Seq(HandlerType) /\ L \in Seq(Entry)
  BY <1>2, AtIs
<1>5. Origin(Chain) = Append(L, <<t, q>>) /\ <<t, q>> \in Entry
  <2> HIDE DEF q
  <2> QED  BY <1>2, <1>3, OneHandler
<1>6. /\ Received \in Seq(HandlerType) /\ Origin(Received) = Origin(Chain)
      /\ caught \in Seq(Value) /\ Len(caught) = 1
  BY <1>1, <1>4, ReceivedIs
<1>7. h \in HandlerType /\ h.frame = t /\ h.role = "catcher"
  BY <1>2 DEF HandlerType, Handler, Role
<1>8. /\ UNCHANGED <<try_program, outcome>> /\ inflight' = NoException
      /\ chains' = WithChain(Append(Received, h)) /\ EnterPhase(t, "catch", caught)
  BY DEF RunCatchFunc
<1>9. e \in FrameType /\ e.kind = "callback" /\ e.phase = "catch" /\ e.catch = f.catch
  <2> HIDE DEF caught
  <2> QED  BY <1>2, <1>6 DEF FrameType, Phases
<1>10. Owned(e, t) = <<<<t, q>>, <<t, "catcher">>>> /\ Fits(e)
  BY <1>2, <1>9 DEF Owned, Fits
<1>11. Append(Received, h) \in Seq(HandlerType) /\ Origin(Append(Received, h)) = L \o Owned(e, t)
  <2>1. Origin(Received) = Append(L, <<t, q>>)
    BY <1>5, <1>6
  <2>2. /\ Append(Received, h) \in Seq(HandlerType)
        /\ Origin(Append(Received, h)) = L \o <<<<t, q>>, <<t, h.role>>>>
    <3> HIDE DEF q, h, L
    <3> QED  BY <1>2, <1>4, <1>5, <1>6, <1>7, <2>1, Guarded, ZenonT(60)
  <2> QED  BY <2>2, <1>7, <1>10
<1>12. "catch" \in Phases
  BY DEF Phases
<1>13. chains' \in Seq(Seq(HandlerType)) /\ \E j, z : Grown(g, j, z)
  <2> HIDE DEF caught, h
  <2> QED  BY <1>2, <1>6, <1>8, <1>10, <1>11, <1>12, TopEnters
<1> QED  BY <1>1, <1>8, <1>13 DEF Result, ChainsOK, Effect, Types

LEMMA CatchFuncThrewResult ==
  ASSUME Types, FramesInv, NEW g, Tale(g, frames, chains), CatchFuncThrew
  PROVE  Result(g)
<1> DEFINE t == Target
           f == frames[t]
           caught == <<inflight>>
<1>1. Thrown /\ Chain # <<>> /\ Last(Chain).role = "catcher" /\ outcome = "running"
  BY DEF CatchFuncThrew, ThrownTo, Thrown
<1>2. At(g, t) /\ Fits(f) /\ f.kind = "callback" /\ f.phase = "catch"
  <2>1. t \in 0 .. Len(frames) /\ t # 0
    BY <1>1, Catcher
  <2>2. t > 0
    BY <2>1
  <2> QED  BY <1>1, <2>2, Catcher
<1>3. Chain \in Seq(HandlerType)
  BY ChainIs
<1>4. caught \in Seq(Value) /\ Len(caught) = 1
  BY <1>1, <1>3, ReceivedIs
<1>5. /\ UNCHANGED <<try_program, outcome>> /\ inflight' = NoException
      /\ chains' = WithChain(Truncated(t)) /\ EnterPhase(t, "ensure", caught)
  BY DEF CatchFuncThrew
<1>6. chains' \in Seq(Seq(HandlerType)) /\ \E j, h : Grown(g, j, h)
  <2>1. f.phase \in {"try", "catch"} /\ f.catch = "always" /\ Len(caught) <= 1
    BY <1>2, <1>4 DEF Fits
  <2> HIDE DEF caught
  <2> QED  BY <1>2, <1>4, <1>5, <2>1, CallbackEnters
<1> QED  BY <1>1, <1>5, <1>6 DEF Result, ChainsOK, Effect, Types

LEMMA RunCatchBlockResult ==
  ASSUME Types, FramesInv, NEW g, Tale(g, frames, chains), RunCatchBlock
  PROVE  Result(g)
<1> DEFINE t == Target
           f == frames[t]
           L == Last(g[t - 1])
           caught == <<inflight>>
           q == "compiled"
<1>1. Thrown /\ Chain # <<>> /\ Last(Chain).role = "compiled" /\ outcome = "running"
  BY DEF RunCatchBlock, ThrownTo, Thrown
<1>2. /\ At(g, t) /\ f \in FrameType /\ Fits(f) /\ f.kind = "compiled" /\ f.phase = "try"
      /\ t \in Nat /\ ~Dangling
  <2>1. t \in 0 .. Len(frames) /\ t # 0
    BY <1>1, Catcher
  <2>2. t > 0 /\ t \in Nat
    BY <2>1
  <2> QED  BY <1>1, <2>2, Catcher
<1>3. Chain \in Seq(HandlerType) /\ L \in Seq(Entry)
  BY <1>2, AtIs
<1>4. Origin(Chain) = Append(L, <<t, q>>) /\ <<t, q>> \in Entry
  BY <1>2, CompiledChain
<1>5. /\ Received \in Seq(HandlerType) /\ Origin(Received) = Origin(Chain)
      /\ caught \in Seq(Value) /\ Len(caught) = 1 /\ inflight \in Value
  BY <1>1, <1>3, ReceivedIs
<1>6. CASE f.catch = "never"
  <2>1. EnterEnsure(Received, t, caught)
    BY <1>2, <1>6 DEF RunCatchBlock
  <2>2. ChainsOK /\ ((outcome' = "crashed" /\ frames' = frames) \/ \E j, h : Grown(g, j, h))
    <3>1. <<t, q>> \in Entry /\ Origin(Received) = Append(L, <<t, q>>) /\ Len(caught) <= 1
      BY <1>4, <1>5
    <3> HIDE DEF caught, q
    <3> QED  BY <1>1, <1>2, <1>5, <2>1, <3>1, EnsureEnters
  <2> QED  BY <2>2, EnsureResult
<1>7. CASE f.catch # "never"
  <2> DEFINE phase == IF f.catch = "condition" THEN "condition" ELSE "catch"
             h == Handler(t, "catch", inflight)
             e == [f EXCEPT !.phase = phase, !.held = caught]
  <2>1. /\ UNCHANGED <<try_program, outcome>> /\ inflight' = NoException
        /\ chains' = WithChain(Append(Received, h)) /\ EnterPhase(t, phase, caught)
    BY <1>2, <1>7 DEF RunCatchBlock
  <2>2. h \in HandlerType /\ h.frame = t /\ h.role = "catch"
    BY <1>2, <1>5 DEF HandlerType, Handler, Role
  <2>3. phase \in Phases /\ phase \in {"condition", "catch"} /\ (phase = "condition" => f.catch = "condition")
    BY DEF Phases
  <2>4. e \in FrameType /\ e.kind = "compiled" /\ e.phase = phase /\ e.catch = f.catch
    <3> HIDE DEF caught, phase
    <3> QED  BY <1>2, <1>5, <2>3 DEF FrameType
  <2>5. Owned(e, t) = <<<<t, q>>, <<t, "catch">>>> /\ Fits(e)
    BY <2>3, <2>4 DEF Owned, Fits
  <2>6. Append(Received, h) \in Seq(HandlerType) /\ Origin(Append(Received, h)) = L \o Owned(e, t)
    <3>1. Origin(Received) = Append(L, <<t, q>>)
      BY <1>4, <1>5
    <3>2. /\ Append(Received, h) \in Seq(HandlerType)
          /\ Origin(Append(Received, h)) = L \o <<<<t, q>>, <<t, h.role>>>>
      <4> HIDE DEF q, h, L
      <4> QED  BY <1>2, <1>3, <1>4, <1>5, <2>2, <3>1, Guarded, ZenonT(60)
    <3> QED  BY <3>2, <2>2, <2>5
  <2>7. chains' \in Seq(Seq(HandlerType)) /\ \E j, z : Grown(g, j, z)
    <3>1. phase # "task" /\ phase # "between"
      BY <2>3
    <3> HIDE DEF caught, h, phase
    <3> QED  BY <1>2, <1>5, <2>1, <2>3, <2>5, <2>6, <3>1, TopEnters
  <2> QED  BY <1>1, <2>1, <2>7 DEF Result, ChainsOK, Effect, Types
<1> QED  BY <1>6, <1>7

LEMMA CatchBlockThrewResult ==
  ASSUME Types, FramesInv, NEW g, Tale(g, frames, chains), CatchBlockThrew
  PROVE  Result(g)
<1> DEFINE t == Target
           caught == <<inflight>>
<1>1. Thrown /\ Chain # <<>> /\ Last(Chain).role = "catch" /\ outcome = "running"
  BY DEF CatchBlockThrew, ThrownTo, Thrown
<1>2. /\ At(g, t) /\ frames[t].kind = "compiled" /\ frames[t].phase \in {"condition", "catch"}
      /\ ~Dangling
  <2>1. t \in 0 .. Len(frames) /\ t # 0
    BY <1>1, Catcher
  <2>2. t > 0
    BY <2>1
  <2> QED  BY <1>1, <2>2, Catcher
<1>3. /\ <<t, "compiled">> \in Entry /\ Front(Chain) \in Seq(HandlerType) /\ Chain \in Seq(HandlerType)
      /\ Origin(Front(Chain)) = Append(Last(g[t - 1]), <<t, "compiled">>)
  BY <1>2, CompiledChain
<1>4. caught \in Seq(Value) /\ Len(caught) <= 1
  BY <1>1, <1>3, ReceivedIs
<1>5. EnterEnsure(Front(Chain), t, caught)
  BY <1>2 DEF CatchBlockThrew
<1> HIDE DEF caught
<1>6. ChainsOK /\ ((outcome' = "crashed" /\ frames' = frames) \/ \E j, f : Grown(g, j, f))
  BY <1>1, <1>2, <1>3, <1>4, <1>5, EnsureEnters
<1> QED  BY <1>6, EnsureResult

LEMMA UnhandledResult ==
  ASSUME Types, FramesInv, NEW g, Tale(g, frames, chains), UnhandledException
  PROVE  Result(g)
BY DEF UnhandledException, Result, ChainsOK, Types

\* The innermost task.
LEMMA TaskFound ==
  ASSUME NEW fs \in Seq(FrameType), NEW t \in 1 .. Len(fs), fs[t].phase = "task", Above(fs, t)
  PROVE  SelectLastInSeq(fs, LAMBDA f : f.phase = "task") = t
<1> DEFINE I == {i \in 1 .. Len(fs) : fs[i].phase = "task"}
<1>1. t \in I /\ \A i \in I : t >= i
  <2>1. ASSUME NEW i \in I, i > t PROVE FALSE
    <3>1. i \in t + 1 .. Len(fs)
      BY <2>1
    <3> QED  BY <3>1 DEF Above, Plain
  <2> QED  BY <2>1
<1>2. Max(I) = t
  <2>1. \A x \in I : (\A y \in I : x >= y) => x = t
    BY <1>1
  <2> QED  BY <1>1, <2>1 DEF Max
<1>3. I # {}
  BY <1>1
<1> QED  BY <1>2, <1>3 DEF SelectLastInSeq

LEMMA AbortResult ==
  ASSUME Types, FramesInv, NEW g, Tale(g, frames, chains), AbortCurrentTask
  PROVE  Result(g)
<1>1. Thrown /\ Chain = <<>> /\ outcome = "running" /\ inflight \in Value
  BY DEF AbortCurrentTask, Thrown, Types
<1>2. frames \in Seq(FrameType) /\ chains \in Seq(Seq(HandlerType)) /\ Len(frames) \in Nat
  BY DEF Types
<1>3. PICK t \in 1 .. Len(frames) :
        frames[t].phase = "task" /\ Above(frames, t) /\ Origins(chains) = Append(g[t - 1], <<>>)
  BY <1>1, <1>2, TopIs DEF Chain
<1> DEFINE held == Append(frames[t].held, inflight)
           f == [frames[t] EXCEPT !.phase = "between", !.held = held]
           G == g[t - 1]
<1>4. SelectLastInSeq(frames, LAMBDA x : x.phase = "task") = t
  BY <1>2, <1>3, TaskFound
<1>5. /\ frames' = Append(SubSeq(frames, 1, t - 1), f) /\ chains' = Front(chains)
      /\ inflight' = NoException /\ UNCHANGED <<try_program, outcome>>
  BY <1>4 DEF AbortCurrentTask, EnterPhase
<1>6. /\ frames[t] \in FrameType /\ frames[t].kind = "loop" /\ held \in Seq(Value)
      /\ G \in Stacks /\ chains # <<>>
  <2>1. frames[t] \in FrameType /\ Fits(frames[t])
    BY <1>2 DEF FramesInv
  <2>2. frames[t].held \in Seq(Value)
    BY <2>1 DEF FrameType
  <2>3. held \in Seq(Value)
    BY <1>1, <2>2
  <2>4. G \in Stacks
    <3>1. t - 1 \in 0 .. Len(frames)
      BY <1>2
    <3> QED  BY <3>1 DEF Tale
  <2> QED  BY <1>3, <2>1, <2>3, <2>4, ChainIs DEF Fits
<1>7. f \in FrameType /\ f.kind = "loop" /\ f.phase = "between" /\ f.catch = frames[t].catch
  <2> HIDE DEF held
  <2> QED  BY <1>6 DEF FrameType, Phases
<1>8. Owned(f, t) = <<>> /\ Fits(f)
  BY <1>7 DEF Owned, Fits
<1>9. Front(Append(G, <<>>)) = G
  <2> DEFINE E == Seq(Entry)
             none == <<>>
  <2>1. G \in Seq(E) /\ none \in E
    BY <1>6 DEF Stacks
  <2>2. Front(Append(G, none)) = G
    <3> HIDE DEF E, none, G
    <3> QED  BY <2>1, Appended
  <2> QED  BY <2>2
<1>10. Origins(chains') = G /\ chains' \in Seq(Seq(HandlerType))
  BY <1>2, <1>3, <1>5, <1>6, <1>9, OriginsFront, FrontLast
<1>11. Told(f, t, G) = G
  <2>1. Told(f, t, G) = Push(G, <<>>) /\ <<>> \in Seq(Entry)
    BY <1>7, <1>8 DEF Told
  <2> HIDE DEF G, f
  <2> QED  BY <2>1, <1>6, PushIs
<1>12. Grown(g, t, f)
  <2>1. t \in 1 .. Len(frames) + 1 /\ t # Len(frames) + 1
    BY <1>2
  <2> HIDE DEF f
  <2> QED  BY <2>1, <1>5, <1>6, <1>7, <1>8, <1>10, <1>11 DEF Grown
<1> QED  BY <1>1, <1>5, <1>10, <1>12 DEF Result, ChainsOK, Effect, Types

(***************************************************************************)
(* The invariant is inductive                                              *)
(***************************************************************************)
LEMMA TryInit == ExceptionsAssumption /\ ExceptionsInit => TryInv
<1> SUFFICES ASSUME ExceptionsAssumption, ExceptionsInit PROVE TryInv
  OBVIOUS
<1> DEFINE h == Handler(0, "base", NoException)
           c == <<h>>
<1>1. /\ try_program \in TryPrograms /\ frames = <<>> /\ chains = <<c>>
      /\ inflight = NoException /\ outcome = "running"
  BY DEF ExceptionsInit
<1>2. h \in HandlerType /\ h.frame = 0 /\ h.role = "base"
  BY DEF HandlerType, Handler, Role
<1>3. c \in Seq(HandlerType) /\ Len(c) = 1 /\ c[1] = h
  BY <1>2
<1>4. Origin(c) = <<<<0, "base">>>>
  <2>1. DOMAIN c = {1}
    OBVIOUS
  <2> QED  BY <1>2, <1>3, <2>1 DEF Origin
<1> HIDE DEF c
<1>5. chains \in Seq(Seq(HandlerType)) /\ DOMAIN chains = {1} /\ chains[1] = c
  BY <1>1, <1>3
<1>6. Origins(chains) = <<<<<<0, "base">>>>>>
  BY <1>4, <1>5 DEF Origins
<1>7. Types
  BY <1>1, <1>5 DEF Types
<1>8. FramesInv
  BY <1>1 DEF FramesInv
<1>9. \E g : Tale(g, frames, chains)
  <2> DEFINE g == [k \in 0 .. 0 |-> <<<<<<0, "base">>>>>>]
  <2>1. <<<<<<0, "base">>>>>> \in Stacks
    <3>1. <<0, "base">> \in Entry
      BY DEF Entry, Role
    <3> QED  BY <3>1 DEF Stacks
  <2>2. g \in [0 .. 0 -> Stacks] /\ g[0] = <<<<<<0, "base">>>>>>
    BY <2>1
  <2> HIDE DEF g
  <2>3. Len(frames) = 0
    BY <1>1
  <2>4. Tale(g, frames, chains)
    BY <2>2, <2>3, <1>6 DEF Tale
  <2> QED  BY <2>4
<1> QED  BY <1>1, <1>7, <1>8, <1>9, TypesAre DEF TryInv

\* What a step of the program, of a loop or of a throw results in.
LEMMA StepResult ==
  ASSUME ExceptionsAssumption, NoReturns, Types, FramesInv, NEW g, Tale(g, frames, chains),
         outcome = "running", ExceptionsNext
  PROVE  Result(g)
<1>1. ASSUME NEW kind \in Kinds, NEW catch \in Catches, Try(kind, catch) PROVE Result(g)
  <2>1. ChainsOK /\ \E k, f : Grown(g, k, f)
    BY <1>1, TryGrows
  <2> QED  BY <2>1, EnsureResult
<1>2. ASSUME NEW e \in Exception, Throw(e) PROVE Result(g)
  BY <1>2 DEF Throw, UserCode, Result, ChainsOK, Effect, Stays, Types, Value
<1>3. ASSUME NEW n \in 0 .. MaxTasks, ParallelForEach(n) PROVE Result(g)
  <2>1. n \in Nat
    BY DEF ExceptionsAssumption
  <2>2. ChainsOK /\ \E k, f : Grown(g, k, f)
    BY <1>3, <2>1, LoopGrows
  <2> QED  BY <2>2, EnsureResult
<1>4. CASE EndTry \/ EndEnsure \/ EndCallback \/ EndEnsureCallback
  BY <1>4, EndTryResult, EndEnsureResult, EndCallbackResult, EndEnsureCallbackResult
<1>5. CASE EndTryBlock \/ EndCondition \/ Decline \/ EndCatchBlock
  BY <1>5, EndTryBlockResult, EndConditionResult, DeclineResult, EndCatchBlockResult
<1>6. CASE EndEnsureBlock \/ Return \/ EndTask
  BY <1>6, EndEnsureBlockResult, ReturnResult, EndTaskResult
<1>7. CASE Loop
  BY <1>7, PerformTaskResult, RethrowResult DEF Loop
<1>8. CASE Handling
  BY <1>8, ResumeTryResult, RunCatchFuncResult, CatchFuncThrewResult, RunCatchBlockResult,
     CatchBlockThrewResult, UnhandledResult, AbortResult DEF Handling
<1> QED  BY <1>1, <1>2, <1>3, <1>4, <1>5, <1>6, <1>7, <1>8 DEF ExceptionsNext, Program

\* Nothing happens any more once the program is aborted or has crashed.
LEMMA OnlyRunning == ASSUME ExceptionsNext PROVE outcome = "running"
BY DEF ExceptionsNext, Program, Loop, Handling, Try, Throw, ParallelForEach, EndTry, EndEnsure,
   EndCallback, EndEnsureCallback, EndTryBlock, EndCondition, Decline, EndCatchBlock, EndEnsureBlock,
   Return, EndTask, PerformTask, CollectExceptionsAndRethrow, ResumeTry, RunCatchFunc,
   CatchFuncThrew, RunCatchBlock, CatchBlockThrew, UnhandledException, AbortCurrentTask,
   InBlock, UserCode, ThrownTo, Thrown

LEMMA TryNext ==
  ASSUME ExceptionsAssumption, NoReturns, TryInv, [ExceptionsNext]_try_vars
  PROVE  TryInv'
<1>1. CASE UNCHANGED try_vars
  BY <1>1 DEF try_vars, TryInv, ExceptionsTypeOK, FramesInv, Tale
<1>2. CASE ExceptionsNext
  <2>1. outcome = "running"
    BY <1>2, OnlyRunning
  <2>2. Types /\ FramesInv
    BY <2>1, TypesAre DEF TryInv
  <2>3. PICK g : Tale(g, frames, chains)
    BY <2>1 DEF TryInv
  <2>4. Result(g)
    BY <1>2, <2>1, <2>2, <2>3, StepResult
  <2>5. ChainsOK /\ (outcome' # "running" => frames' \in Seq(FrameType))
    BY <2>4 DEF Result
  <2>6. ASSUME outcome' = "running"
        PROVE  frames' \in Seq(FrameType) /\ FramesInv' /\ \E h : Tale(h, frames', chains')
    <3>1. CASE \E k, f : Grown(g, k, f)
      BY <3>1, <2>2, <2>3, GrownKeeps
    <3>2. CASE \E k : Shrunk(g, k)
      BY <3>2, <2>2, <2>3, ShrunkKeeps
    <3>3. CASE Stays
      <4>1. ASSUME NEW k \in 1 .. Len(frames) PROVE frames[k].phase # "between"
        <5> SUFFICES ASSUME frames[k].phase = "between" PROVE FALSE
          OBVIOUS
        <5>1. k = Len(frames)
          BY <2>2 DEF FramesInv
        <5>2. Between
          BY <5>1 DEF Between, Last
        <5> QED  BY <5>2, <3>3 DEF Stays
      <4>2. frames' = frames /\ chains' = chains
        BY <3>3 DEF Stays
      <4>3. FramesInv'
        BY <4>1, <4>2, <2>2 DEF FramesInv
      <4> QED  BY <4>2, <4>3, <2>2, <2>3 DEF Types
    <3> QED  BY <3>1, <3>2, <3>3, <2>4, <2>6 DEF Result, Effect
  <2>7. Types'
    BY <2>2, <2>5, <2>6 DEF Types, ChainsOK
  <2>8. ExceptionsTypeOK'
    <3>1. outcome' \in {"running", "unhandled", "crashed"}
      BY <2>5 DEF ChainsOK
    <3> QED  BY <2>7, <3>1 DEF ExceptionsTypeOK, Types, FrameType, HandlerType, Role
  <2> QED  BY <2>6, <2>8 DEF TryInv
<1> QED  BY <1>1, <1>2

\* The frames of trys and loops, the handlers and what is thrown have the types
\* that the code gives them, whatever the program does.
THEOREM ExceptionsKeepTheirTypes ==
  ASSUME ExceptionsAssumption, NoReturns
  PROVE  ExceptionsSpec => []ExceptionsTypeOK
<1>1. ExceptionsInit => TryInv
  BY TryInit
<1>2. TryInv /\ [ExceptionsNext]_try_vars => TryInv'
  BY TryNext
<1>3. TryInv => ExceptionsTypeOK
  BY DEF TryInv
<1> QED  BY <1>1, <1>2, <1>3, PTL DEF ExceptionsSpec

(***************************************************************************)
(* All chains, and all frames, one after the other                         *)
(***************************************************************************)

LEMMA FlattenPush ==
  ASSUME NEW G \in Stacks, NEW x \in Seq(Entry)
  PROVE  FlattenSeq(Push(G, x)) = FlattenSeq(G) \o x /\ FlattenSeq(G) \in Seq(Entry)
<1> DEFINE F == Front(G)
           L == Last(G)
           y == L \o x
<1>1. F \in Seq(Seq(Entry)) /\ L \in Seq(Entry) /\ Append(F, L) = G
  <2> DEFINE E == Seq(Entry)
  <2>1. G \in Seq(E) /\ G # <<>>
    BY DEF Stacks
  <2> HIDE DEF E
  <2>2. F \in Seq(E) /\ L \in E /\ Append(F, L) = G
    BY <2>1, FrontLast, Rebuilt
  <2> QED  BY <2>2 DEF E
<1>2. y \in Seq(Entry)
  BY <1>1, Joined
<1> HIDE DEF F, L, y
<1>3. FlattenSeq(Append(F, y)) = FlattenSeq(F) \o y /\ FlattenSeq(F) \in Seq(Entry)
  BY <1>1, <1>2, FlattenAppend
<1>4. FlattenSeq(G) = FlattenSeq(F) \o L
  <2>1. FlattenSeq(Append(F, L)) = FlattenSeq(F) \o L
    BY <1>1, FlattenAppend
  <2> QED  BY <1>1, <2>1
<1>5. Push(G, x) = Append(F, y)
  BY DEF Push, F, L, y
<1> DEFINE A == FlattenSeq(F)
<1>6. A \in Seq(Entry)
  BY <1>3
<1> HIDE DEF A
<1>7. A \o (L \o x) = (A \o L) \o x /\ A \o L \in Seq(Entry)
  BY <1>1, <1>6, Associative, Joined, SMTT(30)
<1> QED  BY <1>3, <1>4, <1>5, <1>7 DEF A, y

\* The handlers that the first k frames own.
AllOwned(fs, k) == [j \in 1 .. k |-> Owned(fs[j], j)]

LEMMA AllOwnedIs ==
  ASSUME NEW fs \in Seq(FrameType), NEW k \in 1 .. Len(fs)
  PROVE  /\ AllOwned(fs, k - 1) \in Seq(Seq(Entry)) /\ Owned(fs[k], k) \in Seq(Entry)
         /\ AllOwned(fs, k) = Append(AllOwned(fs, k - 1), Owned(fs[k], k))
<1> DEFINE E == Seq(Entry)
           a == AllOwned(fs, k - 1)
           b == AllOwned(fs, k)
           x == Owned(fs[k], k)
<1>1. k \in Nat \ {0} /\ k - 1 \in Nat /\ \A j \in 1 .. k : j \in 1 .. Len(fs) /\ j \in Nat
  OBVIOUS
<1>2. \A j \in 1 .. k : fs[j] \in FrameType
  BY <1>1
<1>3. \A j \in 1 .. k : Owned(fs[j], j) \in E
  BY <1>1, <1>2, OwnedIs
<1> HIDE DEF E
<1>4. b \in Seq(E) /\ Len(b) = k /\ \A j \in 1 .. k : b[j] = Owned(fs[j], j)
  BY <1>1, <1>3 DEF AllOwned
<1>5. a \in Seq(E) /\ Len(a) = k - 1 /\ \A j \in 1 .. k - 1 : a[j] = Owned(fs[j], j)
  BY <1>1, <1>3 DEF AllOwned
<1>6. x \in E
  BY <1>1, <1>3
<1> HIDE DEF a, b, x
<1>7. /\ Append(a, x) \in Seq(E) /\ Len(Append(a, x)) = k
      /\ \A j \in 1 .. k - 1 : Append(a, x)[j] = a[j]
      /\ Append(a, x)[k] = x
  BY <1>1, <1>5, <1>6, Appended
<1>8. ASSUME NEW j \in 1 .. k PROVE b[j] = Append(a, x)[j]
  <2>1. CASE j = k
    BY <2>1, <1>1, <1>4, <1>7 DEF x
  <2>2. CASE j # k
    <3>1. j \in 1 .. k - 1
      BY <2>2, <1>1
    <3> QED  BY <3>1, <1>4, <1>5, <1>7
  <2> QED  BY <2>1, <2>2
<1>9. b = Append(a, x)
  BY <1>4, <1>7, <1>8, SameSequence
<1> QED  BY <1>5, <1>6, <1>9 DEF a, b, x, E

\* The chains, one after the other, are what the frames own, one after the other.
LEMMA OneTale ==
  ASSUME NEW fs \in Seq(FrameType), NEW cs, NEW g, Tale(g, fs, cs),
         \A k \in 1 .. Len(fs) : fs[k].phase = "task" => fs[k].kind = "loop"
  PROVE  FlattenSeq(Origins(cs)) = <<<<0, "base">>>> \o FlattenSeq(AllOwned(fs, Len(fs)))
<1> DEFINE n == Len(fs)
           base == <<0, "base">>
           one == <<base>>
           P == {k \in 0 .. n :
                   /\ FlattenSeq(g[k]) = one \o FlattenSeq(AllOwned(fs, k))
                   /\ FlattenSeq(AllOwned(fs, k)) \in Seq(Entry)}
<1>1. n \in Nat /\ base \in Entry /\ one \in Seq(Entry)
  BY DEF Entry, Role
<1>2. /\ g[0] = <<one>> /\ \A k \in 0 .. n : g[k] \in Stacks
      /\ \A k \in 1 .. n : g[k] = Told(fs[k], k, g[k - 1])
      /\ Origins(cs) = g[n]
  BY DEF Tale
<1> HIDE DEF base, one
<1>3. 0 \in P
  <2>1. AllOwned(fs, 0) = <<>>
    BY DEF AllOwned
  <2>2. FlattenSeq(<<>>) = <<>> /\ <<>> \in Seq(Entry)
    BY DEF FlattenSeq
  <2>3. FlattenSeq(<<one>>) = one
    <3> DEFINE none == <<>>
    <3>1. none \in Seq(Seq(Entry)) /\ FlattenSeq(none) = none /\ Append(none, one) = <<one>>
          /\ none \o one = one
      BY <2>2, <1>1
    <3> HIDE DEF none
    <3>2. FlattenSeq(Append(none, one)) = FlattenSeq(none) \o one
      BY <3>1, <1>1, FlattenAppend
    <3> QED  BY <3>1, <3>2
  <2>4. one \o <<>> = one
    BY <1>1
  <2>5. 0 \in 0 .. n
    BY <1>1
  <2> QED  BY <1>2, <2>1, <2>2, <2>3, <2>4, <2>5
<1>4. ASSUME NEW k \in 1 .. n, k - 1 \in P PROVE k \in P
  <2> DEFINE G == g[k - 1]
             x == Owned(fs[k], k)
             a == AllOwned(fs, k - 1)
             A == FlattenSeq(a)
  <2>1. /\ G \in Stacks /\ g[k] = Told(fs[k], k, G) /\ k \in 0 .. n
        /\ FlattenSeq(G) = one \o A /\ A \in Seq(Entry)
    BY <1>1, <1>2, <1>4
  <2>2. a \in Seq(Seq(Entry)) /\ x \in Seq(Entry) /\ AllOwned(fs, k) = Append(a, x)
    BY AllOwnedIs
  <2>3. FlattenSeq(AllOwned(fs, k)) = A \o x
    <3> HIDE DEF a, x
    <3> QED  BY <2>2, FlattenAppend
  <2>4. FlattenSeq(g[k]) = FlattenSeq(G) \o x
    <3>1. CASE fs[k].phase = "task"
      <4>1. x = <<>> /\ g[k] = Append(G, <<>>)
        BY <3>1, <2>1 DEF Told, Owned
      <4> DEFINE none == <<>>
      <4>2. none \in Seq(Entry) /\ G \in Seq(Seq(Entry))
        BY <2>1 DEF Stacks
      <4> HIDE DEF none, G
      <4>3. FlattenSeq(Append(G, none)) = FlattenSeq(G) \o none
        BY <4>2, FlattenAppend
      <4> QED  BY <4>1, <4>3 DEF none
    <3>2. CASE fs[k].phase # "task"
      <4>1. g[k] = Push(G, x)
        BY <3>2, <2>1 DEF Told
      <4> HIDE DEF G, x
      <4> QED  BY <4>1, <2>1, <2>2, FlattenPush
    <3> QED  BY <3>1, <3>2
  <2> HIDE DEF G, x, a, A
  <2>5. (one \o A) \o x = one \o (A \o x) /\ A \o x \in Seq(Entry)
    BY <1>1, <2>1, <2>2, Associative, Joined, SMTT(30)
  <2> QED  BY <2>1, <2>3, <2>4, <2>5
<1>5. n \in P
  <2> HIDE DEF P
  <2>1. \A k \in 0 .. n : k \in P
    BY <1>1, <1>3, <1>4, UpTo
  <2> QED  BY <2>1, <1>1
<1>6. FlattenSeq(g[n]) = one \o FlattenSeq(AllOwned(fs, n))
  BY <1>5
<1> QED  BY <1>2, <1>6 DEF one, base

LEMMA TryInvMatches == TryInv => HandlersMatchFrames
<1> SUFFICES ASSUME TryInv, outcome = "running"
             PROVE  FlattenSeq([i \in DOMAIN chains |->
                        [j \in DOMAIN chains[i] |-> <<chains[i][j].frame, chains[i][j].role>>]])
                      = <<<<0, "base">>>> \o FlattenSeq([k \in DOMAIN frames |-> OwnedBy(k)])
  BY DEF HandlersMatchFrames
<1>1. FramesInv /\ frames \in Seq(FrameType)
  BY TypesAre DEF TryInv, Types
<1>2. PICK g : Tale(g, frames, chains)
  BY DEF TryInv
<1>3. \A k \in 1 .. Len(frames) : frames[k].phase = "task" => frames[k].kind = "loop"
  BY <1>1 DEF FramesInv, Fits
<1>4. FlattenSeq(Origins(chains)) = <<<<0, "base">>>> \o FlattenSeq(AllOwned(frames, Len(frames)))
  BY <1>1, <1>2, <1>3, OneTale
<1>5. AllOwned(frames, Len(frames)) = [k \in DOMAIN frames |-> OwnedBy(k)]
  <2>1. DOMAIN frames = 1 .. Len(frames)
    BY <1>1
  <2>2. \A k \in DOMAIN frames : Owned(frames[k], k) = OwnedBy(k)
    BY DEF Owned, OwnedBy
  <2> QED  BY <2>1, <2>2 DEF AllOwned
<1>6. Origins(chains) = [i \in DOMAIN chains |->
                           [j \in DOMAIN chains[i] |-> <<chains[i][j].frame, chains[i][j].role>>]]
  BY DEF Origins, Origin
<1> QED  BY <1>4, <1>5, <1>6

\* The chain of handlers and the frames tell the same story: what is pushed and
\* popped by snow_begin_try, snow_try_catch_ensure, the compiled code and the tasks
\* is, at each step, what the trys that are open will pop.
THEOREM HandlersMatch ==
  ASSUME ExceptionsAssumption, NoReturns
  PROVE  ExceptionsSpec => []HandlersMatchFrames
<1>1. ExceptionsInit => TryInv
  BY TryInit
<1>2. TryInv /\ [ExceptionsNext]_try_vars => TryInv'
  BY TryNext
<1> QED  BY <1>1, <1>2, TryInvMatches, PTL DEF ExceptionsSpec

\* When every try is left, the only handler is the one there was at first: so
\* it is a function's return from a try, and nothing else, that leaves others.
THEOREM FirstHandlerIsRestored ==
  ASSUME ExceptionsAssumption, NoReturns
  PROVE  ExceptionsSpec => []StartingHandlerIsRestored
<1>1. ASSUME TryInv PROVE StartingHandlerIsRestored
  <2> SUFFICES ASSUME outcome = "running", frames = <<>> PROVE Chain = <<Last(Chain)>>
    BY DEF StartingHandlerIsRestored
  <2>1. PICK g : Tale(g, frames, chains)
    BY <1>1 DEF TryInv
  <2>2. Origins(chains) = <<<<<<0, "base">>>>>>
    <3>1. Len(frames) = 0
      OBVIOUS
    <3> QED  BY <2>1, <3>1 DEF Tale
  <2> DEFINE c == <<<<0, "base">>>>
  <2>3. Len(c) = 1
    OBVIOUS
  <2> HIDE DEF c
  <2>4. Origins(chains) = <<c>>
    BY <2>2 DEF c
  <2>5. chains \in Seq(Seq(HandlerType)) /\ Len(chains) = 1
    BY <1>1, <2>4, TypesAre, OriginsAre DEF TryInv, Types
  <2>6. Chain = chains[1] /\ Chain \in Seq(HandlerType) /\ Origin(chains[1]) = c
    <3> DEFINE E == Seq(HandlerType)
    <3>0. chains \in Seq(E) /\ chains # <<>> /\ Len(chains) = 1
      BY <2>5
    <3> HIDE DEF E
    <3>4. Last(chains) = chains[1] /\ chains[1] \in E
      BY <3>0, FrontLast, ZenonT(60)
    <3>1. Chain = chains[1] /\ chains[1] \in Seq(HandlerType)
      BY <3>4 DEF Chain, E
    <3>2. Origins(chains)[1] = c
      BY <2>4
    <3>3. Origins(chains)[1] = Origin(chains[1])
      BY <2>5, OriginsAre
    <3> QED  BY <3>1, <3>2, <3>3
  <2>7. Chain \in Seq(HandlerType) /\ Len(Chain) = 1
    BY <2>3, <2>6, OriginIs
  <2> QED  BY <2>7 DEF Last
<1>2. ExceptionsInit => TryInv
  BY TryInit
<1>3. TryInv /\ [ExceptionsNext]_try_vars => TryInv'
  BY TryNext
<1> QED  BY <1>1, <1>2, <1>3, PTL DEF ExceptionsSpec

(***************************************************************************)
(* What is thrown again                                                    *)
(***************************************************************************)

\* While an exception is thrown, only the handlers act.
LEMMA OnlyHandling ==
  ASSUME ExceptionsNext, inflight # NoException
  PROVE  Handling
BY DEF ExceptionsNext, Program, Loop, Try, Throw, ParallelForEach, EndTry, EndEnsure,
   EndCallback, EndEnsureCallback, EndTryBlock, EndCondition, Decline, EndCatchBlock, EndEnsureBlock,
   Return, EndTask, PerformTask, CollectExceptionsAndRethrow, InBlock, UserCode

\* Of these, only the one that ends an ensure block with an exception throws one.
LEMMA OnlyResumeThrows ==
  ASSUME Handling, inflight' # NoException, outcome' = "running"
  PROVE  /\ ResumeTry
         /\ frames[Target].phase = "ensure"
         /\ frames' = SubSeq(frames, 1, Target - 1)
<1>1. CASE RunCatchFunc \/ CatchFuncThrew \/ AbortCurrentTask
  BY <1>1 DEF RunCatchFunc, CatchFuncThrew, AbortCurrentTask
<1>2. CASE RunCatchBlock \/ CatchBlockThrew
  BY <1>2 DEF RunCatchBlock, CatchBlockThrew, EnterEnsure, Crash
<1>3. CASE UnhandledException
  BY <1>3 DEF UnhandledException
<1>4. CASE ResumeTry
  <2>1. CASE frames[Target].phase = "ensure"
    BY <1>4, <2>1 DEF ResumeTry, PrepareIteration, FinishResumptions
  <2>2. CASE frames[Target].phase # "ensure"
    BY <1>4, <2>2 DEF ResumeTry, PrepareIteration
  <2> QED  BY <1>4, <2>1, <2>2
<1> QED  BY <1>1, <1>2, <1>3, <1>4 DEF Handling

\* Each time the runtime throws an exception on, or another one in its place,
\* a try has been left for good.
THEOREM EachThrowUnwinds ==
  ASSUME ExceptionsAssumption, NoReturns
  PROVE  ExceptionsSpec => ThrowsUnwind
<1>1. ASSUME TryInv, ExceptionsNext, inflight # NoException, inflight' # NoException,
             outcome' = "running"
      PROVE  Len(frames') < Len(frames)
  <2>1. Handling
    BY <1>1, OnlyHandling
  <2>2. ResumeTry /\ frames' = SubSeq(frames, 1, Target - 1)
    BY <1>1, <2>1, OnlyResumeThrows
  <2>3. Thrown /\ Chain # <<>> /\ Last(Chain).role = "resume" /\ outcome = "running"
    BY <2>2 DEF ResumeTry, ThrownTo, Thrown
  <2>4. Types /\ FramesInv
    BY <1>1, <2>3, TypesAre DEF TryInv
  <2>5. PICK g : Tale(g, frames, chains)
    BY <1>1, <2>3 DEF TryInv
  <2>6. Target \in 0 .. Len(frames) /\ Target # 0
    BY <2>3, <2>4, <2>5, Catcher
  <2>7. frames \in Seq(FrameType) /\ Len(frames) \in Nat
    BY <2>4 DEF Types
  <2>8. Len(SubSeq(frames, 1, Target - 1)) = Target - 1
    BY <2>6, <2>7
  <2> QED  BY <2>2, <2>6, <2>7, <2>8
<1>2. ASSUME TryInv, [ExceptionsNext]_try_vars
      PROVE  [inflight # NoException /\ inflight' # NoException /\ outcome' = "running"
                => Len(frames') < Len(frames)]_<<frames, chains, inflight>>
  BY <1>1, <1>2 DEF try_vars
<1>3. ExceptionsInit => TryInv
  BY TryInit
<1>4. TryInv /\ [ExceptionsNext]_try_vars => TryInv'
  BY TryNext
<1> QED  BY <1>2, <1>3, <1>4, PTL DEF ExceptionsSpec, ThrowsUnwind

(***************************************************************************)
(* What the trys promise                                                   *)
(***************************************************************************)

\* What TryCatchEnsure sees of a frame, and of the stack.
Seen(f) == [phase |-> AbstractPhase(f.phase), catch |-> f.catch, held |-> f.held]
Open(fs) == [k \in DOMAIN fs |-> Seen(fs[k])]
Shown == {Seen(f) : f \in FrameType}

LEMMA OpenIs ==
  ASSUME NEW fs \in Seq(FrameType)
  PROVE  /\ Open(fs) \in Seq(Shown) /\ Len(Open(fs)) = Len(fs)
         /\ \A k \in 1 .. Len(fs) : Open(fs)[k] = Seen(fs[k])
<1>1. DOMAIN fs = 1 .. Len(fs) /\ Len(fs) \in Nat
  OBVIOUS
<1>2. \A k \in 1 .. Len(fs) : Seen(fs[k]) \in Shown
  BY DEF Shown
<1> QED  BY <1>1, <1>2 DEF Open

LEMMA OpenCut ==
  ASSUME NEW fs \in Seq(FrameType), NEW k \in 0 .. Len(fs)
  PROVE  /\ SubSeq(fs, 1, k) \in Seq(FrameType) /\ Len(SubSeq(fs, 1, k)) = k
         /\ Open(SubSeq(fs, 1, k)) = SubSeq(Open(fs), 1, k)
         /\ SubSeq(Open(fs), 1, k) \in Seq(Shown)
<1> DEFINE gs == SubSeq(fs, 1, k)
           o == SubSeq(Open(fs), 1, k)
<1>1. gs \in Seq(FrameType) /\ Len(gs) = k /\ \A j \in 1 .. k : gs[j] = fs[j]
  OBVIOUS
<1>2. Open(fs) \in Seq(Shown) /\ Len(Open(fs)) = Len(fs) /\ Len(fs) \in Nat
  BY OpenIs
<1>3. o \in Seq(Shown) /\ Len(o) = k /\ \A j \in 1 .. k : o[j] = Open(fs)[j]
  BY <1>2
<1> HIDE DEF gs, o
<1>4. Open(gs) \in Seq(Shown) /\ Len(Open(gs)) = k
  BY <1>1, OpenIs
<1>5. ASSUME NEW j \in 1 .. k PROVE Open(gs)[j] = o[j]
  BY <1>1, <1>3, OpenIs
<1>6. Open(gs) = o
  BY <1>3, <1>4, <1>5, SameSequence
<1> QED  BY <1>1, <1>3, <1>6 DEF gs, o

LEMMA OpenAppend ==
  ASSUME NEW fs \in Seq(FrameType), NEW f \in FrameType
  PROVE  Open(Append(fs, f)) = Append(Open(fs), Seen(f))
<1> DEFINE gs == Append(fs, f)
           o == Append(Open(fs), Seen(f))
<1>1. gs \in Seq(FrameType) /\ Len(gs) = Len(fs) + 1 /\ gs[Len(fs) + 1] = f /\ Len(fs) \in Nat
      /\ \A j \in 1 .. Len(fs) : gs[j] = fs[j]
  BY Appended
<1>2. Open(fs) \in Seq(Shown) /\ Len(Open(fs)) = Len(fs) /\ Seen(f) \in Shown
  BY OpenIs DEF Shown
<1>3. o \in Seq(Shown) /\ Len(o) = Len(fs) + 1 /\ o[Len(fs) + 1] = Seen(f)
      /\ \A j \in 1 .. Len(fs) : o[j] = Open(fs)[j]
  <2> DEFINE s == Seen(f)
             p == Open(fs)
  <2> HIDE DEF s, p
  <2>1. p \in Seq(Shown) /\ s \in Shown /\ Len(p) = Len(fs)
    BY <1>2 DEF s, p
  <2>2. Append(p, s) \in Seq(Shown) /\ Len(Append(p, s)) = Len(fs) + 1 /\ Append(p, s)[Len(fs) + 1] = s
        /\ \A j \in 1 .. Len(fs) : Append(p, s)[j] = p[j]
    BY <2>1, Appended
  <2> QED  BY <2>2 DEF s, p
<1> HIDE DEF gs, o
<1>4. Open(gs) \in Seq(Shown) /\ Len(Open(gs)) = Len(fs) + 1
  BY <1>1, OpenIs
<1>5. ASSUME NEW j \in 1 .. Len(fs) + 1 PROVE Open(gs)[j] = o[j]
  <2>1. Open(gs)[j] = Seen(gs[j])
    BY <1>1, OpenIs
  <2>2. CASE j = Len(fs) + 1
    BY <2>1, <2>2, <1>1, <1>3
  <2>3. CASE j # Len(fs) + 1
    <3>1. j \in 1 .. Len(fs)
      BY <2>3, <1>1
    <3> QED  BY <2>1, <3>1, <1>1, <1>3, OpenIs
  <2> QED  BY <2>2, <2>3
<1>6. Open(gs) = o
  BY <1>3, <1>4, <1>5, SameSequence
<1> QED  BY <1>6 DEF gs, o

LEMMA OpenGrown ==
  ASSUME NEW fs \in Seq(FrameType), NEW k \in 1 .. Len(fs) + 1, NEW f \in FrameType
  PROVE  Open(Append(SubSeq(fs, 1, k - 1), f)) = Append(SubSeq(Open(fs), 1, k - 1), Seen(f))
<1>1. k - 1 \in 0 .. Len(fs)
  OBVIOUS
<1> DEFINE gs == SubSeq(fs, 1, k - 1)
<1>2. gs \in Seq(FrameType) /\ Open(gs) = SubSeq(Open(fs), 1, k - 1)
  BY <1>1, OpenCut
<1> HIDE DEF gs
<1>3. Open(Append(gs, f)) = Append(Open(gs), Seen(f))
  BY <1>2, OpenAppend
<1> QED  BY <1>2, <1>3 DEF gs

\* Above frame k there are only ensure blocks, which a throw gives up.
Quiet(k) == \A i \in k + 1 .. Len(frames) : frames[i].phase = "ensure"

LEMMA QuietIs ==
  ASSUME frames \in Seq(FrameType), NEW k \in Nat, Quiet(k)
  PROVE  \A i \in k + 1 .. Len(Open(frames)) : Open(frames)[i].phase = "ensure"
<1> SUFFICES ASSUME NEW i \in k + 1 .. Len(Open(frames)) PROVE Open(frames)[i].phase = "ensure"
  OBVIOUS
<1>1. Len(Open(frames)) = Len(frames) /\ Len(frames) \in Nat
  BY OpenIs
<1>2. i \in 1 .. Len(frames) /\ i \in k + 1 .. Len(frames)
  BY <1>1
<1>3. Open(frames)[i] = Seen(frames[i]) /\ frames[i].phase = "ensure"
  BY <1>2, OpenIs DEF Quiet
<1> QED  BY <1>3 DEF Seen, AbstractPhase

\* The exception arrives at frame k.
LEMMA Landed ==
  ASSUME frames \in Seq(FrameType), inflight # NoException, inflight' = NoException, outcome' = outcome,
         NEW k \in 1 .. Len(frames), Quiet(k), NEW f \in FrameType, f.catch = frames[k].catch,
         frames' = Append(SubSeq(frames, 1, k - 1), f),
         \/ /\ frames[k].phase = "try" /\ frames[k].catch # "never"
            /\ f.phase \in {"condition", "catch"} /\ f.held = <<inflight>>
         \/ /\ frames[k].phase = "try" /\ frames[k].catch = "never"
            /\ f.phase = "ensure" /\ f.held = <<inflight>>
         \/ /\ frames[k].phase \in {"condition", "catch"}
            /\ f.phase = "ensure" /\ f.held = <<inflight>>
         \/ /\ frames[k].phase = "task"
            /\ f.phase = "between" /\ f.held = Append(frames[k].held, inflight)
  PROVE  Promise!Land
<1> DEFINE caught == <<inflight>>
           more == Append(frames[k].held, inflight)
           s == Open(frames)[k]
           To(phase, held) ==
             Open(frames') = Append(SubSeq(Open(frames), 1, k - 1),
                                    [phase |-> phase, catch |-> s.catch, held |-> held])
<1>1. k \in 1 .. Len(Open(frames)) /\ k \in Nat /\ k \in 1 .. Len(frames) + 1
  BY OpenIs
<1>2. s = Seen(frames[k])
  BY OpenIs
<1>3. Open(frames') = Append(SubSeq(Open(frames), 1, k - 1), Seen(f))
  BY <1>1, OpenGrown
<1>4. \A i \in k + 1 .. Len(Open(frames)) : Open(frames)[i].phase = "ensure"
  BY <1>1, QuietIs
<1>5. s.catch = frames[k].catch /\ s.held = frames[k].held /\ s.phase = AbstractPhase(frames[k].phase)
  BY <1>2 DEF Seen
<1>6. Seen(f) = [phase |-> AbstractPhase(f.phase), catch |-> s.catch, held |-> f.held]
  BY <1>5 DEF Seen
<1>7. To(AbstractPhase(f.phase), f.held)
  BY <1>3, <1>6
<1> HIDE DEF s, To, caught, more
<1>8. \/ s.phase = "try" /\ s.catch # "never" /\ To("catch", caught)
      \/ s.phase = "try" /\ s.catch = "never" /\ To("ensure", caught)
      \/ s.phase = "catch" /\ To("ensure", caught)
      \/ s.phase = "tasks" /\ To("tasks", Append(s.held, inflight))
  BY <1>5, <1>7 DEF AbstractPhase, caught
<1> QED  BY <1>1, <1>4, <1>8 DEF s, To, caught, Open, Seen, Promise!Land, Promise!Abandoned, Promise!Frame

LEMMA Abandons ==
  ASSUME frames \in Seq(FrameType), inflight # NoException, inflight' = inflight, outcome' = outcome,
         NEW k \in 0 .. Len(frames) - 1, Quiet(k), frames' = SubSeq(frames, 1, k)
  PROVE  Promise!Abandon
<1>1. k \in 0 .. Len(Open(frames)) - 1 /\ k \in Nat /\ k \in 0 .. Len(frames)
  BY OpenIs
<1>2. Open(frames') = SubSeq(Open(frames), 1, k)
  BY <1>1, OpenCut
<1>3. \A i \in k + 1 .. Len(Open(frames)) : Open(frames)[i].phase = "ensure"
  BY <1>1, QuietIs
<1> QED  BY <1>1, <1>2, <1>3 DEF Open, Seen, Promise!Abandon, Promise!Abandoned

LEMMA Fails ==
  ASSUME frames \in Seq(FrameType), inflight # NoException, inflight' = inflight,
         outcome = "running", outcome' # "running", Quiet(0), frames' = <<>>
  PROVE  Promise!Fail
<1>1. Open(frames') = <<>>
  BY DEF Open
<1>2. \A i \in 0 + 1 .. Len(Open(frames)) : Open(frames)[i].phase = "ensure"
  BY QuietIs
<1> QED  BY <1>1, <1>2 DEF Open, Seen, Promise!Fail, Promise!Abandoned

\* The frame at the top enters another phase, or is left.
LEMMA TopShown ==
  ASSUME frames \in Seq(FrameType), frames # <<>>
  PROVE  LET n == Len(frames) IN
         /\ n \in 1 .. Len(frames) /\ n \in Nat /\ Open(frames) # <<>>
         /\ Last(Open(frames)) = Seen(frames[n]) /\ Last(frames) = frames[n]
         /\ Front(Open(frames)) = SubSeq(Open(frames), 1, n - 1)
         /\ Open(SubSeq(frames, 1, n - 1)) = Front(Open(frames))
         /\ \A f \in FrameType :
              Open(Append(SubSeq(frames, 1, n - 1), f)) = Append(Front(Open(frames)), Seen(f))
<1> DEFINE n == Len(frames)
<1>1. n \in 1 .. n /\ n \in Nat /\ n \in 1 .. n + 1 /\ n - 1 \in 0 .. n
  OBVIOUS
<1>2. Open(frames) \in Seq(Shown) /\ Len(Open(frames)) = n /\ Open(frames)[n] = Seen(frames[n])
  BY <1>1, OpenIs
<1>3. Open(frames) # <<>>
  BY <1>1, <1>2
<1>4. Last(Open(frames)) = Seen(frames[n]) /\ Front(Open(frames)) = SubSeq(Open(frames), 1, n - 1)
  BY <1>2 DEF Last, Front
<1>5. Open(SubSeq(frames, 1, n - 1)) = Front(Open(frames))
  BY <1>1, <1>4, OpenCut
<1>6. ASSUME NEW f \in FrameType
      PROVE  Open(Append(SubSeq(frames, 1, n - 1), f)) = Append(Front(Open(frames)), Seen(f))
  BY <1>1, <1>4, OpenGrown
<1> QED  BY <1>1, <1>3, <1>4, <1>5, <1>6 DEF Last

LEMMA Leaves ==
  ASSUME frames \in Seq(FrameType), frames # <<>>, inflight = NoException, outcome = "running",
         frames[Len(frames)].phase \in {"try", "condition", "catch"},
         NEW f \in FrameType, f.phase = "ensure", f.catch = frames[Len(frames)].catch,
         frames' = Append(SubSeq(frames, 1, Len(frames) - 1), f),
         inflight' = inflight, outcome' = outcome
  PROVE  /\ f.held = <<>> => Promise!Leave
         /\ /\ frames[Len(frames)].phase = "condition" /\ f.catch = "condition"
            /\ f.held = frames[Len(frames)].held
            => Promise!Decline
<1> DEFINE s == Seen(frames[Len(frames)])
           o == Open(frames)
           none == <<>>
<1>1. o # none /\ Last(o) = s /\ Open(frames') = Append(Front(o), Seen(f))
  BY TopShown
<1>2. /\ s.catch = f.catch /\ s.held = frames[Len(frames)].held
      /\ s.phase = AbstractPhase(frames[Len(frames)].phase)
  BY DEF Seen
<1>3. Seen(f) = [phase |-> "ensure", catch |-> Last(o).catch, held |-> f.held]
  BY <1>1, <1>2 DEF Seen, AbstractPhase
<1>4. s.phase \in {"try", "catch"} /\ (frames[Len(frames)].phase = "condition" => s.phase = "catch")
  BY <1>2 DEF AbstractPhase
<1> HIDE DEF s, o, none
<1>5. ASSUME f.held = none PROVE Promise!Leave
  <2>1. Open(frames') = Append(Front(o), [phase |-> "ensure", catch |-> Last(o).catch, held |-> none])
    BY <1>1, <1>3, <1>5
  <2>2. Last(o).phase \in {"try", "catch"}
    BY <1>1, <1>4
  <2> QED  BY <1>1, <2>1, <2>2
           DEF o, none, Open, Seen, Last, Front, Promise!Last, Promise!Front, Promise!Leave,
                 Promise!User, Promise!InPhase, Promise!Enter, Promise!Frame
<1>6. ASSUME frames[Len(frames)].phase = "condition", f.catch = "condition",
             f.held = frames[Len(frames)].held
      PROVE  Promise!Decline
  <2>1. Open(frames') = Append(Front(o), [phase |-> "ensure", catch |-> Last(o).catch, held |-> Last(o).held])
    BY <1>1, <1>2, <1>3, <1>6
  <2>2. Last(o).phase \in {"catch"} /\ Last(o).catch = "condition"
    BY <1>1, <1>2, <1>4, <1>6
  <2> QED  BY <1>1, <2>1, <2>2
           DEF o, none, Open, Seen, Last, Front, Promise!Last, Promise!Front, Promise!Decline,
                 Promise!User, Promise!InPhase, Promise!Enter, Promise!Frame
<1> QED  BY <1>5, <1>6 DEF none

LEMMA Finishes ==
  ASSUME frames \in Seq(FrameType), frames # <<>>, inflight = NoException, outcome = "running",
         frames[Len(frames)].phase \in {"ensure", "between"},
         frames' = SubSeq(frames, 1, Len(frames) - 1), outcome' = outcome
  PROVE  /\ inflight' = Collected(frames[Len(frames)].held) => Promise!Finish
         /\ frames[Len(frames)].phase = "ensure" /\ inflight' = inflight => Promise!Return
<1> DEFINE s == Seen(frames[Len(frames)])
           o == Open(frames)
           none == <<>>
<1>1. o # none /\ Last(o) = s /\ Open(frames') = Front(o)
  BY TopShown
<1>2. s.held = frames[Len(frames)].held /\ s.phase = AbstractPhase(frames[Len(frames)].phase)
  BY DEF Seen
<1>3. s.phase \in {"ensure", "tasks"} /\ (frames[Len(frames)].phase = "ensure" => s.phase = "ensure")
  BY <1>2 DEF AbstractPhase
<1> HIDE DEF s, o
<1>4. ASSUME inflight' = Collected(frames[Len(frames)].held) PROVE Promise!Finish
  <2>1. inflight' = IF Last(o).held = <<>> THEN NoException
                    ELSE IF Len(Last(o).held) = 1 THEN Last(o).held[1] ELSE Many
    BY <1>1, <1>2, <1>4 DEF Collected
  <2>2. Last(o).phase \in {"ensure", "tasks"}
    BY <1>1, <1>3
  <2> QED  BY <1>1, <2>1, <2>2 DEF o, Open, Seen, Last, Front, Promise!Last, Promise!Front,
                 Promise!Finish, Promise!User, Promise!InPhase
<1>5. ASSUME frames[Len(frames)].phase = "ensure", inflight' = inflight PROVE Promise!Return
  <2>1. Last(o).phase \in {"ensure"}
    BY <1>1, <1>3, <1>5
  <2> QED  BY <1>1, <1>5, <2>1 DEF o, Open, Seen, Last, Front, Promise!Last, Promise!Front,
                 Promise!Return, Promise!User, Promise!InPhase
<1> QED  BY <1>4, <1>5

LEMMA Begins ==
  ASSUME frames \in Seq(FrameType), inflight = NoException, outcome = "running",
         NEW f \in FrameType, frames' = Append(frames, f), f.held = <<>>,
         inflight' = inflight, outcome' = outcome
  PROVE  /\ f.phase = "try" => Promise!Try(f.catch)
         /\ f.phase = "between" /\ f.catch = "never" => Promise!Tasks
<1> DEFINE o == Open(frames)
           none == <<>>
<1>1. Open(frames') = Append(o, Seen(f))
  BY OpenAppend
<1>2. Seen(f) = [phase |-> AbstractPhase(f.phase), catch |-> f.catch, held |-> none]
  BY DEF Seen
<1> HIDE DEF o, none
<1>3. ASSUME f.phase = "try" PROVE Promise!Try(f.catch)
  <2>1. Open(frames') = Append(o, [phase |-> "try", catch |-> f.catch, held |-> none])
    BY <1>1, <1>2, <1>3 DEF AbstractPhase
  <2> QED  BY <2>1 DEF o, none, Open, Seen, Promise!Try, Promise!User, Promise!Frame
<1>4. ASSUME f.phase = "between", f.catch = "never" PROVE Promise!Tasks
  <2>1. Open(frames') = Append(o, [phase |-> "tasks", catch |-> "never", held |-> none])
    BY <1>1, <1>2, <1>4 DEF AbstractPhase
  <2> QED  BY <2>1 DEF o, none, Open, Seen, Promise!Tasks, Promise!User, Promise!Frame
<1> QED  BY <1>3, <1>4

\* Nothing of it shows.
LEMMA Unseen ==
  ASSUME frames \in Seq(FrameType), inflight' = inflight, outcome' = outcome,
         \/ frames' = frames
         \/ /\ frames # <<>>
            /\ \E f \in FrameType : /\ frames' = Append(SubSeq(frames, 1, Len(frames) - 1), f)
                                    /\ Seen(f) = Seen(frames[Len(frames)])
  PROVE  UNCHANGED Promise!promiseVars
<1>1. Open(frames') = Open(frames)
  <2>1. CASE frames' = frames
    BY <2>1
  <2>2. ASSUME frames # <<>>, NEW f \in FrameType,
               frames' = Append(SubSeq(frames, 1, Len(frames) - 1), f),
               Seen(f) = Seen(frames[Len(frames)])
        PROVE  Open(frames') = Open(frames)
    <3> DEFINE o == Open(frames)
    <3>1. Open(frames') = Append(Front(o), Last(o)) /\ o # <<>>
      BY <2>2, TopShown
    <3>2. o \in Seq(Shown)
      BY OpenIs
    <3> HIDE DEF o
    <3>3. Open(frames') = o
      BY <3>1, <3>2, Rebuilt
    <3> QED  BY <3>3 DEF o
  <2> QED  BY <2>1, <2>2
<1> QED  BY <1>1 DEF Open, Seen, Promise!promiseVars

(***************************************************************************)
(* What a declined condition relies on: while a condition is evaluated,    *)
(* the handler that guards its catch block keeps the exception that was    *)
(* caught.  The code at the label "ensure" writes to the handler that      *)
(* becomes current; Based says that it is there, and that it is not one of *)
(* these.                                                                  *)
(***************************************************************************)

\* No compiled try is the outermost one of a task, no function returns from a
\* try, and in a program whose catch blocks have conditions no compiled try
\* begins while the current handler has an exception.
Promising ==
  \A p \in TryPrograms :
    "task" \notin p /\ "return" \notin p /\ ~("nested" \in p /\ "condition" \in p)

\* The handlers of all tasks.
Handlers(cs) == UNION {Range(cs[i]) : i \in DOMAIN cs}
Evaluated(h) == h.role = "catch" /\ h.frame \in 1 .. Len(frames) /\ frames[h.frame].phase = "condition"

\* The end of the chain L, on which frame k was opened.
Based(L, k) ==
  /\ L # <<>> /\ Last(L)[1] < k
  /\ Last(L)[2] = "catch" /\ Last(L)[1] \in 1 .. Len(frames)
       => frames[Last(L)[1]].phase # "condition"

Recorded(g) ==
  /\ \A k \in 1 .. Len(frames) :
       /\ frames[k].kind = "compiled" => Based(Last(g[k - 1]), k)
       /\ frames[k].catch = "condition" => In("condition")
  /\ \A h \in Handlers(chains) : Evaluated(h) => frames[h.frame].held = <<h.exception>>

\* Where the handlers of a step come from.
LEMMA ChainHandlers ==
  ASSUME Types, chains # <<>>
  PROVE  Range(Chain) \subseteq Handlers(chains)
<1>1. DOMAIN chains = 1 .. Len(chains) /\ Len(chains) \in 1 .. Len(chains) /\ Chain = chains[Len(chains)]
  BY DEF Types, Chain, Last
<1> QED  BY <1>1 DEF Handlers

LEMMA FrontHandlers ==
  ASSUME NEW cs \in Seq(Seq(HandlerType)), cs # <<>>
  PROVE  Handlers(Front(cs)) \subseteq Handlers(cs)
<1>1. /\ Len(cs) \in Nat \ {0} /\ Front(cs) \in Seq(Seq(HandlerType)) /\ Len(Front(cs)) = Len(cs) - 1
      /\ \A i \in 1 .. Len(cs) - 1 : Front(cs)[i] = cs[i]
  BY FrontLast
<1>2. DOMAIN cs = 1 .. Len(cs) /\ DOMAIN Front(cs) = 1 .. Len(cs) - 1
  BY <1>1
<1>3. ASSUME NEW i \in DOMAIN Front(cs) PROVE i \in DOMAIN cs /\ Front(cs)[i] = cs[i]
  BY <1>1, <1>2
<1> QED  BY <1>3, Zenon DEF Handlers

LEMMA AppendHandlers ==
  ASSUME NEW cs \in Seq(Seq(HandlerType)), NEW d \in Seq(HandlerType)
  PROVE  \A h \in Handlers(Append(cs, d)) : h \in Handlers(cs) \/ h \in Range(d)
<1> DEFINE ds == Append(cs, d)
<1>1. /\ ds \in Seq(Seq(HandlerType)) /\ Len(ds) = Len(cs) + 1 /\ Len(cs) \in Nat
      /\ ds[Len(cs) + 1] = d /\ \A i \in 1 .. Len(cs) : ds[i] = cs[i]
  BY Appended
<1> HIDE DEF ds
<1>2. DOMAIN cs = 1 .. Len(cs) /\ DOMAIN ds = 1 .. Len(cs) + 1
  BY <1>1
<1>3. ASSUME NEW i \in DOMAIN ds PROVE ds[i] = d \/ (i \in DOMAIN cs /\ ds[i] = cs[i])
  BY <1>1, <1>2
<1>4. \A h \in Handlers(ds) : h \in Handlers(cs) \/ h \in Range(d)
  BY <1>3 DEF Handlers
<1> QED  BY <1>4 DEF ds

\* A step keeps the handlers that guard a condition, and their frames.
Kept ==
  \A k \in 1 .. Len(frames') :
    frames'[k].phase = "condition" => k \in 1 .. Len(frames) /\ frames'[k] = frames[k]
Carried == \A h \in Handlers(chains') : Evaluated(h) => h \in Handlers(chains)
Remembered == \A h \in Handlers(chains) : Evaluated(h) => frames[h.frame].held = <<h.exception>>

LEMMA Remembering ==
  ASSUME Kept, Carried, Remembered
  PROVE  Remembered'
<1> SUFFICES ASSUME NEW h \in Handlers(chains'), h.role = "catch", h.frame \in 1 .. Len(frames'),
                    frames'[h.frame].phase = "condition"
             PROVE  frames'[h.frame].held = <<h.exception>>
  BY DEF Remembered, Evaluated
<1>1. h.frame \in 1 .. Len(frames) /\ frames'[h.frame] = frames[h.frame]
  BY DEF Kept
<1>2. h \in Handlers(chains) /\ Evaluated(h)
  BY <1>1 DEF Carried, Evaluated
<1> QED  BY <1>1, <1>2 DEF Remembered

LEMMA KeptEntering ==
  ASSUME frames \in Seq(FrameType), NEW k \in 1 .. Len(frames) + 1, NEW f \in FrameType, f.phase # "condition",
         frames' = Append(SubSeq(frames, 1, k - 1), f)
  PROVE  Kept
<1>1. k - 1 \in 0 .. Len(frames) /\ Len(frames) \in Nat
  OBVIOUS
<1>2. /\ Len(frames') = k /\ frames'[k] = f
      /\ \A j \in 1 .. k - 1 : j \in 1 .. Len(frames) /\ frames'[j] = frames[j]
  BY <1>1
<1> QED  BY <1>1, <1>2 DEF Kept

LEMMA KeptLeaving ==
  ASSUME frames \in Seq(FrameType), NEW k \in 0 .. Len(frames), frames' = SubSeq(frames, 1, k)
  PROVE  Kept
<1>1. Len(frames') = k /\ \A j \in 1 .. k : j \in 1 .. Len(frames) /\ frames'[j] = frames[j]
  OBVIOUS
<1> QED  BY <1>1 DEF Kept

LEMMA CarriedBy ==
  ASSUME Types, chains # <<>>, NEW d \in Seq(HandlerType), chains' = WithChain(d),
         \A h \in Range(d) : h \in Range(Chain) \/ ~Evaluated(h)
  PROVE  Carried
<1>1. Front(chains) \in Seq(Seq(HandlerType)) /\ chains \in Seq(Seq(HandlerType))
  BY FrontLast DEF Types
<1> SUFFICES ASSUME NEW h \in Handlers(chains'), Evaluated(h) PROVE h \in Handlers(chains)
  BY DEF Carried
<1>2. h \in Handlers(Front(chains)) \/ h \in Range(d)
  BY <1>1, AppendHandlers DEF WithChain
<1> QED  BY <1>1, <1>2, FrontHandlers, ChainHandlers

\* A frame's handlers are above those of the frames below it.
Bounded(G, k) == \A i \in 1 .. Len(G) : \A p \in 1 .. Len(G[i]) : G[i][p][1] <= k

LEMMA BoundedAppend ==
  ASSUME NEW G \in Seq(Seq(Entry)), NEW L \in Seq(Entry), NEW k \in Nat, NEW x \in Seq(Entry),
         Bounded(G, k), \A p \in 1 .. Len(L) : L[p][1] <= k,
         \A p \in 1 .. Len(x) : x[p][1] <= k
  PROVE  Bounded(Append(G, L \o x), k)
<1> DEFINE E == Seq(Entry)
           y == L \o x
           H == Append(G, y)
<1>1. y \in E /\ Len(y) = Len(L) + Len(x) /\ Len(L) \in Nat /\ Len(x) \in Nat
      /\ (\A p \in 1 .. Len(L) : y[p] = L[p]) /\ (\A p \in 1 .. Len(x) : y[Len(L) + p] = x[p])
  BY Joined
<1>2. ASSUME NEW p \in 1 .. Len(y) PROVE y[p][1] <= k
  <2>1. CASE p \in 1 .. Len(L)
    BY <2>1, <1>1
  <2>2. CASE p \notin 1 .. Len(L)
    <3>1. p - Len(L) \in 1 .. Len(x) /\ Len(L) + (p - Len(L)) = p
      BY <2>2, <1>1
    <3> QED  BY <3>1, <1>1
  <2> QED  BY <2>1, <2>2
<1>3. H \in Seq(E) /\ Len(H) = Len(G) + 1 /\ H[Len(G) + 1] = y /\ Len(G) \in Nat
      /\ \A i \in 1 .. Len(G) : H[i] = G[i]
  <2> HIDE DEF y
  <2> QED  BY <1>1, Appended
<1> HIDE DEF y, H
<1>4. ASSUME NEW i \in 1 .. Len(H), NEW p \in 1 .. Len(H[i]) PROVE H[i][p][1] <= k
  <2>1. CASE i = Len(G) + 1
    BY <2>1, <1>2, <1>3
  <2>2. CASE i # Len(G) + 1
    <3>1. i \in 1 .. Len(G)
      BY <2>2, <1>3
    <3> QED  BY <3>1, <1>3, <1>4 DEF Bounded
  <2> QED  BY <2>1, <2>2
<1> QED  BY <1>4 DEF Bounded, H, y

LEMMA BoundedPush ==
  ASSUME NEW G \in Stacks, NEW k \in Nat, NEW x \in Seq(Entry), Bounded(G, k),
         \A p \in 1 .. Len(x) : x[p][1] <= k
  PROVE  Bounded(Push(G, x), k)
<1> DEFINE E == Seq(Entry)
           L == Last(G)
           F == Front(G)
<1>1. /\ Len(G) \in Nat \ {0} /\ F \in Seq(E) /\ Len(F) = Len(G) - 1
      /\ \A i \in 1 .. Len(G) - 1 : F[i] = G[i]
      /\ L \in E /\ L = G[Len(G)]
  <2>1. G \in Seq(E) /\ G # <<>>
    BY DEF Stacks
  <2> HIDE DEF E
  <2> QED  BY <2>1, FrontLast
<1>2. Len(G) \in 1 .. Len(G) /\ \A i \in 1 .. Len(F) : i \in 1 .. Len(G) /\ F[i] = G[i]
  BY <1>1
<1> HIDE DEF L, F
<1>3. Bounded(F, k) /\ \A p \in 1 .. Len(L) : L[p][1] <= k
  BY <1>1, <1>2 DEF Bounded
<1>4. Bounded(Append(F, L \o x), k)
  BY <1>1, <1>3, BoundedAppend
<1> QED  BY <1>4 DEF Push, F, L

LEMMA BoundedTold ==
  ASSUME NEW G \in Stacks, NEW k \in Nat \ {0}, NEW f \in FrameType, Bounded(G, k - 1)
  PROVE  Bounded(Told(f, k, G), k)
<1> DEFINE own == Owned(f, k)
           none == <<>>
<1>1. Bounded(G, k)
  <2> SUFFICES ASSUME NEW i \in 1 .. Len(G), NEW p \in 1 .. Len(G[i]) PROVE G[i][p][1] <= k
    BY DEF Bounded
  <2>1. G[i] \in Seq(Entry)
    BY DEF Stacks
  <2>2. G[i][p] \in Entry
    BY <2>1
  <2>3. G[i][p][1] <= k - 1 /\ G[i][p][1] \in Nat
    BY <2>2 DEF Bounded, Entry
  <2> QED  BY <2>3
<1>2. CASE f.phase = "task"
  <2>1. G \in Seq(Seq(Entry)) /\ none \in Seq(Entry) /\ none \o none = none
        /\ \A p \in 1 .. Len(none) : none[p][1] <= k
    BY DEF Stacks
  <2> HIDE DEF none
  <2>2. Bounded(Append(G, none \o none), k)
    BY <1>1, <2>1, BoundedAppend
  <2> QED  BY <1>2, <2>1, <2>2 DEF Told, none
<1>3. CASE f.phase # "task"
  <2>1. own \in Seq(Entry) /\ \A p \in 1 .. Len(own) : own[p][1] <= k
    <3>1. own \in Seq(Entry)
      BY OwnedIs
    <3>2. \A p \in 1 .. Len(own) : own[p][1] = k
      <4>1. CASE own = <<>>
        BY <4>1
      <4>2. CASE own = <<<<k, f.kind>>>>
        BY <4>2
      <4>3. CASE \E r \in {"catcher", "catch"} : own = <<<<k, f.kind>>, <<k, r>>>>
        BY <4>3
      <4> QED  BY <4>1, <4>2, <4>3, OwnedIs
    <3> QED  BY <3>1, <3>2
  <2> HIDE DEF own
  <2>2. Bounded(Push(G, own), k)
    BY <1>1, <2>1, BoundedPush
  <2> QED  BY <1>3, <2>2 DEF Told, own
<1> QED  BY <1>2, <1>3

LEMMA TaleBounded ==
  ASSUME NEW fs \in Seq(FrameType), NEW cs, NEW g, Tale(g, fs, cs), NEW k \in 0 .. Len(fs)
  PROVE  Bounded(g[k], k)
<1> DEFINE n == Len(fs)
           P == {j \in 0 .. n : Bounded(g[j], j)}
<1>1. n \in Nat /\ 0 \in 0 .. n
  OBVIOUS
<1>2. 0 \in P
  <2>1. g[0] = <<<<<<0, "base">>>>>>
    BY DEF Tale
  <2> QED  BY <1>1, <2>1 DEF Bounded
<1>3. ASSUME NEW j \in 1 .. n, j - 1 \in P PROVE j \in P
  <2>1. /\ g[j - 1] \in Stacks /\ g[j] = Told(fs[j], j, g[j - 1]) /\ fs[j] \in FrameType
        /\ j \in Nat \ {0} /\ j \in 0 .. n
    BY <1>1, <1>3 DEF Tale
  <2> QED  BY <1>3, <2>1, BoundedTold
<1>4. \A j \in 0 .. n : j \in P
  <2> HIDE DEF P
  <2> QED  BY <1>1, <1>2, <1>3, UpTo
<1> QED  BY <1>4

LEMMA FormerCatches ==
  ASSUME Types, NEW g, Tale(g, frames, chains), NEW k, At(g, k),
         NEW r, r # "catch", Owned(frames[k], k) = <<<<k, r>>>>,
         NEW h \in Handlers(chains), h.role = "catch"
  PROVE  h.frame < k
<1> DEFINE G == g[k - 1]
           F == Front(G)
           L == Last(G)
           e == <<k, r>>
           y == Append(L, e)
           E == Seq(Entry)
<1>1. /\ k \in Nat \ {0} /\ k - 1 \in 0 .. Len(frames) /\ G \in Stacks /\ L \in Seq(Entry) /\ e \in Entry
      /\ Origins(chains) = Push(G, <<e>>)
  BY AtIs, OneHandler DEF At
<1>2. Bounded(G, k - 1)
  BY <1>1, TaleBounded DEF Types
<1>3. y \in Seq(Entry) /\ Len(y) = Len(L) + 1 /\ y[Len(L) + 1] = e /\ Len(L) \in Nat
      /\ (\A p \in 1 .. Len(L) : y[p] = L[p]) /\ L \o <<e>> = y
  <2> HIDE DEF L, e
  <2> QED  BY <1>1, Appended, JoinedOne
<1>4. /\ Len(G) \in Nat \ {0} /\ F \in Seq(E) /\ Len(F) = Len(G) - 1
      /\ \A i \in 1 .. Len(G) - 1 : F[i] = G[i]
      /\ L = G[Len(G)]
  <2>1. G \in Seq(E) /\ G # <<>>
    BY <1>1 DEF Stacks
  <2> HIDE DEF E, G
  <2> QED  BY <2>1, FrontLast
<1>5. Origins(chains) = Append(F, y)
  BY <1>1, <1>3 DEF Push
<1> HIDE DEF G, F, L, y
<1>6. /\ Len(Origins(chains)) = Len(G) /\ Origins(chains)[Len(G)] = y
      /\ \A i \in 1 .. Len(G) - 1 : Origins(chains)[i] = G[i]
  <2>1. y \in E
    BY <1>3
  <2> HIDE DEF E
  <2>2. Len(Append(F, y)) = Len(F) + 1 /\ Append(F, y)[Len(F) + 1] = y
        /\ \A i \in 1 .. Len(F) : Append(F, y)[i] = F[i]
    BY <1>4, <2>1, Appended
  <2>3. Len(F) + 1 = Len(G)
    BY <1>4
  <2> QED  BY <1>4, <1>5, <2>2, <2>3
<1>7. PICK i \in 1 .. Len(chains) : \E p \in 1 .. Len(chains[i]) : h = chains[i][p]
  <2>0. DOMAIN chains = 1 .. Len(chains)
    BY DEF Types
  <2>1. PICK i \in 1 .. Len(chains) : h \in Range(chains[i])
    BY <2>0, Zenon DEF Handlers
  <2>2. chains[i] \in Seq(HandlerType)
    BY DEF Types
  <2> QED  BY <2>1, <2>2, RangeIs
<1>8. PICK p \in 1 .. Len(chains[i]) : h = chains[i][p]
  BY <1>7
<1>9. /\ i \in 1 .. Len(G) /\ chains[i] \in Seq(HandlerType) /\ Origins(chains)[i] = Origin(chains[i])
      /\ Origin(chains[i])[p] = <<h.frame, "catch">> /\ Len(Origin(chains[i])) = Len(chains[i])
  <2>1. chains \in Seq(Seq(HandlerType)) /\ chains[i] \in Seq(HandlerType)
    BY DEF Types
  <2> QED  BY <2>1, <1>6, <1>8, OriginsAre, OriginIs
<1>10. h.frame \in Nat
  <2>1. h \in HandlerType
    BY <1>8, <1>9
  <2> QED  BY <2>1 DEF HandlerType
<1>11. CASE i # Len(G)
  <2>1. i \in 1 .. Len(G) - 1 /\ Origins(chains)[i] = G[i]
    BY <1>4, <1>6, <1>9, <1>11
  <2>2. p \in 1 .. Len(G[i]) /\ G[i][p] = <<h.frame, "catch">>
    BY <2>1, <1>9
  <2>3. G[i][p][1] <= k - 1
    BY <2>2, <1>2, <1>9 DEF Bounded
  <2> QED  BY <2>2, <2>3, <1>1, <1>10
<1>12. CASE i = Len(G)
  <2>1. p \in 1 .. Len(L) + 1 /\ y[p] = <<h.frame, "catch">>
    BY <1>3, <1>6, <1>9, <1>12
  <2>2. p # Len(L) + 1
    BY <2>1, <1>3
  <2>3. p \in 1 .. Len(L) /\ L[p] = <<h.frame, "catch">>
    BY <2>1, <2>2, <1>3
  <2>4. L[p][1] <= k - 1
    BY <2>3, <1>2, <1>4, <1>9, <1>12 DEF Bounded
  <2> QED  BY <2>3, <2>4, <1>1, <1>10
<1> QED  BY <1>11, <1>12

(***************************************************************************)
(* What each step is to the promise                                        *)
(***************************************************************************)
Mapped == Promise!Next \/ UNCHANGED Promise!promiseVars
Accounted == Mapped /\ (outcome' = "running" => Remembered')

LEMMA IsNext ==
  ASSUME \/ \E catch \in Catches : Promise!Try(catch)
         \/ \E e \in Exception : Promise!Throw(e)
         \/ Promise!Tasks \/ Promise!Land \/ Promise!Abandon \/ Promise!Fail
         \/ Promise!Leave \/ Promise!Decline \/ Promise!Finish \/ Promise!Return
  PROVE  Mapped
BY DEF Mapped, Promise!Next, Catches, Promise!Catches

LEMMA Accounts ==
  ASSUME NEW g, Recorded(g), Kept, Carried, Mapped
  PROVE  Accounted
<1>1. Remembered
  BY DEF Recorded, Remembered
<1> QED  BY <1>1, Remembering DEF Accounted

LEMMA KeptSame == frames' = frames => Kept
BY DEF Kept

LEMMA CarriedSame == chains' = chains => Carried
BY DEF Carried

LEMMA Entering ==
  ASSUME Types, NEW k \in 1 .. Len(frames), NEW phase \in Phases, NEW held \in Seq(Value),
         EnterPhase(k, phase, held)
  PROVE  \E f \in FrameType :
           /\ f.kind = frames[k].kind /\ f.catch = frames[k].catch
           /\ f.phase = phase /\ f.held = held
           /\ frames' = Append(SubSeq(frames, 1, k - 1), f)
<1> DEFINE f == [frames[k] EXCEPT !.phase = phase, !.held = held]
<1>1. /\ f \in FrameType /\ f.kind = frames[k].kind /\ f.catch = frames[k].catch
      /\ f.phase = phase /\ f.held = held
  <2>1. frames[k] \in FrameType
    BY DEF Types
  <2> QED  BY <2>1 DEF FrameType
<1>2. frames' = Append(SubSeq(frames, 1, k - 1), f)
  BY DEF EnterPhase
<1> HIDE DEF f
<1> QED  BY <1>1, <1>2

LEMMA Quieted ==
  ASSUME Types, FramesInv, inflight # NoException, NEW t \in 0 .. Len(frames), Above(frames, t)
  PROVE  Quiet(t)
<1> SUFFICES ASSUME NEW j \in t + 1 .. Len(frames) PROVE frames[j].phase = "ensure"
  BY DEF Quiet
<1>1. j \in 1 .. Len(frames)
  BY DEF Types
<1>2. frames[j].phase # "task" /\ Owned(frames[j], j) = <<>>
  BY DEF Above, Plain
<1>3. frames[j].kind # "loop"
  BY <1>1, <1>2 DEF FramesInv, Fits
<1> QED  BY <1>2, <1>3 DEF Owned

\* Frame k is in its ensure block.
Ensured(k, held) ==
  /\ \E f \in FrameType :
       /\ f.phase = "ensure" /\ f.catch = frames[k].catch /\ f.held = held
       /\ frames' = Append(SubSeq(frames, 1, k - 1), f)
  /\ inflight' = NoException /\ outcome' = outcome
  /\ Kept /\ Carried

\* A handler below the one that is popped gets the exception: it is there, and no
\* condition counts on it.
LEMMA EnsureStep ==
  ASSUME Types, FramesInv, NEW g, Tale(g, frames, chains), Recorded(g), NEW k, At(g, k),
         frames[k].kind = "compiled", NEW held \in Seq(Value),
         NEW d \in Seq(HandlerType), NEW e \in Entry, Origin(d) = Append(Last(g[k - 1]), e),
         Range(Front(d)) \subseteq Range(Chain),
         outcome = "running", EnterEnsure(d, k, held)
  PROVE  Ensured(k, held)
<1> DEFINE L == Last(g[k - 1])
           below == Front(d)
           v == Last(d).exception
           h == [Last(below) EXCEPT !.exception = v]
           c == Append(Front(below), h)
<1>1. /\ L \in Seq(Entry) /\ chains # <<>> /\ Chain \in Seq(HandlerType)
      /\ frames[k] \in FrameType /\ k \in Nat \ {0} /\ k \in 1 .. Len(frames)
  BY AtIs DEF At
<1>2. Based(L, k)
  BY <1>1 DEF Recorded
<1>3. /\ d # <<>> /\ below \in Seq(HandlerType) /\ Origin(below) = L
      /\ Last(d) \in HandlerType /\ Len(d) = Len(L) + 1
  <2>1. Origin(d) = Append(L, e) /\ L \in Seq(Entry)
    BY <1>1
  <2> HIDE DEF L
  <2> QED  BY <2>1, Pop
<1>4. Len(L) # 0 /\ Len(L) \in Nat
  BY <1>1, <1>2 DEF Based
<1>5. /\ below # <<>> /\ Last(below) \in HandlerType
      /\ Last(L) = <<Last(below).frame, Last(below).role>>
  <2>1. below # <<>>
    BY <1>2, <1>3, OriginIs DEF Based
  <2> HIDE DEF below
  <2> QED  BY <2>1, <1>3, OriginFront, FrontLast
<1>6. v \in Value \cup {NoException}
  BY <1>3 DEF HandlerType
<1> HIDE DEF below, v
<1>7. /\ chains' = WithChain(c) /\ EnterPhase(k, "ensure", held) /\ inflight' = NoException
      /\ UNCHANGED <<try_program, outcome>>
  <2>1. Len(d) # 1
    BY <1>3, <1>4
  <2> QED  BY <2>1 DEF EnterEnsure, below, v
<1>8. /\ h \in HandlerType /\ h.frame = Last(below).frame /\ h.role = Last(below).role
      /\ c \in Seq(HandlerType) /\ Front(below) \in Seq(HandlerType)
  <2>1. h \in HandlerType /\ h.frame = Last(below).frame /\ h.role = Last(below).role
    BY <1>5, <1>6 DEF HandlerType
  <2>2. Front(below) \in Seq(HandlerType)
    BY <1>3, <1>5, FrontLast
  <2> HIDE DEF h
  <2> QED  BY <2>1, <2>2, Appended
<1>9. ~Evaluated(h)
  BY <1>2, <1>5, <1>8 DEF Based, Evaluated
<1> HIDE DEF h, L
<1>10. ASSUME NEW x \in Range(c) PROVE x \in Range(Chain) \/ ~Evaluated(x)
  <2>1. x \in Range(Front(below)) \/ x = h
    BY <1>8, RangeAppend
  <2>2. Range(Front(below)) \subseteq Range(below) /\ Range(below) \subseteq Range(Chain)
    BY <1>3, <1>5, RangeFront DEF below
  <2> QED  BY <2>1, <2>2, <1>9
<1> HIDE DEF c
<1>11. Carried
  BY <1>1, <1>7, <1>8, <1>10, CarriedBy
<1>12. PICK f \in FrameType :
         /\ f.phase = "ensure" /\ f.catch = frames[k].catch /\ f.held = held
         /\ frames' = Append(SubSeq(frames, 1, k - 1), f)
  <2>1. "ensure" \in Phases
    BY DEF Phases
  <2> QED  BY <2>1, <1>1, <1>7, Entering
<1>13. Kept
  <2>1. k \in 1 .. Len(frames) + 1 /\ frames \in Seq(FrameType)
    BY <1>1 DEF Types
  <2>2. f.phase # "condition"
    BY <1>12
  <2> QED  BY <2>1, <2>2, <1>12, KeptEntering
<1> QED  BY <1>7, <1>11, <1>12, <1>13 DEF Ensured

\* Code of the program.
LEMMA TryAccounted ==
  ASSUME Types, FramesInv, NEW g, Tale(g, frames, chains), Recorded(g), outcome = "running",
         NEW kind \in Kinds, NEW catch \in Catches, Try(kind, catch)
  PROVE  Accounted
<1> DEFINE n == Len(frames)
           f == Frame(kind, "try", catch, <<>>, 0)
           h == Handler(n + 1, kind, NoException)
           d == Append(Chain, h)
<1>1. /\ inflight = NoException /\ UNCHANGED <<try_program, inflight, outcome>>
      /\ frames' = Append(frames, f) /\ chains' = WithChain(d)
  BY DEF Try, UserCode, Innermost
<1>2. chains # <<>> /\ Chain \in Seq(HandlerType) /\ n \in Nat /\ frames \in Seq(FrameType)
  BY ChainIs DEF Types
<1>3. f \in FrameType /\ f.phase = "try" /\ f.catch = catch /\ f.held = <<>>
  BY DEF FrameType, Frame, Kinds, Phases
<1>4. h \in HandlerType /\ h.role = kind /\ kind # "catch"
  BY <1>2 DEF HandlerType, Handler, Role, Kinds
<1> HIDE DEF f, h
<1>5. Mapped
  <2>1. Promise!Try(f.catch)
    BY <1>1, <1>2, <1>3, Begins
  <2> QED  BY <1>3, <2>1, IsNext
<1>6. Kept
  <2>1. frames' = Append(SubSeq(frames, 1, n + 1 - 1), f) /\ n + 1 \in 1 .. Len(frames) + 1
    BY <1>1, <1>2
  <2> QED  BY <1>2, <1>3, <2>1, KeptEntering
<1>7. Carried
  <2>1. d \in Seq(HandlerType) /\ \A x \in Range(d) : x \in Range(Chain) \/ x = h
    BY <1>2, <1>4, Appended, RangeAppend
  <2>2. ~Evaluated(h)
    BY <1>4 DEF Evaluated
  <2> HIDE DEF d
  <2> QED  BY <1>1, <1>2, <2>1, <2>2, CarriedBy
<1> QED  BY <1>5, <1>6, <1>7, Accounts

LEMMA ThrowAccounted ==
  ASSUME NEW g, Recorded(g), NEW e \in Exception, Throw(e)
  PROVE  Accounted
<1>1. /\ inflight = NoException /\ outcome = "running"
      /\ inflight' = e /\ UNCHANGED <<frames, chains, outcome>>
  BY DEF Throw, UserCode
<1>2. Promise!Throw(e)
  BY <1>1 DEF Promise!Throw, Promise!User
<1> QED  BY <1>1, <1>2, IsNext, KeptSame, CarriedSame, Accounts

LEMMA LoopAccounted ==
  ASSUME Types, FramesInv, NEW g, Tale(g, frames, chains), Recorded(g), outcome = "running",
         NEW m \in Nat, ParallelForEach(m)
  PROVE  Accounted
<1> DEFINE n == Len(frames)
           f == Frame("loop", "between", "never", <<>>, m)
<1>1. /\ inflight = NoException /\ UNCHANGED <<try_program, chains, inflight, outcome>>
      /\ frames' = Append(frames, f)
  BY DEF ParallelForEach, UserCode
<1>2. n \in Nat /\ frames \in Seq(FrameType)
  BY ChainIs DEF Types
<1>3. f \in FrameType /\ f.phase = "between" /\ f.catch = "never" /\ f.held = <<>>
  BY DEF FrameType, Frame, Kinds, Phases, Catches
<1> HIDE DEF f
<1>4. Mapped
  <2>1. Promise!Tasks
    BY <1>1, <1>2, <1>3, Begins
  <2> QED  BY <2>1, IsNext
<1>5. Kept
  <2>1. frames' = Append(SubSeq(frames, 1, n + 1 - 1), f) /\ n + 1 \in 1 .. Len(frames) + 1
    BY <1>1, <1>2
  <2> QED  BY <1>2, <1>3, <2>1, KeptEntering
<1> QED  BY <1>1, <1>4, <1>5, CarriedSame, Accounts

\* The frame at the top enters its ensure block.
LEMMA LeaveAccounted ==
  ASSUME Types, FramesInv, NEW g, Recorded(g), frames # <<>>,
         inflight = NoException, outcome = "running",
         frames[Len(frames)].phase \in {"try", "condition", "catch"},
         NEW f \in FrameType, f.phase = "ensure", f.catch = frames[Len(frames)].catch,
         frames' = Append(SubSeq(frames, 1, Len(frames) - 1), f),
         inflight' = inflight, outcome' = outcome, Carried,
         \/ f.held = <<>>
         \/ /\ frames[Len(frames)].phase = "condition"
            /\ f.held = frames[Len(frames)].held
  PROVE  Accounted
<1>1. frames \in Seq(FrameType) /\ Len(frames) \in 1 .. Len(frames) + 1 /\ Len(frames) \in 1 .. Len(frames)
  BY DEF Types
<1>2. Kept
  BY <1>1, KeptEntering
<1>3. frames[Len(frames)].phase = "condition" => f.catch = "condition"
  BY <1>1 DEF FramesInv, Fits
<1>4. Promise!Leave \/ Promise!Decline
  BY <1>1, <1>3, Leaves
<1> QED  BY <1>2, <1>4, IsNext, Accounts

\* The frame at the top is done.
LEMMA FinishAccounted ==
  ASSUME Types, NEW g, Recorded(g), frames # <<>>, inflight = NoException, outcome = "running",
         frames[Len(frames)].phase \in {"ensure", "between"},
         frames' = SubSeq(frames, 1, Len(frames) - 1), outcome' = outcome, Carried,
         \/ inflight' = Collected(frames[Len(frames)].held)
         \/ frames[Len(frames)].phase = "ensure" /\ inflight' = inflight
  PROVE  Accounted
<1>1. frames \in Seq(FrameType) /\ Len(frames) - 1 \in 0 .. Len(frames)
  BY DEF Types
<1>2. Kept
  BY <1>1, KeptLeaving
<1>3. Promise!Finish \/ Promise!Return
  BY <1>1, Finishes
<1> QED  BY <1>2, <1>3, IsNext, Accounts

\* Whether an ensure block goes on with an exception.
LEMMA OneHeld ==
  ASSUME NEW s \in Seq(Value), Len(s) <= 1
  PROVE  Collected(s) = IF s = <<>> THEN NoException ELSE s[1]
<1>1. CASE s = <<>>
  BY <1>1 DEF Collected
<1>2. CASE s # <<>>
  <2> DEFINE n == Len(s)
  <2>1. n \in Nat /\ n # 0 /\ n <= 1
    BY <1>2
  <2>2. n = 1
    <3> HIDE DEF n
    <3> QED  BY <2>1
  <2> QED  BY <1>2, <2>2 DEF Collected
<1> QED  BY <1>1, <1>2

LEMMA TopIsFrame ==
  ASSUME Types, FramesInv, NEW g, Tale(g, frames, chains), NEW kind, NEW phases,
         InBlock(kind, phases), "task" \notin phases
  PROVE  LET n == Len(frames) IN
         /\ frames # <<>> /\ n \in 1 .. Len(frames) /\ inflight = NoException /\ outcome = "running"
         /\ frames[n] \in FrameType /\ frames[n].kind = kind /\ frames[n].phase \in phases
         /\ Last(frames) = frames[n] /\ Front(frames) = SubSeq(frames, 1, n - 1)
         /\ At(g, n) /\ chains # <<>> /\ Chain \in Seq(HandlerType)
         /\ Fits(frames[n]) /\ frames[n].held \in Seq(Value)
<1>1. frames[Len(frames)] \in FrameType
  BY InUserCode
<1> QED  BY <1>1, InUserCode, ChainIs DEF FrameType

LEMMA EndTryAccounted ==
  ASSUME Types, FramesInv, NEW g, Tale(g, frames, chains), Recorded(g), EndTry
  PROVE  Accounted
<1> DEFINE n == Len(frames)
           none == <<>>
<1>1. InBlock("resume", {"try", "catch"})
  BY DEF EndTry
<1>2. /\ frames # <<>> /\ n \in 1 .. Len(frames) /\ inflight = NoException /\ outcome = "running"
      /\ frames[n] \in FrameType /\ frames[n].kind = "resume" /\ frames[n].phase \in {"try", "catch"}
      /\ At(g, n) /\ chains # <<>> /\ Chain \in Seq(HandlerType)
  BY <1>1, TopIsFrame
<1>3. Owned(frames[n], n) = <<<<n, "resume">>>>
  BY <1>2 DEF Owned
<1>4. Last(Chain).frame = n
  BY <1>2, <1>3, OneHandler
<1>5. /\ EnterPhase(n, "ensure", none) /\ chains' = WithChain(Chain) /\ inflight' = NoException
      /\ UNCHANGED <<try_program, outcome>>
  BY <1>4 DEF EndTry, PrepareIteration
<1>6. none \in Seq(Value) /\ "ensure" \in Phases
  BY DEF Phases
<1> HIDE DEF none
<1>7. PICK f \in FrameType : /\ f.catch = frames[n].catch /\ f.phase = "ensure" /\ f.held = none
                             /\ frames' = Append(SubSeq(frames, 1, n - 1), f)
  BY <1>2, <1>5, <1>6, Entering
<1>8. Carried
  BY <1>2, <1>5, CarriedBy
<1>9. f.held = <<>>
  BY <1>7 DEF none
<1> QED  BY <1>2, <1>5, <1>7, <1>8, <1>9, LeaveAccounted

LEMMA EndEnsureAccounted ==
  ASSUME Types, FramesInv, NEW g, Tale(g, frames, chains), Recorded(g), EndEnsure
  PROVE  Accounted
<1> DEFINE n == Len(frames)
           held == frames[n].held
<1>1. InBlock("resume", {"ensure"})
  BY DEF EndEnsure
<1>2. /\ frames # <<>> /\ n \in 1 .. Len(frames) /\ inflight = NoException /\ outcome = "running"
      /\ frames[n] \in FrameType /\ frames[n].kind = "resume" /\ frames[n].phase = "ensure"
      /\ Last(frames) = frames[n] /\ Fits(frames[n]) /\ held \in Seq(Value)
      /\ At(g, n) /\ chains # <<>> /\ Chain \in Seq(HandlerType)
  BY <1>1, TopIsFrame
<1>3. Owned(frames[n], n) = <<<<n, "resume">>>>
  BY <1>2 DEF Owned
<1>4. Front(Chain) \in Seq(HandlerType) /\ Chain # <<>>
  BY <1>2, <1>3, OneHandler
<1>5. /\ frames' = SubSeq(frames, 1, n - 1) /\ chains' = WithChain(Front(Chain))
      /\ inflight' = IF held = <<>> THEN NoException ELSE held[1]
      /\ UNCHANGED <<try_program, outcome>>
  BY <1>2 DEF EndEnsure, FinishResumptions, Innermost
<1>6. inflight' = Collected(held)
  BY <1>2, <1>5, OneHeld DEF Fits
<1>7. Carried
  BY <1>2, <1>4, <1>5, RangeFront, CarriedBy
<1> QED  BY <1>2, <1>5, <1>6, <1>7, FinishAccounted

LEMMA EndCallbackAccounted ==
  ASSUME Types, FramesInv, NEW g, Tale(g, frames, chains), Recorded(g), EndCallback
  PROVE  Accounted
<1> DEFINE n == Len(frames)
           none == <<>>
<1>1. InBlock("callback", {"try", "catch"})
  BY DEF EndCallback
<1>2. /\ frames # <<>> /\ n \in 1 .. Len(frames) /\ inflight = NoException /\ outcome = "running"
      /\ frames[n] \in FrameType /\ frames[n].kind = "callback" /\ frames[n].phase \in {"try", "catch"}
      /\ At(g, n) /\ chains # <<>> /\ Chain \in Seq(HandlerType)
  BY <1>1, TopIsFrame
<1>3. Truncated(n) \in Seq(HandlerType) /\ Range(Truncated(n)) \subseteq Range(Chain)
  BY <1>2, CallbackChain
<1>4. /\ EnterPhase(n, "ensure", none) /\ chains' = WithChain(Truncated(n))
      /\ UNCHANGED <<try_program, inflight, outcome>>
  BY DEF EndCallback, Innermost
<1>5. none \in Seq(Value) /\ "ensure" \in Phases
  BY DEF Phases
<1> HIDE DEF none
<1>6. PICK f \in FrameType : /\ f.catch = frames[n].catch /\ f.phase = "ensure" /\ f.held = none
                             /\ frames' = Append(SubSeq(frames, 1, n - 1), f)
  BY <1>2, <1>4, <1>5, Entering
<1>7. Carried
  BY <1>2, <1>3, <1>4, CarriedBy
<1>8. f.held = <<>>
  BY <1>6 DEF none
<1> QED  BY <1>2, <1>4, <1>6, <1>7, <1>8, LeaveAccounted

LEMMA EndEnsureCallbackAccounted ==
  ASSUME Types, FramesInv, NEW g, Tale(g, frames, chains), Recorded(g), EndEnsureCallback
  PROVE  Accounted
<1> DEFINE n == Len(frames)
           held == frames[n].held
<1>1. InBlock("callback", {"ensure"})
  BY DEF EndEnsureCallback
<1>2. /\ frames # <<>> /\ n \in 1 .. Len(frames) /\ inflight = NoException /\ outcome = "running"
      /\ frames[n].phase = "ensure" /\ Last(frames) = frames[n] /\ Fits(frames[n])
      /\ held \in Seq(Value) /\ Front(frames) = SubSeq(frames, 1, n - 1)
  BY <1>1, TopIsFrame
<1>3. /\ frames' = SubSeq(frames, 1, n - 1)
      /\ inflight' = IF held = <<>> THEN NoException ELSE held[1]
      /\ UNCHANGED <<try_program, chains, outcome>>
  BY <1>2 DEF EndEnsureCallback
<1>4. inflight' = Collected(held)
  BY <1>2, <1>3, OneHeld DEF Fits
<1> QED  BY <1>2, <1>3, <1>4, CarriedSame, FinishAccounted

LEMMA TwiceFront ==
  ASSUME Types, FramesInv, NEW g, Tale(g, frames, chains), NEW k, At(g, k),
         frames[k].kind = "compiled", frames[k].phase \in {"condition", "catch"}
  PROVE  Range(Front(Front(Chain))) \subseteq Range(Chain)
<1>1. /\ Chain \in Seq(HandlerType) /\ Chain # <<>> /\ Front(Chain) \in Seq(HandlerType)
      /\ <<k, "compiled">> \in Entry
      /\ Origin(Front(Chain)) = Append(Last(g[k - 1]), <<k, "compiled">>)
  BY CompiledChain
<1>2. Last(g[k - 1]) \in Seq(Entry)
  BY AtIs
<1> DEFINE d == Front(Chain)
           L == Last(g[k - 1])
           e == <<k, "compiled">>
<1>3. d # <<>>
  <2> HIDE DEF d, L, e
  <2>1. Origin(d) = Append(L, e) /\ d \in Seq(HandlerType) /\ L \in Seq(Entry) /\ e \in Entry
    BY <1>1, <1>2 DEF d, L, e
  <2> QED  BY <2>1, Pop
<1> HIDE DEF d
<1>4. Range(Front(d)) \subseteq Range(d)
  BY <1>1, <1>3, RangeFront DEF d
<1>5. Range(d) \subseteq Range(Chain)
  BY <1>1, RangeFront DEF d
<1> QED  BY <1>4, <1>5 DEF d

LEMMA EndTryBlockAccounted ==
  ASSUME Types, FramesInv, NEW g, Tale(g, frames, chains), Recorded(g), EndTryBlock
  PROVE  Accounted
<1> DEFINE n == Len(frames)
           none == <<>>
           e == <<n, "compiled">>
<1>1. InBlock("compiled", {"try"}) /\ EnterEnsure(Chain, n, none)
  BY DEF EndTryBlock, Innermost
<1>2. /\ frames # <<>> /\ inflight = NoException /\ outcome = "running"
      /\ frames[n].kind = "compiled" /\ frames[n].phase = "try" /\ At(g, n)
  BY <1>1, TopIsFrame
<1>3. /\ e \in Entry /\ Chain \in Seq(HandlerType) /\ Chain # <<>>
      /\ Origin(Chain) = Append(Last(g[n - 1]), e)
  BY <1>2, CompiledChain
<1>4. Range(Front(Chain)) \subseteq Range(Chain)
  BY <1>3, RangeFront
<1>5. none \in Seq(Value)
  OBVIOUS
<1> HIDE DEF none, e
<1>6. Ensured(n, none)
  BY <1>1, <1>2, <1>3, <1>4, <1>5, EnsureStep
<1> QED  BY <1>2, <1>6, LeaveAccounted DEF none, Ensured

LEMMA EndCatchBlockAccounted ==
  ASSUME Types, FramesInv, NEW g, Tale(g, frames, chains), Recorded(g), EndCatchBlock
  PROVE  Accounted
<1> DEFINE n == Len(frames)
           none == <<>>
           e == <<n, "compiled">>
           d == Front(Chain)
<1>1. InBlock("compiled", {"catch"}) /\ EnterEnsure(d, n, none)
  BY DEF EndCatchBlock, Innermost
<1>2. /\ frames # <<>> /\ inflight = NoException /\ outcome = "running"
      /\ frames[n].kind = "compiled" /\ frames[n].phase = "catch" /\ At(g, n)
  BY <1>1, TopIsFrame
<1>3. /\ e \in Entry /\ Chain \in Seq(HandlerType) /\ Chain # <<>> /\ d \in Seq(HandlerType)
      /\ Origin(d) = Append(Last(g[n - 1]), e)
  BY <1>2, CompiledChain
<1>4. Range(Front(d)) \subseteq Range(Chain)
  BY <1>2, <1>3, TwiceFront
<1>5. none \in Seq(Value)
  OBVIOUS
<1> HIDE DEF none, e, d
<1>6. Ensured(n, none)
  BY <1>1, <1>2, <1>3, <1>4, <1>5, EnsureStep
<1> QED  BY <1>2, <1>6, LeaveAccounted DEF none, Ensured

\* The catch handler still has the exception that the frame answers for.
LEMMA DeclineAccounted ==
  ASSUME ExceptionsAssumption, Types, FramesInv, NEW g, Tale(g, frames, chains), Recorded(g), Decline
  PROVE  Accounted
<1> DEFINE n == Len(frames)
           x == Last(Chain).exception
           held == IF x = NoException THEN <<>> ELSE <<x>>
           e == <<n, "compiled">>
           d == Front(Chain)
<1>1. InBlock("compiled", {"condition"}) /\ EnterEnsure(d, n, held)
  BY DEF Decline, Innermost
<1>2. /\ frames # <<>> /\ inflight = NoException /\ outcome = "running" /\ n \in 1 .. Len(frames)
      /\ frames[n].kind = "compiled" /\ frames[n].phase = "condition" /\ At(g, n)
      /\ frames[n].held \in Seq(Value) /\ chains # <<>>
  BY <1>1, TopIsFrame
<1>3. /\ e \in Entry /\ Chain \in Seq(HandlerType) /\ Chain # <<>> /\ d \in Seq(HandlerType)
      /\ Origin(d) = Append(Last(g[n - 1]), e)
      /\ Last(Chain).frame = n /\ Last(Chain).role = "catch"
  BY <1>2, CompiledChain
<1>4. Range(Front(d)) \subseteq Range(Chain)
  BY <1>2, <1>3, TwiceFront
<1>5. frames[n].held = <<x>>
  <2>1. Last(Chain) \in Handlers(chains)
    BY <1>2, <1>3, RangeFront, ChainHandlers
  <2>2. Evaluated(Last(Chain))
    BY <1>2, <1>3 DEF Evaluated
  <2> QED  BY <2>1, <2>2, <1>3 DEF Recorded
<1>6. x # NoException
  <2>1. x \in Value
    <3>1. <<x>>[1] = x /\ 1 \in 1 .. Len(<<x>>)
      OBVIOUS
    <3> HIDE DEF x
    <3> QED  BY <3>1, <1>2, <1>5
  <2> QED  BY <2>1 DEF ExceptionsAssumption
<1>7. held = frames[n].held /\ held \in Seq(Value)
  BY <1>2, <1>5, <1>6
<1> HIDE DEF held, e, d, x
<1>8. Ensured(n, held)
  BY <1>1, <1>2, <1>3, <1>4, <1>7, EnsureStep
<1> QED  BY <1>2, <1>7, <1>8, LeaveAccounted DEF Ensured

LEMMA EndConditionAccounted ==
  ASSUME Types, FramesInv, NEW g, Tale(g, frames, chains), Recorded(g), EndCondition
  PROVE  Accounted
<1> DEFINE n == Len(frames)
<1>1. InBlock("compiled", {"condition"})
  BY DEF EndCondition
<1>2. /\ frames # <<>> /\ n \in 1 .. Len(frames) /\ Last(frames) = frames[n]
      /\ frames[n].phase = "condition" /\ frames[n].held \in Seq(Value)
  BY <1>1, TopIsFrame
<1>3. EnterPhase(n, "catch", frames[n].held) /\ UNCHANGED <<try_program, chains, inflight, outcome>>
  BY <1>2 DEF EndCondition, Innermost
<1>4. "catch" \in Phases
  BY DEF Phases
<1>5. PICK f \in FrameType : /\ f.catch = frames[n].catch /\ f.phase = "catch" /\ f.held = frames[n].held
                             /\ frames' = Append(SubSeq(frames, 1, n - 1), f)
  BY <1>2, <1>3, <1>4, Entering
<1>6. frames \in Seq(FrameType) /\ n \in 1 .. Len(frames) + 1
  BY <1>2 DEF Types
<1>7. Kept
  BY <1>5, <1>6, KeptEntering
<1>8. Seen(f) = Seen(frames[n])
  BY <1>2, <1>5 DEF Seen, AbstractPhase
<1>9. Mapped
  BY <1>2, <1>3, <1>5, <1>6, <1>8, Unseen DEF Mapped
<1> QED  BY <1>3, <1>7, <1>9, CarriedSame, Accounts

LEMMA EndEnsureBlockAccounted ==
  ASSUME Types, FramesInv, NEW g, Tale(g, frames, chains), Recorded(g), EndEnsureBlock
  PROVE  Accounted
<1> DEFINE n == Len(frames)
           held == frames[n].held
           L == Last(g[n - 1])
<1>1. InBlock("compiled", {"ensure"})
  BY DEF EndEnsureBlock
<1>2. /\ frames # <<>> /\ n \in 1 .. Len(frames) /\ inflight = NoException /\ outcome = "running"
      /\ frames[n].kind = "compiled" /\ frames[n].phase = "ensure"
      /\ Last(frames) = frames[n] /\ Front(frames) = SubSeq(frames, 1, n - 1)
      /\ At(g, n) /\ chains # <<>> /\ Chain \in Seq(HandlerType)
      /\ Fits(frames[n]) /\ held \in Seq(Value)
  BY <1>1, TopIsFrame
<1>3. Owned(frames[n], n) = <<>>
  BY <1>2, CompiledChain
<1>4. Origin(Chain) = L
  BY <1>2, <1>3, NoHandlerLeft
<1>5. Based(L, n)
  BY <1>2 DEF Recorded
<1>6. Chain # <<>>
  BY <1>2, <1>4, <1>5, OriginIs DEF Based
<1>7. CASE held # <<>>
  <2>1. /\ inflight' = held[1] /\ frames' = SubSeq(frames, 1, n - 1)
        /\ UNCHANGED <<try_program, chains, outcome>>
    BY <1>2, <1>7 DEF EndEnsureBlock
  <2>2. inflight' = Collected(held)
    BY <1>2, <1>7, <2>1, OneHeld DEF Fits
  <2> QED  BY <1>2, <2>1, <2>2, CarriedSame, FinishAccounted
<1>8. CASE held = <<>>
  <2> DEFINE h == [Last(Chain) EXCEPT !.exception = NoException]
             d == Append(Front(Chain), h)
  <2>1. /\ chains' = WithChain(d) /\ frames' = SubSeq(frames, 1, n - 1)
        /\ UNCHANGED <<try_program, inflight, outcome>>
    BY <1>2, <1>6, <1>8 DEF EndEnsureBlock
  <2>2. /\ Last(Chain) \in HandlerType /\ Front(Chain) \in Seq(HandlerType)
        /\ L = Origin(Chain) /\ Last(Origin(Chain)) = <<Last(Chain).frame, Last(Chain).role>>
    BY <1>2, <1>4, <1>6, FrontLast, OriginFront
  <2>3. h \in HandlerType /\ h.frame = Last(L)[1] /\ h.role = Last(L)[2]
    <3> DEFINE c == Last(Chain)
    <3>1. c \in HandlerType /\ Last(L) = <<c.frame, c.role>>
      BY <2>2
    <3>2. h = [c EXCEPT !.exception = NoException]
      OBVIOUS
    <3> HIDE DEF c, h, L
    <3>3. h \in HandlerType /\ h.frame = c.frame /\ h.role = c.role
      BY <3>1, <3>2 DEF HandlerType
    <3>4. Last(L)[1] = c.frame /\ Last(L)[2] = c.role
      BY <3>1
    <3> QED  BY <3>3, <3>4
  <2>4. ~Evaluated(h)
    BY <2>3, <1>5 DEF Based, Evaluated
  <2> HIDE DEF h
  <2>5. d \in Seq(HandlerType) /\ \A x \in Range(d) : x \in Range(Front(Chain)) \/ x = h
    <3> HIDE DEF h
    <3>1. d \in Seq(HandlerType)
      BY <2>2, <2>3, Appended
    <3>2. \A x \in Range(d) : x \in Range(Front(Chain)) \/ x = h
      BY <2>2, <2>3, RangeAppend
    <3> QED  BY <3>1, <3>2
  <2>6. Range(Front(Chain)) \subseteq Range(Chain)
    BY <1>2, <1>6, RangeFront
  <2> HIDE DEF d
  <2>7. Carried
    BY <1>2, <2>1, <2>4, <2>5, <2>6, CarriedBy
  <2> QED  BY <1>2, <2>1, <2>7, FinishAccounted
<1> QED  BY <1>7, <1>8

LEMMA ReturnAccounted ==
  ASSUME Promising, Types, FramesInv, NEW g, Tale(g, frames, chains), Recorded(g), Return
  PROVE  Accounted
<1> DEFINE n == Len(frames)
<1>1. InBlock("compiled", {"try", "catch", "ensure"})
  BY DEF Return
<1>2. /\ frames # <<>> /\ inflight = NoException /\ outcome = "running"
      /\ Last(frames) = frames[n] /\ Front(frames) = SubSeq(frames, 1, n - 1)
  BY <1>1, TopIsFrame
<1>3. frames[n].phase = "ensure"
  BY <1>2 DEF Return, In, Promising, Types
<1>4. frames' = SubSeq(frames, 1, n - 1) /\ UNCHANGED <<try_program, chains, inflight, outcome>>
  BY <1>2 DEF Return
<1> QED  BY <1>2, <1>3, <1>4, CarriedSame, FinishAccounted

\* Loops and tasks.
LEMMA EndTaskAccounted ==
  ASSUME Types, FramesInv, NEW g, Tale(g, frames, chains), Recorded(g), EndTask
  PROVE  Accounted
<1> DEFINE n == Len(frames)
<1>1. frames # <<>> /\ Last(frames).phase = "task"
  BY DEF EndTask, InBlock
<1>2. /\ n \in Nat \ {0} /\ Last(frames) = frames[n] /\ frames[n] \in FrameType
      /\ chains # <<>>
  BY <1>1, TopFrame
<1>3. /\ EnterPhase(n, "between", frames[n].held) /\ chains' = Front(chains)
      /\ UNCHANGED <<try_program, inflight, outcome>>
  BY <1>2 DEF EndTask, Innermost
<1>4. "between" \in Phases /\ frames[n].held \in Seq(Value) /\ n \in 1 .. Len(frames)
  BY <1>2 DEF Phases, FrameType
<1>5. PICK f \in FrameType : /\ f.catch = frames[n].catch /\ f.phase = "between" /\ f.held = frames[n].held
                             /\ frames' = Append(SubSeq(frames, 1, n - 1), f)
  BY <1>3, <1>4, Entering
<1>6. frames \in Seq(FrameType) /\ n \in 1 .. Len(frames) + 1 /\ chains \in Seq(Seq(HandlerType))
  BY <1>2 DEF Types
<1>7. Kept
  BY <1>5, <1>6, KeptEntering
<1>8. Seen(f) = Seen(frames[n])
  BY <1>1, <1>2, <1>5 DEF Seen, AbstractPhase
<1>9. Mapped
  BY <1>1, <1>3, <1>5, <1>6, <1>8, Unseen DEF Mapped
<1>10. Carried
  BY <1>2, <1>3, <1>6, FrontHandlers DEF Carried
<1> QED  BY <1>7, <1>9, <1>10, Accounts

LEMMA PerformTaskAccounted ==
  ASSUME Types, FramesInv, NEW g, Tale(g, frames, chains), Recorded(g), PerformTask
  PROVE  Accounted
<1> DEFINE n == Len(frames)
           left == frames[n].left - 1
           f == [frames[n] EXCEPT !.phase = "task", !.left = left]
           none == <<>>
<1>1. Between /\ Last(frames).left > 0
  BY DEF PerformTask
<1>2. /\ n \in Nat \ {0} /\ Last(frames) = frames[n] /\ frames[n] \in FrameType /\ frames # <<>>
      /\ Front(frames) = SubSeq(frames, 1, n - 1) /\ frames[n].phase = "between"
  BY <1>1, BetweenTasks DEF Between
<1>3. /\ frames' = Append(SubSeq(frames, 1, n - 1), f) /\ chains' = Append(chains, none)
      /\ UNCHANGED <<try_program, inflight, outcome>>
  BY <1>2 DEF PerformTask
<1>4. left \in Nat
  <2>1. frames[n].left \in Nat /\ frames[n].left > 0
    BY <1>1, <1>2 DEF FrameType
  <2> QED  BY <2>1
<1> HIDE DEF left
<1>5. f \in FrameType /\ f.phase = "task" /\ f.catch = frames[n].catch /\ f.held = frames[n].held
  BY <1>2, <1>4 DEF FrameType, Phases
<1>6. /\ frames \in Seq(FrameType) /\ n \in 1 .. Len(frames) + 1 /\ chains \in Seq(Seq(HandlerType))
      /\ none \in Seq(HandlerType) /\ Range(none) = {}
  BY <1>2 DEF Types, Range
<1> HIDE DEF f, none
<1>7. Kept
  BY <1>3, <1>5, <1>6, KeptEntering
<1>8. Seen(f) = Seen(frames[n])
  BY <1>2, <1>5 DEF Seen, AbstractPhase
<1>9. Mapped
  BY <1>2, <1>3, <1>5, <1>6, <1>8, Unseen DEF Mapped
<1>10. Carried
  BY <1>3, <1>6, AppendHandlers DEF Carried
<1> QED  BY <1>7, <1>9, <1>10, Accounts

LEMMA RethrowAccounted ==
  ASSUME Types, FramesInv, NEW g, Tale(g, frames, chains), Recorded(g), CollectExceptionsAndRethrow
  PROVE  Accounted
<1> DEFINE n == Len(frames)
<1>1. Between /\ inflight = NoException /\ outcome = "running"
  BY DEF CollectExceptionsAndRethrow
<1>2. /\ frames # <<>> /\ Last(frames) = frames[n] /\ frames[n].phase = "between"
      /\ Front(frames) = SubSeq(frames, 1, n - 1)
  BY <1>1, BetweenTasks DEF Between
<1>3. /\ frames' = SubSeq(frames, 1, n - 1) /\ inflight' = Collected(frames[n].held)
      /\ UNCHANGED <<try_program, chains, outcome>>
  BY <1>2 DEF CollectExceptionsAndRethrow
<1> QED  BY <1>1, <1>2, <1>3, CarriedSame, FinishAccounted

\* The exception arrives at frame k, which is the innermost that asks for something.
LEMMA LandAccounted ==
  ASSUME Types, FramesInv, NEW g, Recorded(g), Thrown, inflight' = NoException, outcome' = outcome,
         NEW k \in 1 .. Len(frames), Above(frames, k), NEW f \in FrameType, f.catch = frames[k].catch,
         frames' = Append(SubSeq(frames, 1, k - 1), f),
         \/ /\ frames[k].phase = "try" /\ frames[k].catch # "never"
            /\ f.phase \in {"condition", "catch"} /\ f.held = <<inflight>>
         \/ /\ frames[k].phase = "try" /\ frames[k].catch = "never"
            /\ f.phase = "ensure" /\ f.held = <<inflight>>
         \/ /\ frames[k].phase \in {"condition", "catch"}
            /\ f.phase = "ensure" /\ f.held = <<inflight>>
         \/ /\ frames[k].phase = "task"
            /\ f.phase = "between" /\ f.held = Append(frames[k].held, inflight)
  PROVE  Mapped /\ (f.phase # "condition" => Kept)
<1>1. frames \in Seq(FrameType) /\ k \in 0 .. Len(frames) /\ k \in 1 .. Len(frames) + 1
  BY DEF Types
<1>2. inflight # NoException
  BY DEF Thrown
<1>3. Quiet(k)
  BY <1>1, <1>2, Quieted
<1>4. Promise!Land
  BY <1>1, <1>2, <1>3, Landed
<1> QED  BY <1>1, <1>4, IsNext, KeptEntering

\* The handler that is restored, and the frame it is for.
LEMMA Restored ==
  ASSUME Types, FramesInv, NEW g, Tale(g, frames, chains), NEW roles, ThrownTo(roles), "base" \notin roles
  PROVE  LET f == frames[Target] IN
         /\ Thrown /\ outcome = "running" /\ Chain \in Seq(HandlerType) /\ Chain # <<>> /\ chains # <<>>
         /\ Target \in 1 .. Len(frames) /\ Above(frames, Target) /\ At(g, Target) /\ ~Dangling
         /\ f \in FrameType /\ Fits(f)
         /\ Last(Chain).role = "resume" => f.kind = "resume"
         /\ Last(Chain).role = "callback" => f.kind = "callback" /\ f.phase = "try"
         /\ Last(Chain).role = "catcher" => f.kind = "callback" /\ f.phase = "catch"
         /\ Last(Chain).role = "compiled" => f.kind = "compiled" /\ f.phase = "try"
         /\ Last(Chain).role = "catch" => f.kind = "compiled" /\ f.phase \in {"condition", "catch"}
         /\ Last(Chain).role \in roles
         /\ inflight \in Value /\ <<inflight>> \in Seq(Value)
<1>1. Thrown /\ Chain # <<>> /\ Last(Chain).role \in roles /\ outcome = "running"
  BY DEF ThrownTo, Thrown
<1>2. Chain \in Seq(HandlerType) /\ chains # <<>> /\ Len(frames) \in Nat
  BY ChainIs
<1>3. Target \in 0 .. Len(frames) /\ Above(frames, Target) /\ Target # 0
  BY <1>1, Catcher
<1>4. Target > 0 /\ Target \in 1 .. Len(frames)
  BY <1>2, <1>3
<1>5. inflight \in Value /\ <<inflight>> \in Seq(Value)
  BY <1>1, <1>2, ReceivedIs
<1> QED  BY <1>1, <1>2, <1>3, <1>4, <1>5, Catcher

\* The handlers of the chain that has received the exception.
LEMMA ReceivedRange ==
  ASSUME Types, Thrown, Chain \in Seq(HandlerType), Chain # <<>>
  PROVE  /\ Received \in Seq(HandlerType) /\ Front(Received) = Front(Chain) /\ Last(Received).exception = inflight
         /\ Received # <<>>
         /\ Range(Front(Received)) \subseteq Range(Chain)
         /\ \A x \in Range(Received) : x \in Range(Chain) \/ x.role = Last(Chain).role
<1> DEFINE h == [Last(Chain) EXCEPT !.exception = inflight]
<1>1. /\ Received \in Seq(HandlerType) /\ Front(Received) = Front(Chain) /\ Received # <<>>
      /\ Last(Received).exception = inflight /\ inflight \in Value
  BY ReceivedIs
<1>2. /\ Front(Chain) \in Seq(HandlerType) /\ Last(Chain) \in HandlerType
      /\ Range(Front(Chain)) \subseteq Range(Chain)
  BY FrontLast, RangeFront
<1>3. h \in HandlerType /\ h.role = Last(Chain).role
  BY <1>1, <1>2 DEF HandlerType
<1>4. Received = Append(Front(Chain), h)
  BY DEF Received
<1> HIDE DEF h
<1>5. \A x \in Range(Received) : x \in Range(Front(Chain)) \/ x = h
  BY <1>2, <1>3, <1>4, RangeAppend
<1> QED  BY <1>1, <1>2, <1>3, <1>5

LEMMA ResumeTryAccounted ==
  ASSUME Types, FramesInv, NEW g, Tale(g, frames, chains), Recorded(g), ResumeTry
  PROVE  Accounted
<1> DEFINE t == Target
           caught == <<inflight>>
<1>1. ThrownTo({"resume"}) /\ UNCHANGED <<try_program, outcome>>
  BY DEF ResumeTry
<1>2. /\ Thrown /\ Chain \in Seq(HandlerType) /\ Chain # <<>> /\ chains # <<>>
      /\ t \in 1 .. Len(frames) /\ Above(frames, t)
      /\ frames[t] \in FrameType /\ Fits(frames[t]) /\ frames[t].kind = "resume"
      /\ Last(Chain).role = "resume" /\ caught \in Seq(Value)
  BY <1>1, Restored
<1>3. /\ Received \in Seq(HandlerType) /\ Front(Received) = Front(Chain)
      /\ Last(Received).exception = inflight
      /\ \A x \in Range(Received) : x \in Range(Chain) \/ ~Evaluated(x)
  BY <1>2, ReceivedRange DEF Evaluated
<1>4. frames[t].phase \in {"try", "catch", "ensure"} /\ frames[t].catch = "always"
  BY <1>2 DEF Fits
<1>5. CASE frames[t].phase \in {"try", "catch"}
  <2> DEFINE phase == IF frames[t].phase = "try" THEN "catch" ELSE "ensure"
  <2>1. EnterPhase(t, phase, caught) /\ chains' = WithChain(Received) /\ inflight' = NoException
    BY <1>3, <1>5 DEF ResumeTry, PrepareIteration
  <2>2. phase \in Phases
    BY DEF Phases
  <2> HIDE DEF caught, phase
  <2>3. PICK f \in FrameType : /\ f.catch = frames[t].catch /\ f.phase = phase /\ f.held = caught
                               /\ frames' = Append(SubSeq(frames, 1, t - 1), f)
    BY <1>2, <2>1, <2>2, Entering
  <2>4. Mapped /\ Kept
    BY <1>1, <1>2, <1>4, <1>5, <2>1, <2>3, LandAccounted DEF caught, phase
  <2>5. Carried
    BY <1>2, <1>3, <2>1, CarriedBy
  <2> QED  BY <2>4, <2>5, Accounts
<1>6. CASE frames[t].phase = "ensure"
  <2>1. /\ chains' = WithChain(Front(Chain)) /\ frames' = SubSeq(frames, 1, t - 1)
        /\ inflight' = inflight
    BY <1>3, <1>6 DEF ResumeTry, PrepareIteration, FinishResumptions
  <2>2. /\ frames \in Seq(FrameType) /\ t - 1 \in 0 .. Len(frames) - 1 /\ t - 1 \in 0 .. Len(frames)
        /\ t \in 0 .. Len(frames) /\ inflight # NoException
    BY <1>2 DEF Types, Thrown
  <2>3. Quiet(t - 1)
    <3>1. Quiet(t)
      BY <2>2, <1>2, Quieted
    <3> SUFFICES ASSUME NEW j \in t - 1 + 1 .. Len(frames) PROVE frames[j].phase = "ensure"
      BY DEF Quiet
    <3>2. j = t \/ j \in t + 1 .. Len(frames)
      BY <1>2
    <3> QED  BY <3>1, <3>2, <1>6 DEF Quiet
  <2>4. Promise!Abandon
    BY <1>1, <2>1, <2>2, <2>3, Abandons
  <2>5. Kept
    BY <2>1, <2>2, KeptLeaving
  <2>6. Carried
    <3>1. Front(Chain) \in Seq(HandlerType) /\ Range(Front(Chain)) \subseteq Range(Chain)
      BY <1>2, FrontLast, RangeFront
    <3> QED  BY <1>2, <2>1, <3>1, CarriedBy
  <2> QED  BY <2>4, <2>5, <2>6, IsNext, Accounts
<1> QED  BY <1>4, <1>5, <1>6

LEMMA RunCatchFuncAccounted ==
  ASSUME Types, FramesInv, NEW g, Tale(g, frames, chains), Recorded(g), RunCatchFunc
  PROVE  Accounted
<1> DEFINE t == Target
           caught == <<inflight>>
           h == Handler(t, "catcher", NoException)
           d == Append(Received, h)
<1>1. /\ ThrownTo({"callback"}) /\ chains' = WithChain(d) /\ EnterPhase(t, "catch", caught)
      /\ inflight' = NoException /\ UNCHANGED <<try_program, outcome>>
  BY DEF RunCatchFunc
<1>2. /\ Thrown /\ Chain \in Seq(HandlerType) /\ Chain # <<>> /\ chains # <<>>
      /\ t \in 1 .. Len(frames) /\ Above(frames, t)
      /\ Fits(frames[t]) /\ frames[t].kind = "callback" /\ frames[t].phase = "try"
      /\ Last(Chain).role = "callback" /\ caught \in Seq(Value) /\ "catch" \in Phases
  BY <1>1, Restored DEF Phases
<1>3. /\ Received \in Seq(HandlerType)
      /\ \A x \in Range(Received) : x \in Range(Chain) \/ ~Evaluated(x)
  BY <1>2, ReceivedRange DEF Evaluated
<1>4. h \in HandlerType /\ ~Evaluated(h)
  BY <1>2 DEF HandlerType, Handler, Role, Evaluated
<1> HIDE DEF caught, h
<1>5. PICK f \in FrameType : /\ f.catch = frames[t].catch /\ f.phase = "catch" /\ f.held = caught
                             /\ frames' = Append(SubSeq(frames, 1, t - 1), f)
  BY <1>1, <1>2, Entering
<1>6. Mapped /\ Kept
  <2>1. frames[t].catch # "never"
    BY <1>2 DEF Fits
  <2> QED  BY <1>1, <1>2, <1>5, <2>1, LandAccounted DEF caught
<1>7. d \in Seq(HandlerType) /\ \A x \in Range(d) : x \in Range(Received) \/ x = h
  BY <1>3, <1>4, Appended, RangeAppend
<1> HIDE DEF d
<1>8. Carried
  BY <1>1, <1>2, <1>3, <1>4, <1>7, CarriedBy
<1> QED  BY <1>6, <1>8, Accounts

LEMMA CatchFuncThrewAccounted ==
  ASSUME Types, FramesInv, NEW g, Tale(g, frames, chains), Recorded(g), CatchFuncThrew
  PROVE  Accounted
<1> DEFINE t == Target
           caught == <<inflight>>
<1>1. /\ ThrownTo({"catcher"}) /\ chains' = WithChain(Truncated(t)) /\ EnterPhase(t, "ensure", caught)
      /\ inflight' = NoException /\ UNCHANGED <<try_program, outcome>>
  BY DEF CatchFuncThrew
<1>2. /\ Thrown /\ Chain \in Seq(HandlerType) /\ Chain # <<>> /\ chains # <<>> /\ At(g, t)
      /\ t \in 1 .. Len(frames) /\ Above(frames, t)
      /\ frames[t].kind = "callback" /\ frames[t].phase = "catch"
      /\ caught \in Seq(Value) /\ "ensure" \in Phases
  BY <1>1, Restored DEF Phases
<1>3. Truncated(t) \in Seq(HandlerType) /\ Range(Truncated(t)) \subseteq Range(Chain)
  BY <1>2, CallbackChain
<1> HIDE DEF caught
<1>4. PICK f \in FrameType : /\ f.catch = frames[t].catch /\ f.phase = "ensure" /\ f.held = caught
                             /\ frames' = Append(SubSeq(frames, 1, t - 1), f)
  BY <1>1, <1>2, Entering
<1>5. Mapped /\ Kept
  BY <1>1, <1>2, <1>4, LandAccounted DEF caught
<1>6. Carried
  BY <1>1, <1>2, <1>3, CarriedBy
<1> QED  BY <1>5, <1>6, Accounts

LEMMA CatchBlockThrewAccounted ==
  ASSUME Types, FramesInv, NEW g, Tale(g, frames, chains), Recorded(g), CatchBlockThrew
  PROVE  Accounted
<1> DEFINE t == Target
           caught == <<inflight>>
           e == <<t, "compiled">>
           d == Front(Chain)
<1>1. ThrownTo({"catch"})
  BY DEF CatchBlockThrew
<1>2. /\ Thrown /\ outcome = "running" /\ At(g, t) /\ ~Dangling
      /\ t \in 1 .. Len(frames) /\ Above(frames, t)
      /\ frames[t].kind = "compiled" /\ frames[t].phase \in {"condition", "catch"}
      /\ caught \in Seq(Value)
  BY <1>1, Restored
<1>3. EnterEnsure(d, t, caught)
  BY <1>2 DEF CatchBlockThrew
<1>4. e \in Entry /\ d \in Seq(HandlerType) /\ Origin(d) = Append(Last(g[t - 1]), e)
  BY <1>2, CompiledChain
<1>5. Range(Front(d)) \subseteq Range(Chain)
  BY <1>2, TwiceFront
<1> HIDE DEF caught, e, d
<1>6. Ensured(t, caught)
  BY <1>2, <1>3, <1>4, <1>5, EnsureStep
<1>7. Mapped /\ Kept
  BY <1>2, <1>6, LandAccounted DEF Ensured, caught
<1> QED  BY <1>6, <1>7, Accounts DEF Ensured

LEMMA RunCatchBlockAccounted ==
  ASSUME Types, FramesInv, NEW g, Tale(g, frames, chains), Recorded(g), RunCatchBlock
  PROVE  Accounted
<1> DEFINE t == Target
           caught == <<inflight>>
           q == "compiled"
           e == <<t, q>>
<1>1. ThrownTo({"compiled"})
  BY DEF RunCatchBlock
<1>2. /\ Thrown /\ outcome = "running" /\ At(g, t) /\ ~Dangling
      /\ Chain \in Seq(HandlerType) /\ Chain # <<>> /\ chains # <<>>
      /\ t \in 1 .. Len(frames) /\ Above(frames, t) /\ Last(Chain).role = "compiled"
      /\ frames[t] \in FrameType /\ frames[t].kind = "compiled" /\ frames[t].phase = "try"
      /\ caught \in Seq(Value) /\ inflight \in Value
  BY <1>1, Restored
<1>3. /\ Received \in Seq(HandlerType) /\ Range(Front(Received)) \subseteq Range(Chain)
      /\ \A x \in Range(Received) : x \in Range(Chain) \/ x.role = "compiled"
  BY <1>2, ReceivedRange
<1>4. CASE frames[t].catch = "never"
  <2>1. EnterEnsure(Received, t, caught)
    BY <1>2, <1>4 DEF RunCatchBlock
  <2>2. e \in Entry /\ Origin(Received) = Append(Last(g[t - 1]), e)
    BY <1>2, CompiledChain, ReceivedIs
  <2> HIDE DEF caught, e
  <2>3. Ensured(t, caught)
    BY <1>2, <1>3, <2>1, <2>2, EnsureStep
  <2>4. Mapped /\ Kept
    BY <1>2, <1>4, <2>3, LandAccounted DEF Ensured, caught
  <2> QED  BY <2>3, <2>4, Accounts DEF Ensured
<1>5. CASE frames[t].catch # "never"
  <2> DEFINE phase == IF frames[t].catch = "condition" THEN "condition" ELSE "catch"
             h == Handler(t, "catch", inflight)
             d == Append(Received, h)
  <2>1. /\ UNCHANGED <<try_program, outcome>> /\ inflight' = NoException
        /\ chains' = WithChain(d) /\ EnterPhase(t, phase, caught)
    BY <1>2, <1>5 DEF RunCatchBlock
  <2>2. h \in HandlerType /\ h.frame = t /\ h.exception = inflight
    BY <1>2 DEF HandlerType, Handler, Role
  <2>3. phase \in Phases /\ phase \in {"condition", "catch"}
    BY DEF Phases
  <2> HIDE DEF caught, phase, h
  <2>4. PICK f \in FrameType : /\ f.catch = frames[t].catch /\ f.phase = phase /\ f.held = caught
                               /\ frames' = Append(SubSeq(frames, 1, t - 1), f)
    BY <1>2, <2>1, <2>3, Entering
  <2>5. Mapped
    BY <1>2, <1>5, <2>1, <2>3, <2>4, LandAccounted DEF caught
  <2>6. Remembered'
    <3> SUFFICES ASSUME NEW x \in Handlers(chains'), x.role = "catch", x.frame \in 1 .. Len(frames'),
                        frames'[x.frame].phase = "condition"
                 PROVE  frames'[x.frame].held = <<x.exception>>
      BY DEF Remembered, Evaluated
    <3>1. /\ Len(frames') = t /\ frames'[t] = f /\ t \in Nat
          /\ \A j \in 1 .. t - 1 : frames'[j] = frames[j] /\ j \in 1 .. Len(frames)
      <4>1. frames \in Seq(FrameType)
        BY DEF Types
      <4> QED  BY <4>1, <1>2, <2>4
    <3>2. d \in Seq(HandlerType) /\ \A y \in Range(d) : y \in Range(Received) \/ y = h
      BY <1>3, <2>2, Appended, RangeAppend
    <3> HIDE DEF d
    <3>3. Front(chains) \in Seq(Seq(HandlerType)) /\ Handlers(Front(chains)) \subseteq Handlers(chains)
      BY <1>2, FrontLast, FrontHandlers DEF Types
    <3>4. x \in Handlers(Front(chains)) \/ x \in Range(d)
      BY <2>1, <3>2, <3>3, AppendHandlers DEF WithChain
    <3>5. x \in Handlers(chains) \/ x = h
      BY <1>2, <1>3, <3>2, <3>3, <3>4, ChainHandlers
    <3>6. CASE x \in Handlers(chains)
      <4>1. Owned(frames[t], t) = <<<<t, q>>>> /\ q # "catch"
        BY <1>2 DEF Owned
      <4> HIDE DEF q
      <4>2. x.frame < t
        BY <3>6, <4>1, <1>2, FormerCatches
      <4>3. x.frame \in 1 .. t - 1
        BY <4>2, <3>1
      <4>4. Evaluated(x) /\ frames'[x.frame] = frames[x.frame]
        BY <4>3, <3>1 DEF Evaluated
      <4> QED  BY <3>6, <4>4 DEF Recorded
    <3>7. CASE x = h
      BY <3>7, <3>1, <2>2, <2>4 DEF caught
    <3> QED  BY <3>5, <3>6, <3>7
  <2> QED  BY <2>5, <2>6 DEF Accounted
<1> QED  BY <1>4, <1>5

LEMMA UnhandledAccounted ==
  ASSUME Types, FramesInv, NEW g, Tale(g, frames, chains), UnhandledException
  PROVE  Accounted
<1>1. Thrown /\ Chain # <<>> /\ Last(Chain).role = "base" /\ outcome = "running" /\ inflight # NoException
  BY DEF UnhandledException, ThrownTo, Thrown
<1>2. outcome' = "unhandled" /\ frames' = <<>> /\ UNCHANGED <<chains, inflight>>
  BY DEF UnhandledException
<1>3. Target \in 0 .. Len(frames) /\ Above(frames, Target) /\ ~(Target > 0) /\ Len(frames) \in Nat
  BY <1>1, Catcher, ChainIs
<1>4. Target = 0
  BY <1>3
<1>5. Quiet(0)
  BY <1>1, <1>3, <1>4, Quieted
<1>6. Promise!Fail
  BY <1>1, <1>2, <1>5, Fails DEF Types
<1> QED  BY <1>2, <1>6, IsNext DEF Accounted

LEMMA AbortAccounted ==
  ASSUME Types, FramesInv, NEW g, Tale(g, frames, chains), Recorded(g), AbortCurrentTask
  PROVE  Accounted
<1>1. Thrown /\ Chain = <<>> /\ inflight \in Value
  BY DEF AbortCurrentTask, Thrown, Types
<1>2. frames \in Seq(FrameType) /\ chains \in Seq(Seq(HandlerType)) /\ chains # <<>>
  BY ChainIs DEF Types
<1>3. PICK t \in 1 .. Len(frames) : frames[t].phase = "task" /\ Above(frames, t)
  BY <1>1, <1>2, TopIs DEF Chain
<1> DEFINE held == Append(frames[t].held, inflight)
<1>4. SelectLastInSeq(frames, LAMBDA x : x.phase = "task") = t
  BY <1>2, <1>3, TaskFound
<1>5. /\ EnterPhase(t, "between", held) /\ chains' = Front(chains)
      /\ inflight' = NoException /\ UNCHANGED <<try_program, outcome>>
  BY <1>4 DEF AbortCurrentTask
<1>6. held \in Seq(Value) /\ "between" \in Phases
  <2>1. frames[t] \in FrameType
    BY <1>2
  <2>2. frames[t].held \in Seq(Value)
    BY <2>1 DEF FrameType
  <2> QED  BY <1>1, <2>2 DEF Phases
<1> HIDE DEF held
<1>7. PICK f \in FrameType : /\ f.catch = frames[t].catch /\ f.phase = "between" /\ f.held = held
                             /\ frames' = Append(SubSeq(frames, 1, t - 1), f)
  BY <1>5, <1>6, Entering
<1>8. Mapped /\ Kept
  BY <1>1, <1>3, <1>5, <1>7, LandAccounted DEF held
<1>9. Carried
  BY <1>2, <1>5, FrontHandlers DEF Carried
<1> QED  BY <1>8, <1>9, Accounts

LEMMA EachAccounted ==
  ASSUME ExceptionsAssumption, Promising, Types, FramesInv, NEW g, Tale(g, frames, chains), Recorded(g),
         outcome = "running", ExceptionsNext
  PROVE  Accounted
<1>1. ASSUME NEW kind \in Kinds, NEW catch \in Catches, Try(kind, catch) PROVE Accounted
  BY <1>1, TryAccounted
<1>2. ASSUME NEW e \in Exception, Throw(e) PROVE Accounted
  BY <1>2, ThrowAccounted
<1>3. ASSUME NEW n \in 0 .. MaxTasks, ParallelForEach(n) PROVE Accounted
  <2>1. n \in Nat
    BY DEF ExceptionsAssumption
  <2> QED  BY <1>3, <2>1, LoopAccounted
<1>4. CASE EndTry \/ EndEnsure \/ EndCallback \/ EndEnsureCallback
  BY <1>4, EndTryAccounted, EndEnsureAccounted, EndCallbackAccounted, EndEnsureCallbackAccounted
<1>5. CASE EndTryBlock \/ EndCondition \/ Decline \/ EndCatchBlock
  BY <1>5, EndTryBlockAccounted, EndConditionAccounted, DeclineAccounted, EndCatchBlockAccounted
<1>6. CASE EndEnsureBlock \/ Return \/ EndTask
  BY <1>6, EndEnsureBlockAccounted, ReturnAccounted, EndTaskAccounted
<1>7. CASE Loop
  BY <1>7, PerformTaskAccounted, RethrowAccounted DEF Loop
<1>8. CASE Handling
  BY <1>8, ResumeTryAccounted, RunCatchFuncAccounted, CatchFuncThrewAccounted, RunCatchBlockAccounted,
     CatchBlockThrewAccounted, UnhandledAccounted, AbortAccounted DEF Handling
<1> QED  BY <1>1, <1>2, <1>3, <1>4, <1>5, <1>6, <1>7, <1>8 DEF ExceptionsNext, Program

(***************************************************************************)
(* What is recorded stays so                                               *)
(***************************************************************************)
LEMMA BasedStays ==
  ASSUME NEW L, NEW i \in Nat, Based(L, i), L # <<>> => Last(L)[1] \in Nat,
         \A j \in 1 .. i - 1 : j \in 1 .. Len(frames) /\ frames'[j] = frames[j]
  PROVE  Based(L, i)'
<1> SUFFICES ASSUME Last(L)[2] = "catch", Last(L)[1] \in 1 .. Len(frames')
             PROVE  frames'[Last(L)[1]].phase # "condition"
  BY DEF Based
<1> DEFINE j == Last(L)[1]
<1>1. j \in Nat /\ j < i /\ j # 0
  <2>1. j \in Nat /\ j < i
    BY DEF Based
  <2>2. j # 0
    OBVIOUS
  <2> QED  BY <2>1, <2>2
<1> HIDE DEF j
<1>2. j \in 1 .. i - 1
  BY <1>1
<1> QED  BY <1>2 DEF Based, j

LEMMA Ends ==
  ASSUME Types, NEW g, Tale(g, frames, chains), NEW i \in 0 .. Len(frames)
  PROVE  /\ Last(g[i]) \in Seq(Entry)
         /\ Last(g[i]) # <<>> => Last(Last(g[i]))[1] \in Nat
<1>1. g[i] \in Stacks
  BY DEF Tale
<1>2. <<>> \in Seq(Entry)
  OBVIOUS
<1>3. Last(g[i]) \in Seq(Entry)
  BY <1>1, <1>2, PushIs
<1>4. ASSUME Last(g[i]) # <<>> PROVE Last(Last(g[i]))[1] \in Nat
  <2>1. Last(Last(g[i])) \in Entry
    BY <1>3, <1>4, FrontLast
  <2> QED  BY <2>1 DEF Entry
<1> QED  BY <1>3, <1>4

\* The only element of a sequence over S is in S.
LEMMA OneElement ==
  ASSUME NEW S, NEW x, NEW s \in Seq(S), s = <<x>>
  PROVE  x \in S
<1>1. Len(s) = 1 /\ s[1] = x
  OBVIOUS
<1>2. 1 \in 1 .. Len(s)
  BY <1>1
<1> QED  BY <1>1, <1>2

\* A compiled try begins on a handler that no condition counts on.
LEMMA BasedAtFirst ==
  ASSUME ExceptionsAssumption, Promising, Types, FramesInv, NEW g, Tale(g, frames, chains), Recorded(g),
         NEW f, Opened(f), f.kind = "compiled"
  PROVE  Based(Last(g[Len(frames)]), Len(frames) + 1)
<1> DEFINE n == Len(frames)
           L == Last(g[n])
           h == Last(Chain)
<1>1. /\ Chain \in Seq(HandlerType) /\ n \in Nat /\ chains # <<>> /\ L = Origin(Chain)
      /\ frames \in Seq(FrameType) /\ chains \in Seq(Seq(HandlerType)) /\ try_program \in TryPrograms
  BY ChainIs DEF Types
<1>2. Chain # <<>>
  BY <1>1 DEF Opened, In, Promising
<1>3. L # <<>> /\ Last(L) = <<h.frame, h.role>>
  BY <1>1, <1>2, OriginFront
<1>4. h.frame \in 0 .. n
  BY <1>1, <1>2, TopIs DEF Chain
<1>5. ASSUME h.role = "catch", h.frame \in 1 .. n, frames[h.frame].phase = "condition" PROVE FALSE
  <2>1. h \in Handlers(chains)
    BY <1>1, <1>2, RangeFront, ChainHandlers
  <2>2. frames[h.frame].held = <<h.exception>>
    BY <1>5, <2>1 DEF Recorded, Evaluated
  <2>3. In("condition")
    BY <1>5 DEF FramesInv, Fits, Recorded
  <2>4. h.exception = NoException
    BY <1>1, <1>2, <2>3 DEF Opened, In, Promising
  <2>5. frames[h.frame].held \in Seq(Value)
    <3>1. frames[h.frame] \in FrameType
      BY <1>1, <1>5
    <3> QED  BY <3>1 DEF FrameType
  <2>6. h.exception \in Value
    <3> HIDE DEF h
    <3> QED  BY <2>2, <2>5, OneElement
  <2> QED  BY <2>4, <2>6 DEF ExceptionsAssumption
<1> HIDE DEF L, h
<1>6. Last(L)[1] < n + 1
  BY <1>1, <1>3, <1>4
<1> QED  BY <1>3, <1>5, <1>6 DEF Based, L

LEMMA RecordedGrown ==
  ASSUME ExceptionsAssumption, Promising, Types, FramesInv, NEW g, Tale(g, frames, chains), Recorded(g),
         NEW k, NEW f, Grown(g, k, f), try_program' = try_program, Remembered'
  PROVE  \E h : Tale(h, frames', chains') /\ Recorded(h)'
<1>1. PICK h : /\ Tale(h, frames', chains') /\ \A j \in 0 .. k - 1 : h[j] = g[j]
               /\ Len(frames') = k /\ frames'[k] = f /\ \A j \in 1 .. k - 1 : frames'[j] = frames[j]
  BY GrownKeeps
<1>2. /\ k \in 1 .. Len(frames) + 1 /\ Len(frames) \in Nat
      /\ k <= Len(frames) => f.kind = frames[k].kind /\ f.catch = frames[k].catch
      /\ k = Len(frames) + 1 => Opened(f)
  BY DEF Grown, Types
<1>3. ASSUME NEW i \in 1 .. k
      PROVE  /\ frames'[i].kind = "compiled" => Based(Last(h[i - 1]), i)'
             /\ frames'[i].catch = "condition" => In("condition")'
  <2>1. /\ i \in Nat /\ i - 1 \in 0 .. k - 1 /\ i - 1 \in 0 .. Len(frames) /\ h[i - 1] = g[i - 1]
        /\ \A j \in 1 .. i - 1 : j \in 1 .. Len(frames) /\ frames'[j] = frames[j]
    BY <1>1, <1>2
  <2>2. CASE i \in 1 .. Len(frames)
    <3>1. frames'[i].kind = frames[i].kind /\ frames'[i].catch = frames[i].catch
      <4>1. CASE i = k
        BY <4>1, <2>2, <1>1, <1>2
      <4>2. CASE i # k
        <5>1. i \in 1 .. k - 1
          BY <4>2, <1>2
        <5> QED  BY <5>1, <1>1
      <4> QED  BY <4>1, <4>2
    <3>2. /\ frames[i].kind = "compiled" => Based(Last(g[i - 1]), i)
          /\ frames[i].catch = "condition" => In("condition")
      BY <2>2 DEF Recorded
    <3>3. ASSUME frames[i].kind = "compiled" PROVE Based(Last(h[i - 1]), i)'
      BY <3>2, <3>3, <2>1, Ends, BasedStays
    <3>4. ASSUME frames[i].catch = "condition" PROVE In("condition")'
      BY <3>2, <3>4 DEF In
    <3> QED  BY <3>1, <3>3, <3>4
  <2>3. CASE i \notin 1 .. Len(frames)
    <3>1. i = k /\ i = Len(frames) + 1 /\ i - 1 = Len(frames) /\ Opened(f) /\ frames'[i] = f
      BY <2>3, <1>1, <1>2
    <3>2. ASSUME f.kind = "compiled" PROVE Based(Last(h[i - 1]), i)'
      <4>1. Based(Last(g[i - 1]), i)
        BY <3>1, <3>2, BasedAtFirst
      <4> QED  BY <4>1, <2>1, Ends, BasedStays
    <3>3. ASSUME f.catch = "condition" PROVE In("condition")'
      BY <3>1, <3>3 DEF Opened, In
    <3> QED  BY <3>1, <3>2, <3>3
  <2> QED  BY <2>2, <2>3
<1>4. Recorded(h)'
  BY <1>1, <1>3 DEF Recorded, Remembered
<1> QED  BY <1>1, <1>4

LEMMA RecordedShrunk ==
  ASSUME Types, FramesInv, NEW g, Tale(g, frames, chains), Recorded(g),
         NEW k, Shrunk(g, k), try_program' = try_program, Remembered'
  PROVE  \E h : Tale(h, frames', chains') /\ Recorded(h)'
<1>1. PICK h : /\ Tale(h, frames', chains') /\ \A j \in 0 .. k : h[j] = g[j]
               /\ Len(frames') = k /\ \A j \in 1 .. k : frames'[j] = frames[j]
  BY ShrunkKeeps
<1>2. k \in 0 .. Len(frames) - 1 /\ Len(frames) \in Nat
  BY DEF Shrunk, Types
<1>3. ASSUME NEW i \in 1 .. k
      PROVE  /\ frames'[i].kind = "compiled" => Based(Last(h[i - 1]), i)'
             /\ frames'[i].catch = "condition" => In("condition")'
  <2>1. /\ i \in Nat /\ i - 1 \in 0 .. k /\ i - 1 \in 0 .. Len(frames) /\ h[i - 1] = g[i - 1]
        /\ i \in 1 .. Len(frames) /\ frames'[i] = frames[i]
        /\ \A j \in 1 .. i - 1 : j \in 1 .. Len(frames) /\ frames'[j] = frames[j]
    BY <1>1, <1>2
  <2>2. /\ frames[i].kind = "compiled" => Based(Last(g[i - 1]), i)
        /\ frames[i].catch = "condition" => In("condition")
    BY <2>1 DEF Recorded
  <2>3. ASSUME frames[i].kind = "compiled" PROVE Based(Last(h[i - 1]), i)'
    BY <2>1, <2>2, <2>3, Ends, BasedStays
  <2>4. ASSUME frames[i].catch = "condition" PROVE In("condition")'
    BY <2>2, <2>4 DEF In
  <2> QED  BY <2>1, <2>3, <2>4
<1>4. Recorded(h)'
  BY <1>1, <1>3 DEF Recorded, Remembered
<1> QED  BY <1>1, <1>4

PromiseInv == TryInv /\ (outcome = "running" => \E g : Tale(g, frames, chains) /\ Recorded(g))

LEMMA PromiseInit == ExceptionsAssumption /\ ExceptionsInit => PromiseInv /\ Promise!Init
<1> SUFFICES ASSUME ExceptionsAssumption, ExceptionsInit PROVE PromiseInv /\ Promise!Init
  OBVIOUS
<1>1. TryInv
  BY TryInit
<1>2. frames = <<>> /\ inflight = NoException /\ outcome = "running" /\ Len(frames) = 0
  BY DEF ExceptionsInit
<1>3. PICK g : Tale(g, frames, chains)
  BY <1>1, <1>2 DEF TryInv
<1>4. \A h \in Handlers(chains) : ~Evaluated(h)
  BY <1>2 DEF Evaluated
<1>5. Recorded(g)
  BY <1>2, <1>4 DEF Recorded
<1>6. Promise!Init
  <2>1. DOMAIN frames = {}
    BY <1>2
  <2> QED  BY <1>2, <2>1 DEF Promise!Init
<1> QED  BY <1>1, <1>3, <1>5, <1>6 DEF PromiseInv

LEMMA PromiseNext ==
  ASSUME ExceptionsAssumption, Promising, PromiseInv, [ExceptionsNext]_try_vars
  PROVE  PromiseInv' /\ [Promise!Next]_Promise!promiseVars
<1>1. CASE UNCHANGED try_vars
  <2>1. UNCHANGED <<try_program, frames, chains, inflight, outcome>>
    BY <1>1 DEF try_vars
  <2>2. PromiseInv'
    BY <2>1 DEF PromiseInv, TryInv, ExceptionsTypeOK, FramesInv, Tale, Recorded, Based, Evaluated, In
  <2>3. UNCHANGED Promise!promiseVars
    BY <2>1 DEF Promise!promiseVars
  <2> QED  BY <2>2, <2>3
<1>2. CASE ExceptionsNext
  <2>0. NoReturns
    BY DEF NoReturns, Promising
  <2>1. outcome = "running"
    BY <1>2, OnlyRunning
  <2>2. Types /\ FramesInv
    BY <2>1, TypesAre DEF PromiseInv, TryInv
  <2>3. PICK g : Tale(g, frames, chains) /\ Recorded(g)
    BY <2>1 DEF PromiseInv
  <2>4. Result(g)
    BY <1>2, <2>0, <2>1, <2>2, <2>3, StepResult
  <2>5. Accounted
    BY <1>2, <2>1, <2>2, <2>3, EachAccounted
  <2>6. TryInv'
    BY <2>0, TryNext DEF PromiseInv
  <2>7. ASSUME outcome' = "running" PROVE \E h : Tale(h, frames', chains') /\ Recorded(h)'
    <3>1. Remembered' /\ try_program' = try_program /\ Effect(g)
      BY <2>4, <2>5, <2>7 DEF Accounted, Result, ChainsOK
    <3>2. CASE \E k, f : Grown(g, k, f)
      BY <3>1, <3>2, <2>2, <2>3, RecordedGrown
    <3>3. CASE \E k : Shrunk(g, k)
      BY <3>1, <3>3, <2>2, <2>3, RecordedShrunk
    <3>4. CASE Stays
      <4>1. frames' = frames /\ chains' = chains
        BY <3>4 DEF Stays
      <4>2. Recorded(g)'
        BY <4>1, <3>1, <2>3 DEF Recorded, Based, Evaluated, In
      <4> QED  BY <4>1, <4>2, <2>3
    <3> QED  BY <3>1, <3>2, <3>3, <3>4 DEF Effect
  <2>8. PromiseInv'
    BY <2>6, <2>7 DEF PromiseInv
  <2> QED  BY <2>5, <2>8 DEF Accounted, Mapped
<1> QED  BY <1>1, <1>2

\* The trys of all three kinds, in any nesting and across the tasks of parallel
\* loops, do what a try statement promises: each exception goes to the innermost
\* try that is open, each ensure block runs, and what was not caught goes on after it.
THEOREM TrysKeepTheirPromise ==
  ASSUME ExceptionsAssumption, Promising
  PROVE  ExceptionsSpec => ImplementsTryCatchEnsure
<1>1. ExceptionsInit => PromiseInv /\ Promise!Init
  BY PromiseInit
<1>2. PromiseInv /\ [ExceptionsNext]_try_vars => PromiseInv' /\ [Promise!Next]_Promise!promiseVars
  BY PromiseNext
<1> QED  BY <1>1, <1>2, PTL DEF ExceptionsSpec, ImplementsTryCatchEnsure, Promise!Spec
=============================================================================
