--------------------------- MODULE SequenceLemmas ---------------------------
(***************************************************************************)
(* What the proofs of this project need to know of numbers and sequences:  *)
(* induction on how often a recursive function steps (a set of numbers has *)
(* a least one, so a set that has 0, and each successor of what it has,    *)
(* has them all), and what the operators on sequences return.              *)
(***************************************************************************)
EXTENDS Integers, SequencesExt, WellFoundedInduction, TLAPS

(***************************************************************************)
(* Numbers, and functions that step from one to the next                   *)
(***************************************************************************)
\* The numbers are well-founded under <.
LEMMA NatIsWellFounded == IsWellFoundedOn({p \in Nat \X Nat : p[1] < p[2]}, Nat)
<1>1. OpToRel(<, Nat) = {p \in Nat \X Nat : p[1] < p[2]}
  BY DEF OpToRel
<1> QED  BY <1>1, NatLessThanWellFounded, Zenon

\* A set of numbers with a member has a least one.
LEMMA Least ==
  ASSUME NEW S \in SUBSET Nat, S # {}
  PROVE  \E m \in S : \A n \in S : m <= n
<1> DEFINE R == {p \in Nat \X Nat : p[1] < p[2]}
<1>1. PICK m \in S : \A n \in S : ~(<<n, m>> \in R)
  <2>1. IsWellFoundedOn(R, Nat)
    BY NatIsWellFounded
  <2> HIDE DEF R
  <2> QED  BY <2>1, WFMin
<1>2. ASSUME NEW n \in S PROVE m <= n
  <2>1. <<n, m>> \notin R /\ <<n, m>> \in Nat \X Nat
    BY <1>1
  <2>2. ~(<<n, m>>[1] < <<n, m>>[2])
    BY <2>1
  <2> QED  BY <2>2
<1> QED  BY <1>2

\* A set with 0, and with each number whose predecessor it has.
LEMMA UpTo ==
  ASSUME NEW N \in Nat, NEW P, 0 \in P, \A i \in 1 .. N : i - 1 \in P => i \in P
  PROVE  \A i \in 0 .. N : i \in P
<1> DEFINE Bad == {n \in 0 .. N : n \notin P}
<1>1. SUFFICES ASSUME Bad # {} PROVE FALSE
  OBVIOUS
<1>2. Bad \in SUBSET Nat
  OBVIOUS
<1>3. PICK m \in Bad : \A n \in Bad : m <= n
  <2> HIDE DEF Bad
  <2> QED  BY <1>1, <1>2, Least
<1>4. m \in 1 .. N /\ m - 1 \in 0 .. N /\ m - 1 \notin Bad
  BY <1>3
<1> QED  BY <1>3, <1>4

\* A function with one step for each of the numbers 1 to N, from x on.
LEMMA Folded ==
  ASSUME NEW S, NEW x \in S, NEW N \in Nat, NEW step \in [1 .. N -> [S -> S]]
  PROVE  \E g \in [0 .. N -> S] : g[0] = x /\ \A i \in 1 .. N : g[i] = step[i][g[i - 1]]
<1> DEFINE Walk(n) == \E g \in [0 .. n -> S] : g[0] = x /\ \A i \in 1 .. n : g[i] = step[i][g[i - 1]]
           Good == {n \in 0 .. N : Walk(n)}
<1>1. Walk(0)
  <2> DEFINE g == [i \in 0 .. 0 |-> x]
  <2>1. g \in [0 .. 0 -> S] /\ g[0] = x /\ \A i \in 1 .. 0 : g[i] = step[i][g[i - 1]]
    OBVIOUS
  <2> QED  BY <2>1
<1>2. ASSUME NEW n \in 1 .. N, Walk(n - 1) PROVE Walk(n)
  <2>1. PICK g \in [0 .. n - 1 -> S] : g[0] = x /\ \A i \in 1 .. n - 1 : g[i] = step[i][g[i - 1]]
    BY <1>2
  <2> DEFINE h == [i \in 0 .. n |-> IF i = n THEN step[n][g[n - 1]] ELSE g[i]]
  <2>2. step[n][g[n - 1]] \in S
    <3>1. g[n - 1] \in S
      BY <2>1
    <3>2. step[n] \in [S -> S]
      OBVIOUS
    <3> QED  BY <3>1, <3>2
  <2>3. \A i \in 0 .. n - 1 : h[i] = g[i] /\ h[i] \in S
    BY <2>1
  <2>4. h[n] = step[n][g[n - 1]]
    OBVIOUS
  <2>5. h \in [0 .. n -> S]
    BY <2>2, <2>1
  <2>6. h[0] = x
    BY <2>1, <2>3
  <2>7. ASSUME NEW i \in 1 .. n PROVE h[i] = step[i][h[i - 1]]
    <3>1. CASE i = n
      <4>1. h[i - 1] = g[n - 1]
        BY <2>3, <3>1
      <4> QED  BY <2>4, <3>1, <4>1
    <3>2. CASE i # n
      <4>1. i \in 1 .. n - 1 /\ i - 1 \in 0 .. n - 1 /\ i \in 0 .. n - 1
        BY <3>2
      <4> QED  BY <2>1, <2>3, <4>1
    <3> QED  BY <3>1, <3>2
  <2> HIDE DEF h
  <2> QED  BY <2>5, <2>6, <2>7
<1> HIDE DEF Walk
<1>3. 0 \in Good /\ \A n \in 1 .. N : n - 1 \in Good => n \in Good
  BY <1>1, <1>2
<1>4. Walk(N)
  <2>1. \A n \in 0 .. N : n \in Good
    <3> HIDE DEF Good
    <3> QED  BY <1>3, UpTo
  <2> QED  BY <2>1
<1> QED  BY <1>4 DEF Walk

(***************************************************************************)
(* Sequences                                                               *)
(***************************************************************************)
LEMMA FrontLast ==
  ASSUME NEW S, NEW s \in Seq(S), s # <<>>
  PROVE  /\ Len(s) \in Nat \ {0}
         /\ Front(s) \in Seq(S) /\ Len(Front(s)) = Len(s) - 1
         /\ \A i \in 1 .. Len(s) - 1 : Front(s)[i] = s[i]
         /\ Last(s) \in S /\ Last(s) = s[Len(s)]
<1>1. Len(s) \in Nat \ {0} /\ DOMAIN s = 1 .. Len(s)
  OBVIOUS
<1>2. \A i \in 1 .. Len(s) : s[i] \in S
  OBVIOUS
<1>3. /\ SubSeq(s, 1, Len(s) - 1) \in Seq(S) /\ Len(SubSeq(s, 1, Len(s) - 1)) = Len(s) - 1
      /\ \A i \in 1 .. Len(s) - 1 : SubSeq(s, 1, Len(s) - 1)[i] = s[i]
  BY <1>1, <1>2
<1> QED  BY <1>1, <1>2, <1>3 DEF Front, Last

LEMMA Appended ==
  ASSUME NEW S, NEW s \in Seq(S), NEW x \in S
  PROVE  /\ Append(s, x) \in Seq(S) /\ Append(s, x) # <<>>
         /\ Len(Append(s, x)) = Len(s) + 1
         /\ \A i \in 1 .. Len(s) : Append(s, x)[i] = s[i]
         /\ Append(s, x)[Len(s) + 1] = x
         /\ Front(Append(s, x)) = s /\ Last(Append(s, x)) = x
<1>1. /\ Append(s, x) \in Seq(S) /\ Len(Append(s, x)) = Len(s) + 1
      /\ \A i \in 1 .. Len(s) : Append(s, x)[i] = s[i]
      /\ Append(s, x)[Len(s) + 1] = x
  OBVIOUS
<1>2. Append(s, x) # <<>>
  BY <1>1
<1>3. Front(Append(s, x)) = s
  BY <1>1 DEF Front
<1> QED  BY <1>1, <1>2, <1>3 DEF Last

LEMMA SameSequence ==
  ASSUME NEW S, NEW s \in Seq(S), NEW t \in Seq(S), Len(s) = Len(t),
         \A i \in 1 .. Len(s) : s[i] = t[i]
  PROVE  s = t
OBVIOUS

LEMMA Rebuilt ==
  ASSUME NEW S, NEW s \in Seq(S), s # <<>>
  PROVE  Append(Front(s), Last(s)) = s
<1>1. Front(s) \in Seq(S) /\ Last(s) \in S /\ Len(s) \in Nat \ {0}
  BY FrontLast
<1>2. Append(Front(s), Last(s)) \in Seq(S) /\ Len(Append(Front(s), Last(s))) = Len(s)
  BY <1>1, FrontLast, Appended
<1>3. ASSUME NEW i \in 1 .. Len(s) PROVE Append(Front(s), Last(s))[i] = s[i]
  <2>1. CASE i = Len(s)
    BY <1>1, <2>1, FrontLast, Appended
  <2>2. CASE i # Len(s)
    <3>1. i \in 1 .. Len(Front(s)) /\ i \in 1 .. Len(s) - 1
      BY <2>2, <1>1, FrontLast
    <3> QED  BY <3>1, <1>1, FrontLast, Appended
  <2> QED  BY <2>1, <2>2
<1> QED  BY <1>2, <1>3, SameSequence

LEMMA Joined ==
  ASSUME NEW S, NEW s \in Seq(S), NEW t \in Seq(S)
  PROVE  /\ s \o t \in Seq(S) /\ Len(s \o t) = Len(s) + Len(t)
         /\ \A i \in 1 .. Len(s) : (s \o t)[i] = s[i]
         /\ \A i \in 1 .. Len(t) : (s \o t)[Len(s) + i] = t[i]
         /\ s \o <<>> = s
OBVIOUS

LEMMA JoinedOne ==
  ASSUME NEW S, NEW s \in Seq(S), NEW a \in S
  PROVE  /\ s \o <<a>> = Append(s, a) /\ s \o <<a>> \in Seq(S) /\ s \o <<a>> # <<>>
         /\ Front(s \o <<a>>) = s /\ Last(s \o <<a>>) = a
<1>1. s \o <<a>> = Append(s, a)
  OBVIOUS
<1>2. /\ Append(s, a) \in Seq(S) /\ Append(s, a) # <<>>
      /\ Front(Append(s, a)) = s /\ Last(Append(s, a)) = a
  BY Appended
<1> QED  BY <1>1, <1>2

LEMMA JoinedTwo ==
  ASSUME NEW S, NEW s \in Seq(S), NEW a \in S, NEW b \in S
  PROVE  s \o <<a, b>> = Append(Append(s, a), b)
OBVIOUS

LEMMA Associative ==
  ASSUME NEW E, NEW s \in Seq(E), NEW t \in Seq(E), NEW u \in Seq(E)
  PROVE  (s \o t) \o u = s \o (t \o u)
<1>1. /\ s \o t \in Seq(E) /\ t \o u \in Seq(E)
      /\ Len(s) \in Nat /\ Len(t) \in Nat /\ Len(u) \in Nat
  BY Joined
<1>2. /\ (s \o t) \o u \in Seq(E) /\ s \o (t \o u) \in Seq(E)
      /\ Len((s \o t) \o u) = Len(s) + Len(t) + Len(u)
      /\ Len(s \o (t \o u)) = Len(s) + Len(t) + Len(u)
  BY <1>1, Joined
<1>3. ASSUME NEW i \in 1 .. Len(s) + Len(t) + Len(u)
      PROVE  ((s \o t) \o u)[i] = (s \o (t \o u))[i]
  BY <1>1
<1> QED  BY <1>2, <1>3, SameSequence

LEMMA JoinedOneMore ==
  ASSUME NEW S, NEW s \in Seq(S), NEW t \in Seq(S), NEW a \in S
  PROVE  (s \o t) \o <<a>> = s \o Append(t, a)
<1> DEFINE u == <<a>>
<1>1. u \in Seq(S)
  OBVIOUS
<1>2. t \o u = Append(t, a)
  BY JoinedOne
<1> HIDE DEF u
<1>3. (s \o t) \o u = s \o (t \o u)
  BY <1>1, Associative
<1> QED  BY <1>2, <1>3 DEF u

JoinsOneMore(S) == \A s, t \in Seq(S) : \A a \in S : (s \o t) \o <<a>> = s \o Append(t, a)

LEMMA AllJoinOneMore == ASSUME NEW S PROVE JoinsOneMore(S)
<1>1. ASSUME NEW s \in Seq(S), NEW t \in Seq(S), NEW a \in S
      PROVE  (s \o t) \o <<a>> = s \o Append(t, a)
  BY ZenonT(60), JoinedOneMore
<1> QED  BY <1>1 DEF JoinsOneMore

(***************************************************************************)
(* Sequences of sequences, one after the other                             *)
(***************************************************************************)
\* Folded, for sequences.
Foldable(S, N) ==
  \A step \in [1 .. N -> [S -> S]] :
    \E g \in [0 .. N -> S] : g[0] = <<>> /\ \A i \in 1 .. N : g[i] = step[i][g[i - 1]]

LEMMA SequencesFolded ==
  ASSUME NEW E, NEW N \in Nat
  PROVE  Foldable(Seq(E), N)
<1> DEFINE S == Seq(E)
           none == <<>>
<1>1. none \in S
  OBVIOUS
<1> HIDE DEF S, none
<1>2. \A step \in [1 .. N -> [S -> S]] :
        \E g \in [0 .. N -> S] : g[0] = none /\ \A i \in 1 .. N : g[i] = step[i][g[i - 1]]
  <2> TAKE step \in [1 .. N -> [S -> S]]
  <2> QED  BY <1>1, Folded
<1> QED  BY <1>2 DEF S, none, Foldable

\* The function that FlattenSeq walks a sequence with.
Walks(s, f) == f = [i \in 1 .. Len(s) |-> IF i = 1 THEN s[i] ELSE f[i - 1] \o s[i]]

LEMMA FlattenWalks ==
  ASSUME NEW E, NEW s \in Seq(Seq(E)), Len(s) # 0
  PROVE  \E f : Walks(s, f) /\ FlattenSeq(s) = f[Len(s)]
<1> DEFINE n == Len(s)
           S == Seq(E)
           step == [i \in 1 .. n |-> [a \in S |-> a \o s[i]]]
<1>1. n \in Nat /\ \A i \in 1 .. n : s[i] \in S
  OBVIOUS
<1>2. step \in [1 .. n -> [S -> S]] /\ <<>> \in S
  <2>1. \A i \in 1 .. n : \A a \in S : a \o s[i] \in S
    BY <1>1, Joined
  <2> HIDE DEF S
  <2>2. step \in [1 .. n -> [S -> S]]
    BY <2>1
  <2> QED  BY <2>2 DEF S
<1>3. PICK g \in [0 .. n -> S] : g[0] = <<>> /\ \A i \in 1 .. n : g[i] = step[i][g[i - 1]]
  <2>1. n \in Nat
    BY <1>1
  <2> HIDE DEF n, S, step
  <2>2. Foldable(S, n)
    BY <2>1, SequencesFolded DEF S
  <2> QED  BY <1>2, <2>2 DEF Foldable
<1>4. ASSUME NEW i \in 1 .. n PROVE g[i] = g[i - 1] \o s[i]
  <2>1. g[i - 1] \in S
    <3>1. i - 1 \in 0 .. n
      BY <1>1
    <3> QED  BY <3>1
  <2>2. step[i] = [a \in S |-> a \o s[i]]
    OBVIOUS
  <2> HIDE DEF S, step
  <2> QED  BY <2>1, <2>2, <1>3
<1> DEFINE f == [i \in 1 .. n |-> g[i]]
<1>5. Walks(s, f)
  <2>1. ASSUME NEW i \in 1 .. n PROVE f[i] = IF i = 1 THEN s[i] ELSE f[i - 1] \o s[i]
    <3>1. CASE i = 1
      <4>1. s[1] \in Seq(E) /\ 1 - 1 = 0
        BY <1>1, <3>1
      <4>3. g[1] = <<>> \o s[1]
        BY <4>1, <1>3, <1>4, <3>1
      <4>2. <<>> \o s[1] = s[1]
        BY <4>1
      <4> QED  BY <3>1, <4>2, <4>3
    <3>2. CASE i # 1
      <4>1. i - 1 \in 1 .. n
        BY <3>2, <1>1
      <4> QED  BY <3>2, <4>1, <1>4
    <3> QED  BY <3>1, <3>2
  <2>2. f = [i \in 1 .. n |-> IF i = 1 THEN s[i] ELSE f[i - 1] \o s[i]]
    BY <2>1
  <2> HIDE DEF f
  <2> QED  BY <2>2 DEF Walks
<1> DEFINE c == CHOOSE h : Walks(s, h)
<1>6. Walks(s, c)
  <2> HIDE DEF f
  <2> QED  BY <1>5
<1>7. FlattenSeq(s) = c[Len(s)]
  BY DEF FlattenSeq, Walks
<1> HIDE DEF c
<1> QED  BY <1>6, <1>7

LEMMA FlattenAppend ==
  ASSUME NEW E, NEW s \in Seq(Seq(E)), NEW x \in Seq(E)
  PROVE  FlattenSeq(Append(s, x)) = FlattenSeq(s) \o x /\ FlattenSeq(s) \in Seq(E)
<1> DEFINE n == Len(s)
           S == Seq(E)
           t == Append(s, x)
<1>1. n \in Nat /\ \A i \in 1 .. n : s[i] \in S
  OBVIOUS
<1>2. t \in Seq(S) /\ Len(t) = n + 1 /\ t[n + 1] = x /\ \A i \in 1 .. n : t[i] = s[i]
  <2>1. s \in Seq(S) /\ x \in S
    OBVIOUS
  <2> HIDE DEF S
  <2> QED  BY <2>1, Appended
<1>3. Len(t) # 0
  BY <1>1, <1>2
<1> HIDE DEF t
<1>4. PICK f : Walks(t, f) /\ FlattenSeq(t) = f[Len(t)]
  BY <1>2, <1>3, FlattenWalks
<1>5. /\ f[n + 1] = IF n + 1 = 1 THEN x ELSE f[n] \o x
      /\ \A i \in 1 .. n : f[i] = IF i = 1 THEN s[i] ELSE f[i - 1] \o s[i]
      /\ FlattenSeq(t) = f[n + 1]
  <2>1. \A i \in 1 .. n + 1 : f[i] = IF i = 1 THEN t[i] ELSE f[i - 1] \o t[i]
    BY <1>2, <1>4 DEF Walks
  <2>2. n + 1 \in 1 .. n + 1 /\ n + 1 - 1 = n
    BY <1>1
  <2>3. f[n + 1] = IF n + 1 = 1 THEN x ELSE f[n] \o x
    BY <2>1, <2>2, <1>2
  <2>4. ASSUME NEW i \in 1 .. n PROVE f[i] = IF i = 1 THEN s[i] ELSE f[i - 1] \o s[i]
    <3>1. i \in 1 .. n + 1
      BY <1>1
    <3> QED  BY <3>1, <2>1, <1>2
  <2>5. FlattenSeq(t) = f[n + 1]
    BY <1>2, <1>4
  <2> QED  BY <2>3, <2>4, <2>5
<1>6. CASE n = 0
  <2>1. s = <<>> /\ FlattenSeq(s) = <<>>
    BY <1>6 DEF FlattenSeq
  <2>2. <<>> \o x = x
    OBVIOUS
  <2>3. FlattenSeq(t) = x
    BY <1>5, <1>6
  <2>4. FlattenSeq(Append(s, x)) = x
    BY <2>3 DEF t
  <2>5. <<>> \in Seq(E)
    OBVIOUS
  <2> QED  BY <2>1, <2>2, <2>4, <2>5
<1>7. CASE n # 0
  <2>1. PICK h : Walks(s, h) /\ FlattenSeq(s) = h[n]
    BY <1>7, FlattenWalks
  <2>2. \A i \in 1 .. n : h[i] = IF i = 1 THEN s[i] ELSE h[i - 1] \o s[i]
    BY <2>1 DEF Walks
  <2> DEFINE Q(i) == i = 0 \/ (f[i] = h[i] /\ h[i] \in S)
             P == {i \in 0 .. n : Q(i)}
  <2>3. 0 \in P /\ \A i \in 1 .. n : i - 1 \in P => i \in P
    <3>1. 0 \in P
      <4>1. 0 \in 0 .. n
        BY <1>1
      <4>2. Q(0)
        OBVIOUS
      <4> HIDE DEF Q, n
      <4> QED  BY <4>1, <4>2
    <3>2. ASSUME NEW i \in 1 .. n, i - 1 \in P PROVE i \in P
      <4>0. i \in 0 .. n /\ s[i] \in S
        BY <1>1
      <4>1. CASE i = 1
        <5>1. f[i] = s[i] /\ h[i] = s[i]
          BY <4>1, <1>5, <2>2
        <5> QED  BY <4>0, <5>1
      <4>2. CASE i # 1
        <5>1. f[i - 1] = h[i - 1] /\ h[i - 1] \in S
          BY <4>2, <3>2, <1>1
        <5>2. f[i] = f[i - 1] \o s[i] /\ h[i] = h[i - 1] \o s[i] /\ s[i] \in S
          BY <4>2, <1>1, <1>5, <2>2
        <5>3. h[i - 1] \o s[i] \in S
          BY <5>1, <5>2, Joined
        <5>4. f[i] = h[i] /\ h[i] \in S
          <6> HIDE DEF S
          <6> QED  BY <5>1, <5>2, <5>3
        <5> QED  BY <4>0, <5>4
      <4> QED  BY <4>1, <4>2
    <3> QED  BY <3>1, <3>2
  <2>4. n \in P
    <3>1. \A i \in 0 .. n : i \in P
      <4> HIDE DEF P
      <4> QED  BY <2>3, <1>1, UpTo
    <3> QED  BY <3>1, <1>1
  <2>5. f[n] = h[n] /\ h[n] \in S
    BY <2>4, <1>7
  <2>6. FlattenSeq(t) = h[n] \o x
    BY <2>5, <1>5, <1>7, <1>1
  <2> QED  BY <2>1, <2>5, <2>6 DEF t
<1> QED  BY <1>6, <1>7

LEMMA FlattenNone == FlattenSeq(<<>>) = <<>>
BY DEF FlattenSeq

LEMMA PrefixIs ==
  ASSUME NEW S, NEW s \in Seq(S)
  PROVE  /\ SubSeq(s, 1, 0) = <<>> /\ SubSeq(s, 1, Len(s)) = s
         /\ \A m \in 0 .. Len(s) :
              /\ SubSeq(s, 1, m) \in Seq(S) /\ Len(SubSeq(s, 1, m)) = m
              /\ \A i \in 1 .. m : SubSeq(s, 1, m)[i] = s[i]
         /\ \A m \in 1 .. Len(s) : SubSeq(s, 1, m) = Append(SubSeq(s, 1, m - 1), s[m])
<1>1. Len(s) \in Nat /\ \A i \in 1 .. Len(s) : s[i] \in S
  OBVIOUS
<1>2. ASSUME NEW m \in 0 .. Len(s)
      PROVE  /\ SubSeq(s, 1, m) \in Seq(S) /\ Len(SubSeq(s, 1, m)) = m
             /\ \A i \in 1 .. m : SubSeq(s, 1, m)[i] = s[i]
  BY <1>1
<1>3. SubSeq(s, 1, 0) = <<>>
  BY <1>1
<1>4. SubSeq(s, 1, Len(s)) = s
  <2>1. Len(s) \in 0 .. Len(s)
    BY <1>1
  <2> QED  BY <2>1, <1>2, SameSequence
<1>5. ASSUME NEW m \in 1 .. Len(s)
      PROVE  SubSeq(s, 1, m) = Append(SubSeq(s, 1, m - 1), s[m])
  <2>1. m \in 0 .. Len(s) /\ m - 1 \in 0 .. Len(s) /\ s[m] \in S
    BY <1>1
  <2> DEFINE u == SubSeq(s, 1, m - 1)
             t == SubSeq(s, 1, m)
  <2>2. u \in Seq(S) /\ Len(u) = m - 1 /\ \A i \in 1 .. m - 1 : u[i] = s[i]
    BY <1>2, <2>1
  <2>3. t \in Seq(S) /\ Len(t) = m /\ \A i \in 1 .. m : t[i] = s[i]
    BY <1>2, <2>1
  <2> HIDE DEF u, t
  <2>4. /\ Append(u, s[m]) \in Seq(S) /\ Len(Append(u, s[m])) = m
        /\ \A i \in 1 .. m - 1 : Append(u, s[m])[i] = u[i]
        /\ Append(u, s[m])[m] = s[m]
    BY <2>1, <2>2, Appended
  <2>5. ASSUME NEW i \in 1 .. m PROVE t[i] = Append(u, s[m])[i]
    <3>1. CASE i = m
      BY <3>1, <2>3, <2>4
    <3>2. CASE i # m
      <4>1. i \in 1 .. m - 1
        BY <3>2
      <4> QED  BY <4>1, <2>2, <2>3, <2>4
    <3> QED  BY <3>1, <3>2
  <2>6. t = Append(u, s[m])
    BY <2>3, <2>4, <2>5, SameSequence
  <2> QED  BY <2>6 DEF u, t
<1> QED  BY <1>2, <1>3, <1>4, <1>5

\* The first m sequences of s, one after the other.
Flattened(s, m) == FlattenSeq(SubSeq(s, 1, m))

LEMMA FlattenedIs ==
  ASSUME NEW E, NEW s \in Seq(Seq(E))
  PROVE  /\ Flattened(s, 0) = <<>> /\ Flattened(s, Len(s)) = FlattenSeq(s)
         /\ \A m \in 0 .. Len(s) : Flattened(s, m) \in Seq(E)
         /\ \A m \in 1 .. Len(s) : Flattened(s, m) = Flattened(s, m - 1) \o s[m]
<1> DEFINE S == Seq(E)
<1>1. Len(s) \in Nat /\ s \in Seq(S) /\ \A m \in 1 .. Len(s) : s[m] \in S
  OBVIOUS
<1>2. /\ SubSeq(s, 1, 0) = <<>> /\ SubSeq(s, 1, Len(s)) = s
      /\ \A m \in 0 .. Len(s) : SubSeq(s, 1, m) \in Seq(S)
      /\ \A m \in 1 .. Len(s) : SubSeq(s, 1, m) = Append(SubSeq(s, 1, m - 1), s[m])
  <2> HIDE DEF S
  <2> QED  BY <1>1, PrefixIs
<1>3. ASSUME NEW m \in 1 .. Len(s)
      PROVE  Flattened(s, m) = Flattened(s, m - 1) \o s[m] /\ Flattened(s, m - 1) \in S
  <2> DEFINE u == SubSeq(s, 1, m - 1)
  <2>1. m - 1 \in 0 .. Len(s) /\ s[m] \in S
    BY <1>1
  <2>2. u \in Seq(Seq(E)) /\ s[m] \in Seq(E) /\ SubSeq(s, 1, m) = Append(u, s[m])
    BY <1>2, <2>1
  <2>3. Flattened(s, m - 1) = FlattenSeq(u) /\ Flattened(s, m) = FlattenSeq(Append(u, s[m]))
    BY <2>2 DEF Flattened
  <2> HIDE DEF u
  <2>4. FlattenSeq(Append(u, s[m])) = FlattenSeq(u) \o s[m] /\ FlattenSeq(u) \in Seq(E)
    BY <2>2, FlattenAppend
  <2> QED  BY <2>3, <2>4
<1>4. Flattened(s, 0) = <<>> /\ Flattened(s, Len(s)) = FlattenSeq(s)
  BY <1>2, FlattenNone DEF Flattened
<1>5. ASSUME NEW m \in 0 .. Len(s) PROVE Flattened(s, m) \in S
  <2>1. CASE m = 0
    <3>1. <<>> \in Seq(E)
      OBVIOUS
    <3> QED  BY <2>1, <3>1, <1>4
  <2>2. CASE m # 0
    <3>1. m \in 1 .. Len(s) /\ s[m] \in Seq(E)
      BY <1>1, <2>2
    <3>2. Flattened(s, m - 1) \in Seq(E) /\ Flattened(s, m) = Flattened(s, m - 1) \o s[m]
      BY <3>1, <1>3
    <3>3. Flattened(s, m - 1) \o s[m] \in Seq(E)
      BY <3>1, <3>2, Joined
    <3> QED  BY <3>2, <3>3
  <2> QED  BY <2>1, <2>2
<1> QED  BY <1>3, <1>4, <1>5

LEMMA FlattenTyped == ASSUME NEW E, NEW s \in Seq(Seq(E)) PROVE FlattenSeq(s) \in Seq(E)
<1>1. <<>> \in Seq(E)
  OBVIOUS
<1> QED  BY <1>1, FlattenAppend

LEMMA LeastIsMin ==
  ASSUME NEW S \in SUBSET Nat, S # {}
  PROVE  Min(S) \in S /\ \A n \in S : Min(S) <= n
BY Least DEF Min

\* What SelectInSeq returns.
LEMMA SelectedIs ==
  ASSUME NEW L \in Nat, NEW I \in SUBSET (1 .. L), NEW first, first = IF I # {} THEN Min(I) ELSE 0
  PROVE  /\ first \in 0 .. L
         /\ first # 0 => first \in I
         /\ \A j \in 1 .. L : first = 0 \/ j < first => j \notin I
<1>1. I \in SUBSET Nat
  OBVIOUS
<1>2. CASE I = {}
  BY <1>2
<1>3. CASE I # {}
  <2>1. Min(I) \in I /\ \A j \in I : Min(I) <= j
    BY <1>1, <1>3, LeastIsMin
  <2>2. first \in I /\ \A j \in I : first <= j
    BY <1>3, <2>1
  <2>3. first \in Nat /\ first # 0 /\ \A j \in 1 .. L : j \in Nat
    BY <2>2
  <2> QED  BY <2>2, <2>3
<1> QED  BY <1>2, <1>3

-----------------------------------------------------------------------------
(***************************************************************************)
(* Recursion over ranks                                                    *)
(***************************************************************************)
LEMMA RanksAreBounded ==
  ASSUME NEW L \in Nat, NEW rank \in [1 .. L -> Nat]
  PROVE  \E N \in Nat : \A x \in 1 .. L : rank[x] < N
<1> DEFINE P == {m \in 0 .. L : \E N \in Nat : \A x \in 1 .. m : rank[x] < N}
<1>1. 0 \in P
  OBVIOUS
<1>2. ASSUME NEW m \in 1 .. L, m - 1 \in P PROVE m \in P
  <2>1. PICK N \in Nat : \A x \in 1 .. m - 1 : rank[x] < N
    BY <1>2
  <2> DEFINE M == IF rank[m] < N THEN N ELSE rank[m] + 1
  <2>2. M \in Nat /\ rank[m] < M /\ N <= M /\ rank[m] \in Nat
    BY <2>1
  <2> HIDE DEF M
  <2>3. ASSUME NEW x \in 1 .. m PROVE rank[x] < M
    <3>1. CASE x = m
      BY <3>1, <2>2
    <3>2. CASE x # m
      <4>1. x \in 1 .. m - 1 /\ rank[x] \in Nat
        BY <3>2
      <4> QED  BY <4>1, <2>1, <2>2
    <3> QED  BY <3>1, <3>2
  <2> QED  BY <2>2, <2>3
<1>3. L \in P
  <2> HIDE DEF P
  <2>1. \A m \in 0 .. L : m \in P
    BY <1>1, <1>2, UpTo
  <2> QED  BY <2>1
<1> QED  BY <1>3

\* Folded, and with the same step each time.
Folds(S, N) ==
  \A x \in S, step \in [1 .. N -> [S -> S]] :
    \E g \in [0 .. N -> S] : g[0] = x /\ \A i \in 1 .. N : g[i] = step[i][g[i - 1]]

Iterates(S, N) ==
  \A x \in S, step \in [S -> S] :
    \E g \in [0 .. N -> S] : g[0] = x /\ \A i \in 1 .. N : g[i] = step[g[i - 1]]

LEMMA Iterated == ASSUME NEW S, NEW N \in Nat PROVE Folds(S, N) /\ Iterates(S, N)
<1>1. Folds(S, N)
  BY Folded DEF Folds
<1>2. ASSUME NEW x \in S, NEW step \in [S -> S]
      PROVE  \E g \in [0 .. N -> S] : g[0] = x /\ \A i \in 1 .. N : g[i] = step[g[i - 1]]
  <2> DEFINE each == [i \in 1 .. N |-> step]
  <2>1. each \in [1 .. N -> [S -> S]] /\ \A i \in 1 .. N : each[i] = step
    OBVIOUS
  <2> HIDE DEF each
  <2>2. \E g \in [0 .. N -> S] : g[0] = x /\ \A i \in 1 .. N : g[i] = each[i][g[i - 1]]
    BY <2>1, <1>1 DEF Folds
  <2> QED  BY <2>1, <2>2
<1> QED  BY <1>1, <1>2 DEF Iterates

\* A function is defined by recursion when what it is for x depends only on what
\* it is for those of a lower rank.
DependsOnLower(E, S, rank, step) ==
  \A f, h \in [E -> S] : \A x \in E :
    (\A y \in E : rank[y] < rank[x] => f[y] = h[y]) => step[f][x] = step[h][x]

HasRecursion(E, S, rank) ==
  \A step \in [[E -> S] -> [E -> S]] :
    DependsOnLower(E, S, rank, step) => \E f \in [E -> S] : f = step[f]

LEMMA RecursionEnds ==
  ASSUME NEW L \in Nat, NEW E, E = 1 .. L, NEW rank \in [E -> Nat], NEW S, S # {}
  PROVE  HasRecursion(E, S, rank)
<1> SUFFICES ASSUME NEW step \in [[E -> S] -> [E -> S]], DependsOnLower(E, S, rank, step)
             PROVE  \E f \in [E -> S] : f = step[f]
  BY DEF HasRecursion
<1>0. PICK s \in S : TRUE
  OBVIOUS
<1> DEFINE G == [E -> S]
           z == [x \in E |-> s]
<1>1. PICK N \in Nat : \A x \in E : rank[x] < N
  BY RanksAreBounded
<1>2. z \in G
  OBVIOUS
<1> HIDE DEF z
<1>3. \E g \in [0 .. N + 1 -> G] : g[0] = z /\ \A i \in 1 .. N + 1 : g[i] = step[g[i - 1]]
  <2> DEFINE M == N + 1
  <2>1. M \in Nat /\ step \in [G -> G]
    OBVIOUS
  <2> HIDE DEF G, M
  <2>2. Iterates(G, M)
    BY <2>1, Iterated
  <2>3. \E g \in [0 .. M -> G] : g[0] = z /\ \A i \in 1 .. M : g[i] = step[g[i - 1]]
    BY <1>2, <2>1, <2>2 DEF Iterates
  <2> QED  BY <2>3 DEF M
<1>4. PICK g \in [0 .. N + 1 -> G] : g[0] = z /\ \A i \in 1 .. N + 1 : g[i] = step[g[i - 1]]
  BY <1>3
<1>5. \A i \in 0 .. N + 1 : g[i] \in G
  BY <1>4
<1> DEFINE P == {i \in 0 .. N : \A x \in E : rank[x] < i => g[i + 1][x] = g[i][x]}
<1>6. 0 \in P
  <2>1. \A x \in E : ~(rank[x] < 0)
    OBVIOUS
  <2> QED  BY <2>1
<1>7. ASSUME NEW i \in 1 .. N, i - 1 \in P PROVE i \in P
  <2>1. /\ i \in 0 .. N /\ i \in 0 .. N + 1 /\ i + 1 \in 1 .. N + 1 /\ (i + 1) - 1 = i
        /\ i - 1 \in 0 .. N + 1 /\ i \in 1 .. N + 1 /\ (i - 1) + 1 = i
    OBVIOUS
  <2>2. g[i + 1] = step[g[i]] /\ g[i] = step[g[i - 1]]
    BY <1>4, <2>1
  <2>3. ASSUME NEW x \in E, rank[x] < i PROVE g[i + 1][x] = g[i][x]
    <3>1. ASSUME NEW y \in E, rank[y] < rank[x] PROVE g[i][y] = g[i - 1][y]
      <4>1. rank[y] \in Nat /\ rank[x] \in Nat
        OBVIOUS
      <4>2. rank[y] < i - 1
        BY <2>3, <3>1, <4>1
      <4> QED  BY <1>7, <2>1, <4>2
    <3>2. g[i] \in G /\ g[i - 1] \in G
      BY <1>5, <2>1
    <3>3. step[g[i]][x] = step[g[i - 1]][x]
      BY <3>1, <3>2 DEF DependsOnLower
    <3> QED  BY <2>2, <3>3
  <2> QED  BY <2>1, <2>3
<1>8. N \in P
  <2> HIDE DEF P
  <2>1. \A i \in 0 .. N : i \in P
    BY <1>6, <1>7, UpTo
  <2> QED  BY <2>1
<1>9. g[N] \in G /\ g[N + 1] \in G /\ g[N + 1] = step[g[N]]
  <2>1. N \in 0 .. N + 1 /\ N + 1 \in 0 .. N + 1 /\ N + 1 \in 1 .. N + 1 /\ (N + 1) - 1 = N
    OBVIOUS
  <2> QED  BY <1>4, <1>5, <2>1
<1>10. \A x \in E : g[N + 1][x] = g[N][x]
  BY <1>1, <1>8
<1>11. g[N + 1] = g[N]
  BY <1>9, <1>10
<1> QED  BY <1>9, <1>11
=============================================================================
