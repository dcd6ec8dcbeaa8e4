--------------------------- MODULE ContextsProofs ---------------------------
(***************************************************************************)
(* The indices and levels that the code generator writes into a function   *)
(* are good for every run of it: each array has the index, and each        *)
(* reference leads, through the contexts of the run, to the variable whose *)
(* name the text has. The argument has two layers: TextInv says what the   *)
(* descriptions are while they are compiled, and RunInv what closures and  *)
(* contexts are once the program runs, when the descriptions no longer     *)
(* change. What the recursive functions of the model compute (levels,      *)
(* locals, arguments) is shown by induction on how often they step: a set  *)
(* of numbers has a least one, so a set that has 0, and each successor of  *)
(* what it has, has them all.                                              *)
(***************************************************************************)
EXTENDS Contexts, SequenceLemmas

Instructions ==
  [op : {"get", "set"}, how : {"own", "reference", "unspecified"}, index : Nat, name : Names]
References == [context_level : Nat, variable_index : Nat]
Descriptions ==
  [parent : Nat, argument_names : Seq(Names), parallel : BOOLEAN,
   defined_locals : Seq(Names), variable_references : Seq(References),
   variable_reference_names : Seq(Names), code : SUBSET Instructions]

Stored == Values \cup {Nil, Class}
Arguments == [names : Seq(Names \cup {Nil}), data : Seq(Values \cup {Nil})]
Closures ==
  [desc : Nat, declaration_context : Nat \cup {NotGiven},
   variable_references : Seq([context : Nat, variable_index : Nat])]
Records ==
  [function : Nat, locals : Seq(Stored), self : Objects \cup {NotGiven},
   args : {NotGiven} \cup Seq(Values \cup {Nil})]

\* The arrays a function can have for its locals, and those of a context with as
\* many names as a function has.
Locals == {a \in Seq(Names) : NoDuplicates(a) /\ 1 <= Len(a) /\ a[1] = It}
Fitting(n) == {a \in Seq(Stored) : Len(a) <= n}

(***************************************************************************)
(* Arrays                                                                  *)
(***************************************************************************)
\* ArrayFind returns the index of the value, and -1 only if no place has it.
LEMMA FindIs ==
  ASSUME NEW T, NEW a \in Seq(T), NEW val
  PROVE  /\ ArrayFind(a, val) \in -1 .. Len(a) - 1
         /\ ArrayFind(a, val) >= 0 => a[ArrayFind(a, val) + 1] = val
         /\ (\E i \in 1 .. Len(a) : a[i] = val) => ArrayFind(a, val) >= 0
<1> DEFINE S == {i \in DOMAIN a : a[i] = val}
<1>1. DOMAIN a = 1 .. Len(a) /\ Len(a) \in Nat /\ S \in SUBSET Nat
  OBVIOUS
<1>2. CASE S = {}
  BY <1>1, <1>2 DEF ArrayFind
<1>3. CASE S # {}
  <2>1. PICK m \in S : \A n \in S : m <= n
    <3> HIDE DEF S
    <3> QED  BY <1>1, <1>3, Least
  <2>2. m \in DOMAIN a /\ a[m] = val /\ \A j \in 1 .. (m - 1) : a[j] # val
    BY <1>1, <2>1
  <2> DEFINE F(i) == a[i] = val /\ \A j \in 1 .. (i - 1) : a[j] # val
             k == CHOOSE i \in DOMAIN a : F(i)
  <2>3. k \in DOMAIN a /\ F(k)
    <3>1. \E i \in DOMAIN a : F(i)
      BY <2>2
    <3> HIDE DEF F
    <3> QED  BY <3>1
  <2>4. ArrayFind(a, val) = k - 1
    BY <2>2 DEF ArrayFind
  <2> HIDE DEF k
  <2> QED  BY <1>1, <2>3, <2>4
<1> QED  BY <1>2, <1>3

\* An array only grows by what is added to it, and has the value once.
LEMMA AddedIs ==
  ASSUME NEW T, NEW a \in Seq(T), NEW val \in T
  PROVE  /\ Added(a, val) \in Seq(T)
         /\ Len(a) <= Len(Added(a, val)) /\ 1 <= Len(Added(a, val))
         /\ \A i \in 1 .. Len(a) : Added(a, val)[i] = a[i]
         /\ \E i \in 1 .. Len(Added(a, val)) : Added(a, val)[i] = val
         /\ NoDuplicates(a) => NoDuplicates(Added(a, val))
<1>1. CASE ArrayFind(a, val) >= 0
  BY <1>1, FindIs DEF Added
<1>2. CASE ~(ArrayFind(a, val) >= 0)
  <2>1. Added(a, val) = Append(a, val)
    BY <1>2 DEF Added
  <2>2. \A i \in 1 .. Len(a) : a[i] # val
    BY <1>2, FindIs
  <2>3. /\ Append(a, val) \in Seq(T) /\ Len(Append(a, val)) = Len(a) + 1 /\ Len(a) \in Nat
        /\ Append(a, val)[Len(a) + 1] = val
        /\ \A i \in 1 .. Len(a) : Append(a, val)[i] = a[i]
    OBVIOUS
  <2> DEFINE b == Append(a, val)
  <2> HIDE DEF b
  <2>4. /\ b \in Seq(T) /\ Len(b) = Len(a) + 1 /\ b[Len(a) + 1] = val
        /\ \A i \in 1 .. Len(a) : b[i] = a[i]
    BY <2>3 DEF b
  <2>5. NoDuplicates(a) => NoDuplicates(b)
    <3>1. DOMAIN b = 1 .. Len(a) + 1 /\ DOMAIN a = 1 .. Len(a) /\ Len(a) \in Nat
      BY <2>4
    <3>2. \A i \in DOMAIN b : i \in DOMAIN a \/ i = Len(a) + 1
      BY <3>1
    <3> QED  BY <2>2, <2>4, <3>1, <3>2 DEF NoDuplicates
  <2>6. Added(a, val) = b
    BY <2>1 DEF b
  <2>7. Len(a) + 1 \in 1 .. Len(b)
    BY <2>4
  <2> QED  BY <2>4, <2>5, <2>6, <2>7
<1> QED  BY <1>1, <1>2

\* array_set makes an array as long as the index needs.
LEMMA SetIs ==
  ASSUME NEW T, NEW a \in Seq(T), NEW idx \in Nat, NEW val \in T, Nil \in T
  PROVE  /\ ArraySet(a, idx, val) \in Seq(T)
         /\ Len(ArraySet(a, idx, val)) = IF idx >= Len(a) THEN idx + 1 ELSE Len(a)
<1> DEFINE b == IF idx >= Len(a) THEN ArrayGrow(a, idx + 1) ELSE a
<1>1. b \in Seq(T) /\ Len(b) = (IF idx >= Len(a) THEN idx + 1 ELSE Len(a))
  <2>1. CASE idx >= Len(a)
    <3> DEFINE g == [i \in 1 .. idx + 1 |-> IF i <= Len(a) THEN a[i] ELSE Nil]
    <3>1. \A i \in 1 .. idx + 1 : (IF i <= Len(a) THEN a[i] ELSE Nil) \in T
      OBVIOUS
    <3>2. g \in Seq(T) /\ Len(g) = idx + 1
      BY <3>1
    <3> QED  BY <2>1, <3>2 DEF ArrayGrow
  <2>2. CASE ~(idx >= Len(a))
    BY <2>2
  <2> QED  BY <2>1, <2>2
<1>2. ArraySet(a, idx, val) = [b EXCEPT ![idx + 1] = val]
  BY DEF ArraySet
<1> HIDE DEF b
<1> QED  BY <1>1, <1>2

\* snow_arguments_add_name leaves an array of names.
LEMMA AddNameIs ==
  ASSUME NEW T, NEW names \in Seq(T), NEW sym \in T, Nil \in T
  PROVE  AddName(names, sym) \in Seq(T)
<1>1. CASE ArrayFind(names, sym) >= 0 \/ ArrayFind(names, Nil) < 0
  BY <1>1, AddedIs DEF AddName
<1>2. CASE ~(ArrayFind(names, sym) >= 0 \/ ArrayFind(names, Nil) < 0)
  <2>1. ArrayFind(names, Nil) \in Nat
    BY <1>2, FindIs
  <2> QED  BY <1>2, <2>1, SetIs DEF AddName
<1> QED  BY <1>1, <1>2

(***************************************************************************)
(* Recursive functions                                                     *)
(***************************************************************************)
\* One level further out.
Up(f) == IF f = 0 THEN 0 ELSE desc[f].parent

Ordered ==
  /\ desc \in Seq(Descriptions) /\ 1 \in DOMAIN desc
  /\ \A f \in DOMAIN desc : desc[f].parent \in 0 .. (f - 1)

\* The codegens by level, as one function of the level.
LEMMA CodegenWalks ==
  ASSUME Ordered, NEW f \in DOMAIN desc, NEW level \in Nat
  PROVE  \E g \in [0 .. level -> 0 .. Len(desc)] :
           /\ g[0] = f
           /\ \A i \in 1 .. level : g[i] = Up(g[i - 1])
           /\ \A m \in 0 .. level : Codegen(f, m) = g[m]
<1> DEFINE S == 0 .. Len(desc)
           step == [i \in 1 .. level |-> [p \in S |-> Up(p)]]
<1>0. DOMAIN desc = 1 .. Len(desc) /\ Len(desc) \in Nat
  BY DEF Ordered
<1>1. \A p \in S : Up(p) \in S
  BY <1>0 DEF Ordered, Up
<1>2. step \in [1 .. level -> [S -> S]] /\ f \in S
  BY <1>0, <1>1
<1>3. PICK g \in [0 .. level -> S] : g[0] = f /\ \A i \in 1 .. level : g[i] = step[i][g[i - 1]]
  <2> HIDE DEF S, step
  <2> QED  BY <1>2, Folded
<1>4. \A i \in 1 .. level : g[i] = Up(g[i - 1])
  <2> TAKE i \in 1 .. level
  <2>1. g[i - 1] \in S
    BY <1>3
  <2> QED  BY <1>3, <2>1
<1>5. ASSUME NEW m \in 0 .. level PROVE Codegen(f, m) = g[m]
  <2> DEFINE W(r) == r = [l \in 0 .. m |->
               IF l = 0 THEN f ELSE IF r[l - 1] = 0 THEN 0 ELSE desc[r[l - 1]].parent]
             h == [l \in 0 .. m |-> g[l]]
             r0 == CHOOSE r : W(r)
  <2>1. W(h)
    <3>1. \A l \in 0 .. m : h[l] = IF l = 0 THEN f ELSE IF h[l - 1] = 0 THEN 0 ELSE desc[h[l - 1]].parent
      BY <1>3, <1>4 DEF Up
    <3> QED  BY <3>1
  <2>2. W(r0)
    <3> HIDE DEF W
    <3> QED  BY <2>1
  <2>3. Codegen(f, m) = r0[m]
    BY DEF Codegen
  <2> HIDE DEF r0
  <2>4. \A l \in 0 .. m : r0[l] = IF l = 0 THEN f ELSE Up(r0[l - 1])
    BY <2>2 DEF Up
  <2> DEFINE P == {l \in 0 .. m : r0[l] = g[l]}
  <2>5. 0 \in P
    BY <1>3, <2>4
  <2>6. \A l \in 1 .. m : l - 1 \in P => l \in P
    BY <1>4, <2>4
  <2>7. m \in Nat /\ m \in 0 .. m
    OBVIOUS
  <2>8. m \in P
    <3> HIDE DEF P
    <3> QED  BY <2>5, <2>6, <2>7, UpTo
  <2> QED  BY <2>3, <2>8
<1> QED  BY <1>3, <1>4, <1>5

\* Each level is one step outwards from the last; outside of all is 0.
LEMMA CodegenIs ==
  Ordered => \A f \in DOMAIN desc, level \in Nat :
    /\ Codegen(f, 0) = f
    /\ Codegen(f, level) \in 0 .. Len(desc)
    /\ Codegen(f, level + 1) = Up(Codegen(f, level))
<1> SUFFICES ASSUME Ordered, NEW f \in DOMAIN desc, NEW level \in Nat
             PROVE  /\ Codegen(f, 0) = f
                    /\ Codegen(f, level) \in 0 .. Len(desc)
                    /\ Codegen(f, level + 1) = Up(Codegen(f, level))
  OBVIOUS
<1>0. level + 1 \in Nat
  OBVIOUS
<1>1. PICK g \in [0 .. level + 1 -> 0 .. Len(desc)] :
           /\ g[0] = f
           /\ \A i \in 1 .. level + 1 : g[i] = Up(g[i - 1])
           /\ \A m \in 0 .. level + 1 : Codegen(f, m) = g[m]
  BY <1>0, CodegenWalks, Zenon
<1>2. level + 1 \in 1 .. level + 1 /\ level \in 0 .. level + 1 /\ (level + 1) - 1 = level
  OBVIOUS
<1> QED  BY <1>1, <1>2

\* The same of the next state.
LEMMA CodegenIsNext ==
  (Ordered => \A f \in DOMAIN desc, level \in Nat :
    /\ Codegen(f, 0) = f
    /\ Codegen(f, level) \in 0 .. Len(desc)
    /\ Codegen(f, level + 1) = Up(Codegen(f, level)))'
BY CodegenIs, PTL

\* A name that is added to the locals keeps those that are there.
LEMMA LocalsAdded ==
  \A a \in Locals, n \in Names :
    /\ Added(a, n) \in Locals
    /\ \A k \in 1 .. Len(a) : k \in 1 .. Len(Added(a, n)) /\ Added(a, n)[k] = a[k]
    /\ \E k \in 1 .. Len(Added(a, n)) : Added(a, n)[k] = n
<1> SUFFICES ASSUME NEW a \in Locals, NEW n \in Names
             PROVE  /\ Added(a, n) \in Locals
                    /\ \A k \in 1 .. Len(a) : k \in 1 .. Len(Added(a, n)) /\ Added(a, n)[k] = a[k]
                    /\ \E k \in 1 .. Len(Added(a, n)) : Added(a, n)[k] = n
  OBVIOUS
<1>1. a \in Seq(Names) /\ NoDuplicates(a) /\ 1 <= Len(a) /\ a[1] = It
  BY DEF Locals
<1>2. /\ Added(a, n) \in Seq(Names) /\ 1 <= Len(Added(a, n)) /\ NoDuplicates(Added(a, n))
      /\ Len(a) <= Len(Added(a, n))
      /\ \A i \in 1 .. Len(a) : Added(a, n)[i] = a[i]
      /\ \E i \in 1 .. Len(Added(a, n)) : Added(a, n)[i] = n
  <2>1. /\ Added(a, n) \in Seq(Names) /\ 1 <= Len(Added(a, n)) /\ NoDuplicates(Added(a, n))
    BY <1>1, AddedIs
  <2>2. Len(a) <= Len(Added(a, n)) /\ \A i \in 1 .. Len(a) : Added(a, n)[i] = a[i]
    BY <1>1, AddedIs
  <2>3. \E i \in 1 .. Len(Added(a, n)) : Added(a, n)[i] = n
    BY <1>1, AddedIs
  <2> QED  BY <2>1, <2>2, <2>3
<1>3. 1 \in 1 .. Len(a) /\ \A i \in 1 .. Len(a) : i \in 1 .. Len(Added(a, n))
  BY <1>1, <1>2
<1> QED  BY <1>1, <1>2, <1>3 DEF Locals

\* Folded, for locals.
LEMMA LocalsFolded ==
  ASSUME NEW N \in Nat, NEW step \in [1 .. N -> [Locals -> Locals]], NEW x \in Locals
  PROVE  \E g \in [0 .. N -> Locals] : g[0] = x /\ \A i \in 1 .. N : g[i] = step[i][g[i - 1]]
BY Folded

\* The locals a description starts with: "it", and every parameter.
LEMMA LocalsAre ==
  ASSUME It \in Names, NEW N \in Nat, NEW params, Len(params) = N,
         \A i \in 1 .. N : params[i] \in Names, NEW parent, NEW parallel
  PROVE  LET locals == Description(parent, params, parallel).defined_locals IN
         /\ locals \in Locals
         /\ N = 0 => locals = <<It>>
         /\ \A j \in 1 .. N : \E k \in 1 .. Len(locals) : locals[k] = params[j]
<1> DEFINE step == [i \in 1 .. N |-> [a \in Locals |-> Added(a, params[i])]]
           W(r) == r = [i \in 0 .. N |-> IF i = 0 THEN <<It>> ELSE Added(r[i - 1], params[i])]
           start == <<It>>
           r0 == CHOOSE r : W(r)
<1>0. Description(parent, params, parallel).defined_locals = r0[N]
  BY DEF Description
<1> HIDE DEF r0
<1>1. start \in Locals
  BY DEF Locals, NoDuplicates
<1>2. step \in [1 .. N -> [Locals -> Locals]]
  <2>1. \A i \in 1 .. N : [a \in Locals |-> Added(a, params[i])] \in [Locals -> Locals]
    BY LocalsAdded
  <2> QED  BY <2>1
<1>3. PICK g \in [0 .. N -> Locals] : g[0] = start /\ \A i \in 1 .. N : g[i] = step[i][g[i - 1]]
  <2> HIDE DEF step, start, W
  <2> QED  BY <1>1, <1>2, LocalsFolded, ZenonT(60)
<1>4. W(g)
  <2>1. \A i \in 0 .. N : g[i] = IF i = 0 THEN <<It>> ELSE Added(g[i - 1], params[i])
    <3> TAKE i \in 0 .. N
    <3>1. CASE i # 0
      <4>1. i \in 1 .. N /\ g[i - 1] \in Locals
        BY <1>3, <3>1
      <4> QED  BY <1>3, <3>1, <4>1
    <3> QED  BY <1>3, <3>1
  <2> QED  BY <1>3, <2>1
<1>5. W(r0)
  <2> HIDE DEF W
  <2> QED  BY <1>4 DEF r0
<1>6. \A i \in 0 .. N : r0[i] = IF i = 0 THEN start ELSE Added(r0[i - 1], params[i])
  BY <1>5
<1> DEFINE Has(a, i) == \A j \in 1 .. i : \E k \in 1 .. Len(a) : a[k] = params[j]
           P == {i \in 0 .. N : r0[i] \in Locals /\ Has(r0[i], i)}
<1> HIDE DEF start, W, step
<1>7. 0 \in P
  BY <1>1, <1>6
<1>8. ASSUME NEW a \in Locals, NEW i \in 1 .. N, Has(a, i - 1)
      PROVE  Has(Added(a, params[i]), i)
  <2> DEFINE b == Added(a, params[i])
  <2>1. /\ \A k \in 1 .. Len(a) : k \in 1 .. Len(b) /\ b[k] = a[k]
        /\ \E k \in 1 .. Len(b) : b[k] = params[i]
    BY LocalsAdded
  <2> SUFFICES ASSUME NEW j \in 1 .. i PROVE \E k \in 1 .. Len(b) : b[k] = params[j]
    OBVIOUS
  <2> HIDE DEF b
  <2>2. CASE j = i
    BY <2>1, <2>2
  <2>3. CASE j # i
    <3>1. j \in 1 .. i - 1
      BY <2>3
    <3>2. PICK k \in 1 .. Len(a) : a[k] = params[j]
      BY <1>8, <3>1
    <3> QED  BY <2>1, <3>2
  <2> QED  BY <2>2, <2>3
<1>9. \A i \in 1 .. N : i - 1 \in P => i \in P
  <2> SUFFICES ASSUME NEW i \in 1 .. N, i - 1 \in P PROVE i \in P
    OBVIOUS
  <2> HIDE DEF Has
  <2>1. r0[i - 1] \in Locals /\ Has(r0[i - 1], i - 1) /\ i \in 0 .. N
    OBVIOUS
  <2>2. r0[i] = Added(r0[i - 1], params[i])
    BY <1>6
  <2>3. Has(r0[i], i)
    BY <1>8, <2>1, <2>2
  <2>4. params[i] \in Names
    OBVIOUS
  <2> HIDE DEF P
  <2>5. r0[i] \in Locals
    <3>1. Added(r0[i - 1], params[i]) \in Locals
      BY <2>1, <2>4, LocalsAdded, Zenon
    <3> QED  BY <2>2, <3>1
  <2> QED  BY <2>1, <2>3, <2>5 DEF P
<1>10. N \in P
  <2>1. N \in 0 .. N
    OBVIOUS
  <2> HIDE DEF P
  <2> QED  BY <1>7, <1>9, <2>1, UpTo
<1>11. N = 0 => r0[N] = <<It>>
  BY <1>6 DEF start
<1> QED  BY <1>0, <1>10, <1>11

\* The locals of a function are "it" and its parameters.
LEMMA DescriptionIs ==
  ASSUME NEW parent \in Nat, NEW argument_names \in Seq(Names), NEW parallel \in BOOLEAN,
         It \in Names
  PROVE  LET d == Description(parent, argument_names, parallel) IN
         /\ d \in Descriptions
         /\ d.parent = parent /\ d.argument_names = argument_names /\ d.parallel = parallel
         /\ d.defined_locals \in Locals
         /\ argument_names = <<>> => d.defined_locals = <<It>>
         /\ \A j \in DOMAIN argument_names :
              \E k \in 1 .. Len(d.defined_locals) : d.defined_locals[k] = argument_names[j]
         /\ d.variable_references = <<>> /\ d.variable_reference_names = <<>> /\ d.code = {}
<1> DEFINE N == Len(argument_names)
           d == Description(parent, argument_names, parallel)
           locals == d.defined_locals
<1>1. N \in Nat /\ DOMAIN argument_names = 1 .. N /\ \A i \in 1 .. N : argument_names[i] \in Names
  OBVIOUS
<1>2. d = [parent |-> parent, argument_names |-> argument_names, parallel |-> parallel,
           defined_locals |-> locals, variable_references |-> <<>>,
           variable_reference_names |-> <<>>, code |-> {}]
  BY DEF Description
<1>3. /\ locals \in Locals
      /\ N = 0 => locals = <<It>>
      /\ \A j \in 1 .. N : \E k \in 1 .. Len(locals) : locals[k] = argument_names[j]
  BY <1>1, LocalsAre
<1> HIDE DEF d, locals
<1>4. locals \in Seq(Names)
  BY <1>3 DEF Locals
<1>5. <<>> \in Seq(References) /\ <<>> \in Seq(Names) /\ {} \in SUBSET Instructions
  OBVIOUS
<1>6. d \in Descriptions
  BY <1>2, <1>4, <1>5 DEF Descriptions
<1>7. /\ d.parent = parent /\ d.argument_names = argument_names /\ d.parallel = parallel
      /\ d.defined_locals = locals
      /\ d.variable_references = <<>> /\ d.variable_reference_names = <<>> /\ d.code = {}
  BY <1>2
<1>8. argument_names = <<>> => N = 0
  OBVIOUS
<1> HIDE DEF N
<1> QED  BY <1>1, <1>3, <1>6, <1>7, <1>8 DEF d, locals

\* The arguments of a call, one after the other.
\* snow_arguments_push leaves arguments.
LEMMA PushIs ==
  \A a \in Arguments, val \in Values : PushUnnamed(a, val) \in Arguments
<1> SUFFICES ASSUME NEW a \in Arguments, NEW val \in Values PROVE PushUnnamed(a, val) \in Arguments
  OBVIOUS
<1>1. a.names \in Seq(Names \cup {Nil}) /\ a.data \in Seq(Values \cup {Nil})
  BY DEF Arguments
<1>2. Append(a.names, Nil) \in Seq(Names \cup {Nil})
  BY <1>1
<1>3. Append(a.data, val) \in Seq(Values \cup {Nil})
  BY <1>1
<1> QED  BY <1>2, <1>3 DEF PushUnnamed, Arguments

\* snow_arguments_push_named leaves arguments.
LEMMA PushNamedIs ==
  \A a \in Arguments, sym \in Names \cup {Nil}, val \in Values :
    PushNamed(a, sym, val) \in Arguments
<1> SUFFICES ASSUME NEW a \in Arguments, NEW sym \in Names \cup {Nil}, NEW val \in Values
             PROVE  PushNamed(a, sym, val) \in Arguments
  OBVIOUS
<1> DEFINE T == Names \cup {Nil}
           V == Values \cup {Nil}
           names == Added(a.names, sym)
           idx == ArrayFind(names, sym)
<1>0. a.names \in Seq(T) /\ a.data \in Seq(V) /\ sym \in T /\ val \in V /\ Nil \in V
  BY DEF Arguments
<1> HIDE DEF T, V
<1>1. names \in Seq(T) /\ \E i \in 1 .. Len(names) : names[i] = sym
  <2> DEFINE old == a.names
             new == Added(old, sym)
  <2>1. old \in Seq(T) /\ sym \in T
    BY <1>0
  <2> HIDE DEF old
  <2>2. new \in Seq(T)
    BY <2>1, AddedIs
  <2>3. \E i \in 1 .. Len(new) : new[i] = sym
    BY <2>1, AddedIs
  <2> QED  BY <2>2, <2>3 DEF old, names
<1> HIDE DEF names
<1>2. idx \in Nat
  <2>1. idx \in -1 .. Len(names) - 1 /\ idx >= 0
    BY <1>1, FindIs
  <2>2. Len(names) \in Nat
    BY <1>1
  <2> HIDE DEF idx
  <2> QED  BY <2>1, <2>2
<1> HIDE DEF idx
<1>3. ArraySet(a.data, idx, val) \in Seq(V)
  BY <1>0, <1>2, SetIs
<1>4. PushNamed(a, sym, val) = [names |-> names, data |-> ArraySet(a.data, idx, val)]
  BY DEF PushNamed, names, idx
<1> QED  BY <1>1, <1>3, <1>4 DEF Arguments, T, V

\* Folded, for arguments.
LEMMA ArgumentsFolded ==
  ASSUME NEW N \in Nat, NEW step \in [1 .. N -> [Arguments -> Arguments]], NEW x \in Arguments
  PROVE  \E g \in [0 .. N -> Arguments] : g[0] = x /\ \A i \in 1 .. N : g[i] = step[i][g[i - 1]]
BY Folded

PushOne(a, e) == IF e.name = Nil THEN PushUnnamed(a, e.value) ELSE PushNamed(a, e.name, e.value)

\* The calls that the compiled code makes for a list leave arguments.
LEMMA CompiledAre ==
  ASSUME NEW N \in Nat, NEW list, Len(list) = N,
         \A i \in 1 .. N : list[i].name \in Names \cup {Nil} /\ list[i].value \in Values
  PROVE  Compiled(list) \in Arguments
<1> DEFINE step == [i \in 1 .. N |-> [a \in Arguments |-> PushOne(a, list[i])]]
           W(r) == r = [i \in 0 .. N |->
                     IF i = 0 THEN NoArguments
                     ELSE IF list[i].name = Nil THEN PushUnnamed(r[i - 1], list[i].value)
                     ELSE PushNamed(r[i - 1], list[i].name, list[i].value)]
           r0 == CHOOSE r : W(r)
<1>0. Compiled(list) = r0[N]
  BY DEF Compiled
<1> HIDE DEF r0
<1>1. NoArguments \in Arguments
  <2>1. <<>> \in Seq(Names \cup {Nil}) /\ <<>> \in Seq(Values \cup {Nil})
    OBVIOUS
  <2> QED  BY <2>1 DEF NoArguments, Arguments
<1>2. \A a \in Arguments, i \in 1 .. N : PushOne(a, list[i]) \in Arguments
  BY PushIs, PushNamedIs DEF PushOne
<1>3. step \in [1 .. N -> [Arguments -> Arguments]]
  <2>1. \A i \in 1 .. N : [a \in Arguments |-> PushOne(a, list[i])] \in [Arguments -> Arguments]
    BY <1>2
  <2> QED  BY <2>1
<1>4. PICK g \in [0 .. N -> Arguments] :
        g[0] = NoArguments /\ \A i \in 1 .. N : g[i] = step[i][g[i - 1]]
  <2> HIDE DEF step, W
  <2> QED  BY <1>1, <1>3, ArgumentsFolded, ZenonT(60)
<1>5. W(g)
  <2>1. \A i \in 0 .. N : g[i] = IF i = 0 THEN NoArguments ELSE PushOne(g[i - 1], list[i])
    <3> TAKE i \in 0 .. N
    <3>1. CASE i # 0
      <4>1. i \in 1 .. N /\ g[i - 1] \in Arguments
        BY <1>4, <3>1
      <4> QED  BY <1>4, <3>1, <4>1
    <3> QED  BY <1>4, <3>1
  <2> QED  BY <1>4, <2>1 DEF PushOne
<1>6. W(r0)
  <2> HIDE DEF W
  <2> QED  BY <1>5 DEF r0
<1>7. \A i \in 0 .. N : r0[i] = IF i = 0 THEN NoArguments ELSE PushOne(r0[i - 1], list[i])
  BY <1>6 DEF PushOne
<1> HIDE DEF W, step
<1> DEFINE P == {i \in 0 .. N : r0[i] \in Arguments}
<1>8. 0 \in P /\ \A i \in 1 .. N : i - 1 \in P => i \in P
  BY <1>1, <1>2, <1>7
<1>9. N \in P
  <2>1. N \in 0 .. N
    OBVIOUS
  <2> HIDE DEF P
  <2> QED  BY <1>8, <2>1, UpTo
<1> QED  BY <1>0, <1>9

\* A parameter of the function being called gets its value.
Bound(n) == [names : Seq(Names \cup {Nil}), locals : Fitting(n)]

BindOne(b, data, locals, sym) ==
  LET names == AddName(b.names, sym)
      arg == ArrayGet(data, ArrayFind(names, sym))
  IN [names |-> names,
      locals |-> ArraySet(b.locals, ArrayFind(locals, sym), IF arg = Null THEN Nil ELSE arg)]

LEMMA BindIs ==
  ASSUME NEW locals \in Seq(Names), NEW sym \in Names, \E k \in 1 .. Len(locals) : locals[k] = sym,
         NEW b \in Bound(Len(locals)), NEW data \in Seq(Values \cup {Nil})
  PROVE  BindOne(b, data, locals, sym) \in Bound(Len(locals))
<1> DEFINE T == Names \cup {Nil}
           V == Values \cup {Nil}
           names == AddName(b.names, sym)
           at == ArrayFind(names, sym)
           arg == ArrayGet(data, at)
           val == IF arg = Null THEN Nil ELSE arg
           idx == ArrayFind(locals, sym)
<1>0. /\ b.names \in Seq(T) /\ b.locals \in Seq(Stored) /\ Len(b.locals) <= Len(locals)
      /\ sym \in T /\ Nil \in T /\ data \in Seq(V) /\ Nil \in Stored
  BY DEF Bound, Fitting, Stored
<1> HIDE DEF T
<1>1. names \in Seq(T)
  BY <1>0, AddNameIs
<1> HIDE DEF names
<1>2. at \in Int
  <2>1. at \in -1 .. Len(names) - 1
    BY <1>1, FindIs
  <2>2. Len(names) \in Nat
    BY <1>1
  <2> HIDE DEF at
  <2> QED  BY <2>1, <2>2
<1> HIDE DEF at
<1>3. arg \in V \cup {Null}
  BY <1>0, <1>2 DEF ArrayGet
<1> HIDE DEF arg
<1>4. val \in Stored
  BY <1>3 DEF Stored
<1> HIDE DEF val
<1>5. idx \in Nat /\ idx + 1 <= Len(locals) /\ Len(locals) \in Nat
  <2>1. idx \in -1 .. Len(locals) - 1 /\ idx >= 0
    BY FindIs
  <2>2. Len(locals) \in Nat
    OBVIOUS
  <2> HIDE DEF idx
  <2> QED  BY <2>1, <2>2
<1> HIDE DEF idx
<1> DEFINE a == ArraySet(b.locals, idx, val)
<1>6. a \in Seq(Stored) /\ Len(a) = IF idx >= Len(b.locals) THEN idx + 1 ELSE Len(b.locals)
  <2> DEFINE old == b.locals
  <2>1. old \in Seq(Stored) /\ idx \in Nat /\ val \in Stored /\ Nil \in Stored
    BY <1>0, <1>4, <1>5
  <2> HIDE DEF old
  <2>2. ArraySet(old, idx, val) \in Seq(Stored)
    BY <2>1, SetIs
  <2>3. Len(ArraySet(old, idx, val)) = IF idx >= Len(old) THEN idx + 1 ELSE Len(old)
    BY <2>1, SetIs
  <2> QED  BY <2>2, <2>3 DEF old, a
<1> HIDE DEF a
<1>7. a \in Fitting(Len(locals))
  <2>1. Len(b.locals) \in Nat
    BY <1>0
  <2> QED  BY <1>0, <1>5, <1>6, <2>1 DEF Fitting
<1>8. BindOne(b, data, locals, sym) = [names |-> names, locals |-> a]
  BY DEF BindOne, a, val, arg, idx, at, names
<1> QED  BY <1>1, <1>7, <1>8 DEF Bound, T

\* Folded, for the names and locals of a call.
LEMMA BoundFolded ==
  ASSUME NEW n, NEW N \in Nat, NEW step \in [1 .. N -> [Bound(n) -> Bound(n)]], NEW x \in Bound(n)
  PROVE  \E g \in [0 .. N -> Bound(n)] : g[0] = x /\ \A i \in 1 .. N : g[i] = step[i][g[i - 1]]
BY Folded

\* The locals of a context start with "it" alone.
LEMMA OneLocal ==
  ASSUME NEW val \in Stored
  PROVE  ArraySet(<<>>, 0, val) \in Seq(Stored) /\ Len(ArraySet(<<>>, 0, val)) = 1
<1> DEFINE empty == <<>>
           zero == 0
<1>1. empty \in Seq(Stored) /\ zero \in Nat /\ zero = 0 /\ Len(empty) = 0 /\ Nil \in Stored
  BY DEF Stored
<1> HIDE DEF empty, zero
<1>2. ArraySet(empty, zero, val) \in Seq(Stored)
  BY <1>1, SetIs
<1>3. Len(ArraySet(empty, zero, val)) = IF zero >= Len(empty) THEN zero + 1 ELSE Len(empty)
  BY <1>1, SetIs, ZenonT(60)
<1>4. Len(ArraySet(empty, zero, val)) = 1
  BY <1>1, <1>3
<1> QED  BY <1>2, <1>4 DEF empty, zero

\* A new context has at most as many locals as its function has names.
LEMMA SetUpIs ==
  ASSUME NEW d, NEW N \in Nat, Len(desc[d].argument_names) = N,
         desc[d].defined_locals \in Locals,
         \A i \in 1 .. N :
           /\ desc[d].argument_names[i] \in Names
           /\ \E k \in 1 .. Len(desc[d].defined_locals) :
                desc[d].defined_locals[k] = desc[d].argument_names[i],
         NEW function \in Nat, NEW context, contexts[context].self \in Objects \cup {NotGiven},
         NEW self \in Objects \cup {NotGiven},
         NEW args, IF args = NotGiven THEN N = 0 ELSE args \in Arguments
  PROVE  LET c == SetUp(function, d, context, self, args) IN
         /\ c \in Records
         /\ c.function = function
         /\ Len(c.locals) <= Len(desc[d].defined_locals)
<1> DEFINE names == desc[d].argument_names
           locals == desc[d].defined_locals
           first == IF args = NotGiven \/ args.data = <<>> THEN Nil ELSE args.data[1]
           start == [names |-> IF args = NotGiven THEN <<>> ELSE args.names,
                     locals |-> ArraySet(<<>>, 0, first)]
           S == Bound(Len(locals))
           step == [i \in 1 .. N |-> [b \in S |-> BindOne(b, args.data, locals, names[i])]]
           W(r) == r = [i \in 0 .. N |->
                     IF i = 0 THEN start ELSE BindOne(r[i - 1], args.data, locals, names[i])]
           r0 == CHOOSE r : W(r)
<1>0. SetUp(function, d, context, self, args) =
        [function |-> function, locals |-> r0[N].locals,
         self |-> IF self = NotGiven THEN contexts[context].self ELSE self,
         args |-> IF args = NotGiven THEN NotGiven ELSE args.data]
  BY DEF SetUp, BindOne
<1> HIDE DEF r0
<1>1. args # NotGiven => args.names \in Seq(Names \cup {Nil}) /\ args.data \in Seq(Values \cup {Nil})
  BY DEF Arguments
<1>2. start \in S
  <2>1. first \in Stored /\ Nil \in Stored
    BY <1>1 DEF Stored
  <2>2. <<>> \in Seq(Stored) /\ Len(<<>>) = 0 /\ 0 \in Nat
    OBVIOUS
  <2> HIDE DEF first
  <2> DEFINE one == ArraySet(<<>>, 0, first)
  <2>3. one \in Seq(Stored) /\ Len(one) = 1
    BY <2>1, OneLocal
  <2> HIDE DEF one
  <2>4. 1 <= Len(locals)
    BY DEF Locals
  <2>5. one \in Fitting(Len(locals))
    BY <2>3, <2>4 DEF Fitting
  <2>6. start.names \in Seq(Names \cup {Nil}) /\ start = [names |-> start.names, locals |-> one]
    BY <1>1 DEF one
  <2> HIDE DEF start
  <2> QED  BY <2>5, <2>6 DEF Bound
<1> HIDE DEF start
<1>3. ASSUME NEW b \in S, NEW i \in 1 .. N
      PROVE  BindOne(b, args.data, locals, names[i]) \in S
  <2>1. args.data \in Seq(Values \cup {Nil}) /\ locals \in Seq(Names)
    BY <1>1 DEF Locals
  <2> DEFINE data == args.data
             sym == names[i]
  <2>2. data \in Seq(Values \cup {Nil}) /\ sym \in Names /\ \E k \in 1 .. Len(locals) : locals[k] = sym
    BY <2>1
  <2> HIDE DEF data, sym, locals
  <2>3. BindOne(b, data, locals, sym) \in Bound(Len(locals))
    BY <2>1, <2>2, BindIs
  <2> QED  BY <2>3 DEF data, sym
<1>4. step \in [1 .. N -> [S -> S]]
  <2>1. \A i \in 1 .. N :
          [b \in S |-> BindOne(b, args.data, locals, names[i])] \in [S -> S]
    BY <1>3
  <2> HIDE DEF locals, names
  <2> QED  BY <2>1
<1>5. PICK g \in [0 .. N -> S] : g[0] = start /\ \A i \in 1 .. N : g[i] = step[i][g[i - 1]]
  <2> HIDE DEF step, W, locals, names, S
  <2> QED  BY <1>2, <1>4, Folded
<1>6. W(g)
  <2> HIDE DEF locals, names
  <2>1. \A i \in 0 .. N : g[i] = IF i = 0 THEN start ELSE BindOne(g[i - 1], args.data, locals, names[i])
    <3> TAKE i \in 0 .. N
    <3>1. CASE i # 0
      <4>1. i \in 1 .. N /\ g[i - 1] \in S
        BY <1>5, <3>1
      <4> QED  BY <1>5, <3>1, <4>1
    <3> QED  BY <1>5, <3>1
  <2> QED  BY <1>5, <2>1
<1>7. W(r0)
  <2> HIDE DEF W
  <2> QED  BY <1>6 DEF r0
<1>8. \A i \in 0 .. N : r0[i] = IF i = 0 THEN start ELSE BindOne(r0[i - 1], args.data, locals, names[i])
  BY <1>7
<1> HIDE DEF W, step
<1> DEFINE P == {i \in 0 .. N : r0[i] \in S}
<1>9. 0 \in P /\ \A i \in 1 .. N : i - 1 \in P => i \in P
  <2> HIDE DEF S, locals, names
  <2> QED  BY <1>2, <1>3, <1>8, SMTT(30)
<1>10. r0[N] \in S
  <2>1. N \in 0 .. N
    OBVIOUS
  <2>2. N \in P
    <3> HIDE DEF P
    <3> QED  BY <1>9, <2>1, UpTo
  <2> QED  BY <2>2
<1>11. r0[N].locals \in Seq(Stored) /\ Len(r0[N].locals) <= Len(locals)
  BY <1>10 DEF Bound, Fitting
<1> QED  BY <1>0, <1>1, <1>11 DEF Records

\* The contexts lie in each other as the functions do that run in them.
Chained ==
  /\ 1 \in DOMAIN contexts
  /\ \A c \in DOMAIN contexts : c # 1 =>
       contexts[c].function \in DOMAIN closures /\ contexts[c].function # 1
  /\ \A k \in DOMAIN closures :
       /\ closures[k].desc \in DOMAIN desc
       /\ k # 1 => /\ closures[k].declaration_context \in DOMAIN contexts
                   /\ desc[closures[k].desc].parent = Runs(closures[k].declaration_context)

Outer(c) == IF c = 1 THEN 1 ELSE closures[contexts[c].function].declaration_context

\* Outwards from a context runs what encloses the function that runs in it.
LEMMA OuterRuns ==
  ASSUME Ordered, Chained, NEW c \in DOMAIN contexts
  PROVE  /\ Runs(c) \in DOMAIN desc /\ (Runs(c) = 1 <=> c = 1)
         /\ Outer(c) \in DOMAIN contexts
         /\ c # 1 => Runs(Outer(c)) = desc[Runs(c)].parent
<1>1. DOMAIN desc = 1 .. Len(desc) /\ Len(desc) \in Nat /\ 1 \in DOMAIN desc
  BY DEF Ordered
<1>2. \A e \in DOMAIN contexts : Runs(e) \in DOMAIN desc
  BY <1>1 DEF Chained, Runs
<1>3. Outer(c) \in DOMAIN contexts
  BY DEF Chained, Outer
<1>4. c # 1 => Runs(Outer(c)) = desc[Runs(c)].parent
  BY DEF Chained, Outer, Runs
<1>5. Runs(1) = 1 /\ desc[1].parent = 0
  BY <1>1 DEF Runs, Ordered
<1>6. c # 1 => Runs(c) # 1
  BY <1>1, <1>2, <1>3, <1>4, <1>5
<1> QED  BY <1>2, <1>3, <1>4, <1>5, <1>6

OutwardFrom(c, g, N, S) ==
  g \in [0 .. N -> S] /\ g[0] = c /\ \A i \in 1 .. N : g[i] = Outer(g[i - 1])

\* The contexts outwards from one, as a function of the steps.
LEMMA OuterWalk ==
  ASSUME NEW N \in Nat, NEW S, NEW c \in S, \A e \in S : Outer(e) \in S
  PROVE  \E g : OutwardFrom(c, g, N, S)
<1> DEFINE step == [i \in 1 .. N |-> [e \in S |-> Outer(e)]]
<1>1. step \in [1 .. N -> [S -> S]]
  OBVIOUS
<1>2. PICK g \in [0 .. N -> S] : g[0] = c /\ \A i \in 1 .. N : g[i] = step[i][g[i - 1]]
  <2> HIDE DEF step
  <2> QED  BY <1>1, Folded
<1>3. \A i \in 1 .. N : g[i] = Outer(g[i - 1])
  <2> TAKE i \in 1 .. N
  <2>1. g[i - 1] \in S
    BY <1>2
  <2> QED  BY <1>2, <2>1
<1>4. OutwardFrom(c, g, N, S)
  BY <1>2, <1>3 DEF OutwardFrom
<1> QED  BY <1>4

\* The level that the code generator counted leads to a context of the function
\* that the code generator found there.
LEMMA LevelIs ==
  ASSUME Ordered, Chained, NEW f \in DOMAIN desc, NEW c \in DOMAIN contexts,
         desc[f].parent = Runs(c),
         NEW level \in Nat, level # 0, Codegen(f, level) # 0
  PROVE  /\ ContextAtLevel(c, level) \in DOMAIN contexts
         /\ Runs(ContextAtLevel(c, level)) = Codegen(f, level)
<1> DEFINE S == DOMAIN contexts
           N == level - 1
<1>0. N \in Nat /\ N + 1 = level
  OBVIOUS
<1>1. \A e \in S : Outer(e) \in S
  BY OuterRuns
<1>2. \E g : OutwardFrom(c, g, N, S)
  <2>1. c \in S
    OBVIOUS
  <2> HIDE DEF S, N
  <2> QED  BY <1>0, <1>1, <2>1, OuterWalk
<1>3. PICK g : OutwardFrom(c, g, N, S)
  BY <1>2
<1>4. g \in [0 .. N -> S] /\ g[0] = c /\ \A i \in 1 .. N : g[i] = Outer(g[i - 1])
  BY <1>3 DEF OutwardFrom
<1> HIDE DEF S, N
<1>5. \A l \in Nat : Codegen(f, 0) = f /\ Codegen(f, l + 1) = Up(Codegen(f, l))
  BY CodegenIs
<1>6. \A i \in 0 .. level : Codegen(f, i) # 0
  <2> DEFINE P == {i \in 0 .. level : Codegen(f, level - i) # 0}
  <2>1. 0 \in P
    OBVIOUS
  <2>2. ASSUME NEW i \in 1 .. level, i - 1 \in P PROVE i \in P
    <3>1. Codegen(f, level - (i - 1)) # 0 /\ level - i \in Nat /\ (level - i) + 1 = level - (i - 1)
      BY <2>2
    <3>2. Codegen(f, level - (i - 1)) = Up(Codegen(f, level - i))
      BY <1>5, <3>1
    <3> QED  BY <3>1, <3>2 DEF Up
  <2>3. \A i \in 0 .. level : i \in P
    <3> HIDE DEF P
    <3> QED  BY <2>1, <2>2, UpTo
  <2> TAKE i \in 0 .. level
  <2>4. level - i \in 0 .. level /\ level - (level - i) = i
    OBVIOUS
  <2> QED  BY <2>3, <2>4
<1>7. \A i \in 0 .. N : Runs(g[i]) = Codegen(f, i + 1)
  <2> DEFINE P == {i \in 0 .. N : Runs(g[i]) = Codegen(f, i + 1)}
  <2>1. 0 \in P
    <3>1. Codegen(f, 1) = Up(f)
      BY <1>5
    <3>2. f # 0
      BY DEF Ordered
    <3> QED  BY <1>0, <1>4, <3>1, <3>2 DEF Up
  <2>2. ASSUME NEW i \in 1 .. N, i - 1 \in P PROVE i \in P
    <3>1. g[i - 1] \in S /\ Runs(g[i - 1]) = Codegen(f, i) /\ i \in 0 .. N /\ i \in Nat /\ i + 1 \in 0 .. level
      BY <1>0, <1>4, <2>2
    <3>2. Codegen(f, i) # 0 /\ Codegen(f, i + 1) # 0 /\ Codegen(f, i + 1) = Up(Codegen(f, i))
      BY <1>5, <1>6, <3>1
    <3>3. Codegen(f, i + 1) = desc[Runs(g[i - 1])].parent
      BY <3>1, <3>2 DEF Up
    <3>4. desc[1].parent = 0
      BY DEF Ordered
    <3>5. g[i - 1] # 1
      BY <3>1, <3>2, <3>3, <3>4 DEF Runs
    <3>6. g[i] = Outer(g[i - 1])
      BY <1>4
    <3>7. Runs(Outer(g[i - 1])) = desc[Runs(g[i - 1])].parent
      BY <3>1, <3>5, OuterRuns DEF S
    <3> QED  BY <3>1, <3>3, <3>6, <3>7
  <2> HIDE DEF P
  <2>3. \A i \in 0 .. N : i \in P
    BY <1>0, <2>1, <2>2, UpTo
  <2> QED  BY <2>3 DEF P
<1>8. \A i \in 1 .. N : g[i - 1] # 1
  <2> TAKE i \in 1 .. N
  <2>1. i - 1 \in 0 .. N /\ i \in Nat /\ i + 1 \in 0 .. level /\ i \in 0 .. level /\ (i - 1) + 1 = i
    BY <1>0
  <2>2. Runs(g[i - 1]) = Codegen(f, i) /\ Codegen(f, i + 1) # 0 /\ Codegen(f, i + 1) = Up(Codegen(f, i))
    BY <1>5, <1>6, <1>7, <2>1
  <2>3. desc[1].parent = 0
    BY DEF Ordered
  <2> QED  BY <2>2, <2>3 DEF Up, Runs
<1>9. ContextAtLevel(c, level) = g[N]
  <2> DEFINE W(r) == r = [i \in 1 .. level |->
               IF i = 1 THEN c ELSE closures[contexts[r[i - 1]].function].declaration_context]
             h == [i \in 1 .. level |-> g[i - 1]]
             r0 == CHOOSE r : W(r)
  <2>1. \A i \in 1 .. level :
          g[i - 1] = IF i = 1 THEN c ELSE closures[contexts[g[i - 2]].function].declaration_context
    <3> TAKE i \in 1 .. level
    <3>1. CASE i = 1
      BY <1>4, <3>1
    <3>2. CASE i # 1
      <4>1. i - 1 \in 1 .. N /\ (i - 1) - 1 = i - 2
        BY <1>0, <3>2
      <4>2. g[i - 1] = Outer(g[i - 2]) /\ g[i - 2] # 1
        BY <1>4, <1>8, <4>1
      <4> QED  BY <3>2, <4>2 DEF Outer
    <3> QED  BY <3>1, <3>2
  <2>2. W(h)
    <3>1. \A i \in 1 .. level : i # 1 => h[i - 1] = g[i - 2]
      <4> TAKE i \in 1 .. level
      <4>1. i # 1 => i - 1 \in 1 .. level /\ (i - 1) - 1 = i - 2
        OBVIOUS
      <4> QED  BY <4>1
    <3>2. \A i \in 1 .. level :
            h[i] = IF i = 1 THEN c ELSE closures[contexts[h[i - 1]].function].declaration_context
      BY <2>1, <3>1
    <3> QED  BY <3>2
  <2>3. W(r0)
    <3> HIDE DEF W, h
    <3> QED  BY <2>2
  <2>4. ContextAtLevel(c, level) = r0[level]
    BY DEF ContextAtLevel
  <2> HIDE DEF r0
  <2>5. \A i \in 1 .. level :
          r0[i] = IF i = 1 THEN c ELSE closures[contexts[r0[i - 1]].function].declaration_context
    BY <2>3
  <2> HIDE DEF W, h
  <2> DEFINE P == {i \in 0 .. N : r0[i + 1] = g[i]}
  <2>6. 0 \in P
    BY <1>0, <1>4, <2>5
  <2>7. ASSUME NEW i \in 1 .. N, i - 1 \in P PROVE i \in P
    <3>1. r0[i] = g[i - 1] /\ i \in 0 .. N /\ i + 1 \in 1 .. level /\ (i + 1) - 1 = i /\ i + 1 # 1
      BY <1>0, <2>7
    <3>2. r0[i + 1] = closures[contexts[r0[i]].function].declaration_context
      BY <2>5, <3>1
    <3>3. g[i] = closures[contexts[g[i - 1]].function].declaration_context
      BY <1>4, <1>8 DEF Outer
    <3> QED  BY <3>1, <3>2, <3>3
  <2>8. N \in P
    <3>1. N \in 0 .. N
      BY <1>0
    <3> HIDE DEF P
    <3> QED  BY <1>0, <2>6, <2>7, <3>1, UpTo
  <2> QED  BY <1>0, <2>4, <2>8
<1>10. N \in 0 .. N
  BY <1>0
<1> QED  BY <1>0, <1>4, <1>7, <1>9, <1>10 DEF S

\* The name that an index stands for.
Holds(names, idx, name) == idx < Len(names) /\ names[idx + 1] = name

\* What a reference counts outwards and what it finds there; "it" is never one.
LeadsTo(f, reference, name) ==
  /\ reference.context_level # 0 /\ name # It
  /\ Codegen(f, reference.context_level) # 0
  /\ Holds(desc[Codegen(f, reference.context_level)].defined_locals,
           reference.variable_index, name)

Described(f) ==
  /\ desc[f].defined_locals \in Locals
  /\ \A i \in 1 .. Len(desc[f].argument_names) :
       \E k \in 1 .. Len(desc[f].defined_locals) :
         desc[f].defined_locals[k] = desc[f].argument_names[i]
  /\ desc[f].parallel => desc[f].argument_names = <<>>
  /\ Len(desc[f].variable_references) = Len(desc[f].variable_reference_names)
  /\ \A i \in desc[f].code :
       /\ i.how = "own" => Holds(desc[f].defined_locals, i.index, i.name)
       /\ i.how = "reference" => i.index < Len(desc[f].variable_references)
  /\ \A r \in 1 .. Len(desc[f].variable_references) :
       LeadsTo(f, desc[f].variable_references[r], desc[f].variable_reference_names[r])

\* The outermost function has one local.
TextInv ==
  /\ Ordered
  /\ cg \in 0 .. Len(desc)
  /\ desc[1].argument_names = <<>>
  /\ desc[1].defined_locals = <<It>>
  /\ \A f \in DOMAIN desc : Described(f)

Word == Values \cup {Nil, Null, Unwritten, Member, Missing, Trap, Class}

Resolved(k) ==
  LET d == closures[k].desc
      references == closures[k].variable_references
  IN /\ Len(references) = Len(desc[d].variable_reference_names)
     /\ \A i \in 1 .. Len(references) :
          /\ references[i].context \in DOMAIN contexts /\ references[i].context # 1
          /\ Holds(LocalNames(references[i].context), references[i].variable_index,
                   desc[d].variable_reference_names[i])

RunInv ==
  /\ closures \in Seq(Closures) /\ contexts \in Seq(Records)
  /\ global_names \in Seq(Names) /\ 1 <= Len(global_names)
  /\ result \in Word
  /\ closures # <<>> => cg = 0 /\ closures[1].desc = 1
  /\ Chained
  /\ \A k \in DOMAIN closures : Resolved(k)
  /\ \A c \in DOMAIN contexts : Len(contexts[c].locals) <= Len(LocalNames(c))

(***************************************************************************)
(* Compilation                                                             *)
(***************************************************************************)
\* The levels of a function are those of its codegen while others are written.
LEMMA CodegenStays ==
  ASSUME Ordered, Ordered',
         \A f \in DOMAIN desc : f \in DOMAIN desc' /\ desc'[f].parent = desc[f].parent
  PROVE  \A f \in DOMAIN desc, level \in Nat : (Codegen(f, level))' = Codegen(f, level)
<1> SUFFICES ASSUME NEW f \in DOMAIN desc, NEW level \in Nat
             PROVE  (Codegen(f, level))' = Codegen(f, level)
  OBVIOUS
<1> DEFINE P == {i \in 0 .. level : (Codegen(f, i))' = Codegen(f, i)}
<1>1. /\ Codegen(f, 0) = f
      /\ \A l \in Nat : /\ Codegen(f, l) \in 0 .. Len(desc)
                        /\ Codegen(f, l + 1) = Up(Codegen(f, l))
  BY CodegenIs
<1>2. /\ (Codegen(f, 0))' = f
      /\ \A l \in Nat : (Codegen(f, l + 1))' = (Up(Codegen(f, l)))'
  BY CodegenIsNext, 0 \in Nat
<1>3. 0 \in P
  BY <1>1, <1>2
<1>4. ASSUME NEW i \in 1 .. level, i - 1 \in P PROVE i \in P
  <2>1. i - 1 \in Nat /\ (i - 1) + 1 = i /\ i \in 0 .. level
    OBVIOUS
  <2>2. (Codegen(f, i - 1))' = Codegen(f, i - 1)
    BY <1>4
  <2>3. Codegen(f, i) = Up(Codegen(f, i - 1)) /\ Codegen(f, i - 1) \in 0 .. Len(desc)
    BY <1>1, <2>1
  <2>4. (Codegen(f, i))' = (Up(Codegen(f, i - 1)))'
    BY <1>2, <2>1
  <2>5. \A g \in 0 .. Len(desc) : (Up(g))' = Up(g)
    BY DEF Up, Ordered
  <2>6. (Up(Codegen(f, i - 1)))' = Up(Codegen(f, i - 1))
    BY <2>2, <2>3, <2>5 DEF Up
  <2> QED  BY <2>1, <2>3, <2>4, <2>6
<1>5. level \in 0 .. level
  OBVIOUS
<1>6. level \in P
  <2> HIDE DEF P
  <2> QED  BY <1>3, <1>4, <1>5, UpTo
<1> QED  BY <1>6

\* Nothing encloses the outermost function.
LEMMA Outermost ==
  ASSUME Ordered
  PROVE  \A level \in Nat : level # 0 => Codegen(1, level) = 0
<1> SUFFICES ASSUME NEW level \in Nat, level # 0 PROVE Codegen(1, level) = 0
  OBVIOUS
<1>1. /\ Codegen(1, 0) = 1
      /\ \A l \in Nat : Codegen(1, l + 1) = Up(Codegen(1, l))
  BY CodegenIs DEF Ordered
<1>2. Up(1) = 0 /\ Up(0) = 0
  BY DEF Ordered, Up
<1> DEFINE P == {i \in 0 .. level : i = 0 \/ Codegen(1, i) = 0}
<1>3. 0 \in P
  OBVIOUS
<1>4. ASSUME NEW i \in 1 .. level, i - 1 \in P PROVE i \in P
  <2>1. i - 1 \in Nat /\ (i - 1) + 1 = i /\ (i - 1 = 0 \/ Codegen(1, i - 1) = 0)
    BY <1>4
  <2>2. Codegen(1, i) = Up(Codegen(1, i - 1))
    BY <1>1, <2>1
  <2> QED  BY <1>1, <1>2, <2>1, <2>2
<1>5. level \in 0 .. level
  OBVIOUS
<1>6. level \in P
  <2> HIDE DEF P
  <2> QED  BY <1>3, <1>4, <1>5, UpTo
<1> QED  BY <1>6

\* What TextInv says of one description.
LEMMA TextIs ==
  ASSUME TextInv, NEW f \in DOMAIN desc
  PROVE  /\ Ordered /\ Described(f) /\ desc[f] \in Descriptions
         /\ desc[f].variable_references \in Seq(References)
         /\ desc[f].variable_reference_names \in Seq(Names)
         /\ desc[f].argument_names \in Seq(Names) /\ desc[f].parallel \in BOOLEAN
         /\ desc[f].defined_locals \in Locals /\ desc[f].defined_locals \in Seq(Names)
         /\ 1 \in DOMAIN desc /\ DOMAIN desc = 1 .. Len(desc) /\ Len(desc) \in Nat
         /\ f \in Nat
<1>1. Ordered /\ Described(f)
  BY DEF TextInv
<1>2. desc \in Seq(Descriptions) /\ 1 \in DOMAIN desc
  BY <1>1 DEF Ordered
<1>3. desc[f] \in Descriptions /\ DOMAIN desc = 1 .. Len(desc) /\ Len(desc) \in Nat /\ f \in Nat
  BY <1>2
<1>4. /\ desc[f].variable_references \in Seq(References)
      /\ desc[f].variable_reference_names \in Seq(Names)
      /\ desc[f].argument_names \in Seq(Names) /\ desc[f].parallel \in BOOLEAN
      /\ desc[f].defined_locals \in Seq(Names)
  BY <1>3 DEF Descriptions
<1>5. desc[f].defined_locals \in Locals
  BY <1>1 DEF Described
<1> QED  BY <1>1, <1>2, <1>3, <1>4, <1>5

\* So no reference of it leads anywhere, and it has none.
LEMMA OutermostRefersToNone ==
  ASSUME TextInv
  PROVE  Len(desc[1].variable_references) = 0
<1>1. /\ Ordered /\ Len(desc[1].variable_references) \in Nat
      /\ desc[1].variable_references \in Seq(References)
      /\ \A r \in 1 .. Len(desc[1].variable_references) :
           LeadsTo(1, desc[1].variable_references[r], desc[1].variable_reference_names[r])
  <2>1. 1 \in DOMAIN desc
    BY DEF TextInv, Ordered
  <2>2. Described(1) /\ desc[1].variable_references \in Seq(References) /\ Ordered
    BY <2>1, TextIs
  <2> QED  BY <2>2 DEF Described
<1>2. ASSUME Len(desc[1].variable_references) # 0 PROVE FALSE
  <2> DEFINE r == desc[1].variable_references[1]
  <2>1. r \in References /\ LeadsTo(1, r, desc[1].variable_reference_names[1])
    BY <1>1, <1>2
  <2>2. r.context_level \in Nat
    BY <2>1 DEF References
  <2> HIDE DEF r
  <2> QED  BY <1>1, <2>1, <2>2, Outermost DEF LeadsTo
<1> QED  BY <1>2

\* d can take the place of what function f has written so far.
Rewritten(d, f) ==
  /\ d \in Descriptions /\ d.parent = desc[f].parent
  /\ d.argument_names = desc[f].argument_names /\ d.parallel = desc[f].parallel
  /\ d.code = desc[f].code
  /\ d.defined_locals \in Locals
  /\ f = 1 => d.defined_locals = <<It>>
  /\ \A k \in 1 .. Len(desc[f].defined_locals) :
       /\ k \in 1 .. Len(d.defined_locals)
       /\ d.defined_locals[k] = desc[f].defined_locals[k]
  /\ Len(d.variable_references) = Len(d.variable_reference_names)
  /\ Len(desc[f].variable_references) <= Len(d.variable_references)
  /\ \A r \in 1 .. Len(d.variable_references) :
       LeadsTo(f, d.variable_references[r], d.variable_reference_names[r])

\* A description can take its own place.
LEMMA StaysItself ==
  ASSUME TextInv, NEW f \in DOMAIN desc
  PROVE  Rewritten(desc[f], f)
<1>1. Described(f) /\ desc[f] \in Descriptions
  BY DEF TextInv, Ordered
<1>2. desc[1].defined_locals = <<It>>
  BY DEF TextInv
<1>3. desc[f].variable_references \in Seq(References)
  BY <1>1 DEF Descriptions
<1> QED  BY <1>1, <1>2, <1>3 DEF Rewritten, Described

\* snow_function_description_define_local keeps the indices of the others.
LEMMA DefinesLocal ==
  ASSUME TextInv, NEW f \in DOMAIN desc, f # 1, NEW name \in Names
  PROVE  LET d == [desc[f] EXCEPT !.defined_locals = Added(@, name)]
         IN /\ Rewritten(d, f)
            /\ ArrayFind(d.defined_locals, name) \in Nat
            /\ Holds(d.defined_locals, ArrayFind(d.defined_locals, name), name)
<1> DEFINE old == desc[f].defined_locals
           new == Added(old, name)
           d == [desc[f] EXCEPT !.defined_locals = new]
<1>1. Described(f) /\ desc[f] \in Descriptions /\ old \in Locals
  BY TextIs
<1> HIDE DEF old
<1>2. /\ new \in Locals
      /\ \A k \in 1 .. Len(old) : k \in 1 .. Len(new) /\ new[k] = old[k]
      /\ \E k \in 1 .. Len(new) : new[k] = name
  BY <1>1, LocalsAdded
<1> HIDE DEF new
<1>3. new \in Seq(Names)
  BY <1>2 DEF Locals
<1>4. /\ d \in Descriptions /\ d.parent = desc[f].parent
      /\ d.argument_names = desc[f].argument_names /\ d.parallel = desc[f].parallel
      /\ d.code = desc[f].code /\ d.defined_locals = new
      /\ d.variable_references = desc[f].variable_references
      /\ d.variable_reference_names = desc[f].variable_reference_names
  BY <1>1, <1>3 DEF Descriptions
<1>5. desc[f].variable_references \in Seq(References)
  BY <1>1 DEF Descriptions
<1> HIDE DEF d
<1>6. Rewritten(d, f)
  BY <1>1, <1>2, <1>4, <1>5 DEF Rewritten, Described, old
<1>7. ArrayFind(new, name) \in -1 .. Len(new) - 1 /\ ArrayFind(new, name) >= 0
  BY <1>2, <1>3, FindIs
<1>8. new[ArrayFind(new, name) + 1] = name
  BY <1>3, <1>7, FindIs
<1>9. ArrayFind(new, name) \in Nat /\ Holds(new, ArrayFind(new, name), name)
  <2>1. Len(new) \in Nat
    BY <1>3
  <2> QED  BY <1>7, <1>8, <2>1 DEF Holds
<1> QED  BY <1>4, <1>6, <1>9 DEF d, new, old

\* A reference is written down with the nearest level that has the name.
LEMMA ReferenceIs ==
  ASSUME TextInv, NEW f \in DOMAIN desc, NEW name \in Names,
         ArrayFind(desc[f].defined_locals, name) < 0,
         VariableReference(f, name).index >= 0
  PROVE  LET r == VariableReference(f, name)
         IN /\ Rewritten(r.desc, f)
            /\ r.index \in Nat /\ r.index < Len(r.desc.variable_references)
<1> DEFINE refs == desc[f].variable_references
           names == desc[f].variable_reference_names
           known == ArrayFind(names, name)
           levels == {l \in 0..Len(desc) :
                        /\ Codegen(f, l) # 0
                        /\ ArrayFind(desc[Codegen(f, l)].defined_locals, name) >= 0}
           level == CHOOSE l \in levels : \A k \in levels : l <= k
           home == Codegen(f, level)
           idx == ArrayFind(desc[home].defined_locals, name)
           found == [context_level |-> level, variable_index |-> idx]
           new == [desc[f] EXCEPT !.variable_references = Append(@, found),
                                  !.variable_reference_names = Append(@, name)]
<1>1. /\ Described(f) /\ desc[f] \in Descriptions /\ Ordered
      /\ refs \in Seq(References) /\ names \in Seq(Names) /\ Len(refs) = Len(names)
      /\ Len(refs) \in Nat
  <2>1. /\ Described(f) /\ desc[f] \in Descriptions /\ Ordered
        /\ refs \in Seq(References) /\ names \in Seq(Names)
    BY TextIs
  <2> QED  BY <2>1 DEF Described
<1>2. VariableReference(f, name) =
        IF known >= 0 THEN [index |-> known, desc |-> desc[f]]
        ELSE IF levels = {} THEN [index |-> -1, desc |-> desc[f]]
        ELSE [index |-> Len(refs), desc |-> new]
  BY DEF VariableReference
<1>3. CASE known >= 0
  <2>1. known \in -1 .. Len(names) - 1
    BY <1>1, FindIs
  <2>2. Rewritten(desc[f], f)
    BY StaysItself
  <2> QED  BY <1>1, <1>2, <1>3, <2>1, <2>2
<1>4. CASE ~(known >= 0)
  <2>1. levels # {}
    BY <1>2, <1>4
  <2>2. levels \in SUBSET Nat
    <3>1. Len(desc) \in Nat
      BY <1>1 DEF Ordered
    <3> QED  BY <3>1
  <2>3. level \in levels
    <3>1. \E m \in levels : \A n \in levels : m <= n
      <4> HIDE DEF levels
      <4> QED  BY <2>1, <2>2, Least
    <3> HIDE DEF levels
    <3> QED  BY <3>1
  <2>4. level \in Nat /\ home # 0 /\ idx >= 0
    BY <2>2, <2>3
  <2>5. home \in DOMAIN desc
    <3>1. home \in 0 .. Len(desc)
      BY <1>1, <2>4, CodegenIs
    <3>2. DOMAIN desc = 1 .. Len(desc) /\ Len(desc) \in Nat
      BY <1>1 DEF Ordered
    <3> HIDE DEF home
    <3> QED  BY <2>4, <3>1, <3>2
  <2>6. level # 0
    <3>1. Codegen(f, 0) = f
      BY <1>1, CodegenIs, 0 \in Nat
    <3>2. ASSUME level = 0 PROVE FALSE
      <4>1. home = f
        BY <3>1, <3>2
      <4>2. idx < 0 /\ idx >= 0
        <5> HIDE DEF home
        <5> QED  BY <2>4, <4>1
      <4>3. idx \in Int
        <5>1. desc[f].defined_locals \in Seq(Names)
          BY <1>1 DEF Descriptions
        <5>2. ArrayFind(desc[f].defined_locals, name) \in -1 .. Len(desc[f].defined_locals) - 1
          BY <5>1, FindIs
        <5> HIDE DEF home
        <5> QED  BY <4>1, <5>1, <5>2
      <4> HIDE DEF idx
      <4> QED  BY <4>2, <4>3
    <3> QED  BY <3>2
  <2> HIDE DEF level
  <2> DEFINE locals == desc[home].defined_locals
  <2>7. locals \in Locals /\ locals \in Seq(Names)
    BY <2>5 DEF TextInv, Described, Locals
  <2>8. idx \in -1 .. Len(locals) - 1 /\ locals[idx + 1] = name /\ Len(locals) \in Nat
    <3> HIDE DEF home
    <3>1. ArrayFind(locals, name) >= 0
      BY <2>4
    <3> HIDE DEF locals
    <3> QED  BY <2>7, <3>1, FindIs DEF locals
  <2>9. idx \in Nat /\ Holds(locals, idx, name)
    <3> HIDE DEF locals, idx
    <3> QED  BY <2>4, <2>8 DEF Holds
  <2>10. name # It
    <3>1. desc[f].defined_locals \in Seq(Names) /\ desc[f].defined_locals[1] = It
          /\ 1 \in 1 .. Len(desc[f].defined_locals)
      BY <1>1 DEF Described, Locals
    <3>2. name = It => ArrayFind(desc[f].defined_locals, name) >= 0
      BY <3>1, FindIs
    <3>3. ArrayFind(desc[f].defined_locals, name) \in -1 .. Len(desc[f].defined_locals) - 1
      BY <3>1, FindIs
    <3>4. Len(desc[f].defined_locals) \in Nat
      BY <3>1
    <3> QED  BY <3>2, <3>3, <3>4
  <2>11. found \in References /\ LeadsTo(f, found, name)
    <3> HIDE DEF idx
    <3> QED  BY <2>4, <2>6, <2>9, <2>10 DEF References, LeadsTo
  <2> HIDE DEF found
  <2>12. /\ Append(refs, found) \in Seq(References) /\ Append(names, name) \in Seq(Names)
         /\ Len(Append(refs, found)) = Len(refs) + 1 /\ Len(Append(names, name)) = Len(refs) + 1
    BY <1>1, <2>11
  <2>13. \A r \in 1 .. Len(refs) + 1 :
           LeadsTo(f, Append(refs, found)[r], Append(names, name)[r])
    <3> TAKE r \in 1 .. Len(refs) + 1
    <3>1. CASE r \in 1 .. Len(refs)
      <4>1. Append(refs, found)[r] = refs[r] /\ Append(names, name)[r] = names[r]
        BY <1>1, <2>11, <3>1
      <4> QED  BY <1>1, <3>1, <4>1 DEF Described
    <3>2. CASE r = Len(refs) + 1
      <4>1. Append(refs, found)[r] = found /\ Append(names, name)[r] = name
        BY <1>1, <2>11, <3>2
      <4> QED  BY <2>11, <4>1
    <3> QED  BY <1>1, <3>1, <3>2
  <2>14. /\ new \in Descriptions /\ new.parent = desc[f].parent
         /\ new.argument_names = desc[f].argument_names /\ new.parallel = desc[f].parallel
         /\ new.code = desc[f].code /\ new.defined_locals = desc[f].defined_locals
         /\ new.variable_references = Append(refs, found)
         /\ new.variable_reference_names = Append(names, name)
    BY <1>1, <2>12 DEF Descriptions
  <2>15. f = 1 => desc[f].defined_locals = <<It>>
    BY DEF TextInv
  <2>16. desc[f].defined_locals \in Locals
    BY <1>1 DEF Described
  <2> HIDE DEF new
  <2>17. Len(refs) <= Len(refs) + 1 /\ Len(refs) < Len(refs) + 1
    BY <1>1
  <2>18. Rewritten(new, f)
    <3> HIDE DEF refs, names
    <3>1. Len(desc[f].variable_references) <= Len(refs) + 1
      BY <2>17 DEF refs
    <3> QED  BY <2>12, <2>13, <2>14, <2>15, <2>16, <3>1 DEF Rewritten
  <2>19. VariableReference(f, name) = [index |-> Len(refs), desc |-> new]
    <3> HIDE DEF refs, levels
    <3> QED  BY <1>2, <1>4, <2>1
  <2> QED  BY <1>1, <2>12, <2>14, <2>17, <2>18, <2>19
<1> QED  BY <1>3, <1>4

\* An instruction of a description that has been rewritten.
LEMMA EmitKeeps ==
  ASSUME TextInv, cg # 0, NEW d, Rewritten(d, cg), NEW i \in Instructions,
         i.how = "own" => Holds(d.defined_locals, i.index, i.name),
         i.how = "reference" => i.index < Len(d.variable_references),
         Emit(d, i), cg' = cg
  PROVE  TextInv'
<1> DEFINE e == [d EXCEPT !.code = @ \cup {i}]
<1>1. cg \in DOMAIN desc
  BY DEF TextInv, Ordered
<1>2. /\ desc \in Seq(Descriptions) /\ Ordered
      /\ DOMAIN desc = 1 .. Len(desc) /\ Len(desc) \in Nat
      /\ d \in Descriptions /\ d.parent = desc[cg].parent
      /\ d.argument_names = desc[cg].argument_names /\ d.parallel = desc[cg].parallel
      /\ d.code = desc[cg].code
  BY DEF TextInv, Ordered, Rewritten
<1>3. /\ e \in Descriptions /\ e.parent = desc[cg].parent
      /\ e.argument_names = desc[cg].argument_names /\ e.parallel = desc[cg].parallel
      /\ e.code = desc[cg].code \cup {i}
      /\ e.defined_locals = d.defined_locals
      /\ e.variable_references = d.variable_references
      /\ e.variable_reference_names = d.variable_reference_names
  BY <1>2 DEF Descriptions
<1>4. desc' = [desc EXCEPT ![cg] = e]
  BY DEF Emit
<1> HIDE DEF e
<1>5. /\ desc' \in Seq(Descriptions) /\ Len(desc') = Len(desc) /\ DOMAIN desc' = DOMAIN desc
      /\ desc'[cg] = e /\ \A f \in DOMAIN desc : f # cg => desc'[f] = desc[f]
  BY <1>1, <1>2, <1>3, <1>4
<1>6. \A f \in DOMAIN desc : f \in DOMAIN desc' /\ desc'[f].parent = desc[f].parent
  BY <1>1, <1>3, <1>5
<1>7. Ordered'
  BY <1>2, <1>5, <1>6 DEF Ordered
<1>8. \A f \in DOMAIN desc, level \in Nat : (Codegen(f, level))' = Codegen(f, level)
  BY <1>2, <1>6, <1>7, CodegenStays
<1>9. \A f \in DOMAIN desc :
        /\ desc'[f].argument_names = desc[f].argument_names
        /\ \A k \in 1 .. Len(desc[f].defined_locals) :
             /\ k \in 1 .. Len(desc'[f].defined_locals)
             /\ desc'[f].defined_locals[k] = desc[f].defined_locals[k]
  <2> SUFFICES ASSUME NEW f \in DOMAIN desc
               PROVE  /\ desc'[f].argument_names = desc[f].argument_names
                      /\ \A k \in 1 .. Len(desc[f].defined_locals) :
                           /\ k \in 1 .. Len(desc'[f].defined_locals)
                           /\ desc'[f].defined_locals[k] = desc[f].defined_locals[k]
    OBVIOUS
  <2>1. CASE f = cg
    <3>1. \A k \in 1 .. Len(desc[cg].defined_locals) :
            k \in 1 .. Len(d.defined_locals) /\ d.defined_locals[k] = desc[cg].defined_locals[k]
      BY DEF Rewritten
    <3> QED  BY <1>3, <1>5, <2>1, <3>1
  <2>2. CASE f # cg
    BY <1>5, <2>2
  <2> QED  BY <2>1, <2>2
<1>10. ASSUME NEW g \in DOMAIN desc, NEW idx \in Nat, NEW name, Holds(desc[g].defined_locals, idx, name)
       PROVE  Holds(desc'[g].defined_locals, idx, name)
  <2>1. Len(desc[g].defined_locals) \in Nat /\ Len(desc'[g].defined_locals) \in Nat
    <3>1. desc[g] \in Descriptions /\ desc'[g] \in Descriptions
      BY <1>2, <1>5
    <3> QED  BY <3>1 DEF Descriptions
  <2>2. idx < Len(desc[g].defined_locals) /\ desc[g].defined_locals[idx + 1] = name
    BY <1>10 DEF Holds
  <2>3. idx + 1 \in 1 .. Len(desc[g].defined_locals)
    BY <2>1, <2>2
  <2>4. idx + 1 \in 1 .. Len(desc'[g].defined_locals) /\ desc'[g].defined_locals[idx + 1] = name
    BY <1>9, <2>2, <2>3
  <2> QED  BY <2>1, <2>4 DEF Holds
<1>11. ASSUME NEW f \in DOMAIN desc, NEW r \in References, NEW name, LeadsTo(f, r, name)
       PROVE  (LeadsTo(f, r, name))'
  <2> DEFINE level == r.context_level
             idx == r.variable_index
             g == Codegen(f, level)
  <2>1. level \in Nat /\ idx \in Nat
    BY DEF References
  <2>2. level # 0 /\ name # It /\ g # 0 /\ Holds(desc[g].defined_locals, idx, name)
    BY <1>11 DEF LeadsTo
  <2>3. g' = g
    BY <1>8, <2>1
  <2>4. g \in DOMAIN desc
    <3>1. g \in 0 .. Len(desc)
      BY <1>2, <2>1, CodegenIs
    <3> HIDE DEF g
    <3> QED  BY <1>2, <2>2, <3>1
  <2>5. Holds(desc'[g].defined_locals, idx, name)
    <3> HIDE DEF g
    <3> QED  BY <1>10, <2>1, <2>2, <2>4
  <2>6. Holds(desc'[g'].defined_locals, idx, name)
    <3> HIDE DEF g
    <3> QED  BY <2>3, <2>5
  <2> QED  BY <2>2, <2>3, <2>6 DEF LeadsTo
<1>12. ASSUME NEW f \in DOMAIN desc PROVE (Described(f))'
  <2>1. Described(f) /\ desc[f] \in Descriptions
    BY TextIs
  <2>2. CASE f # cg
    <3>1. desc'[f] = desc[f]
      BY <1>5, <2>2
    <3>2. desc[f].variable_references \in Seq(References)
      BY <2>1 DEF Descriptions
    <3>3. \A r \in 1 .. Len(desc[f].variable_references) :
            (LeadsTo(f, desc[f].variable_references[r], desc[f].variable_reference_names[r]))'
      <4> TAKE r \in 1 .. Len(desc[f].variable_references)
      <4> DEFINE ref == desc[f].variable_references[r]
                 name == desc[f].variable_reference_names[r]
      <4>1. LeadsTo(f, ref, name) /\ ref \in References
        BY <2>1, <3>2 DEF Described
      <4>2. desc'[f].variable_references[r] = ref /\ desc'[f].variable_reference_names[r] = name
        BY <3>1
      <4> HIDE DEF ref, name
      <4> QED  BY <1>11, <4>1, <4>2
    <3> QED  BY <2>1, <3>1, <3>3 DEF Described
  <2>3. CASE f = cg
    <3>1. /\ d.defined_locals \in Locals
          /\ Len(d.variable_references) = Len(d.variable_reference_names)
          /\ Len(desc[cg].variable_references) <= Len(d.variable_references)
          /\ \A r \in 1 .. Len(d.variable_references) :
               LeadsTo(cg, d.variable_references[r], d.variable_reference_names[r])
      BY DEF Rewritten
    <3>2. /\ desc'[f].argument_names = desc[f].argument_names
          /\ desc'[f].parallel = desc[f].parallel
          /\ desc'[f].code = desc[f].code \cup {i}
          /\ desc'[f].defined_locals = d.defined_locals
          /\ desc'[f].variable_references = d.variable_references
          /\ desc'[f].variable_reference_names = d.variable_reference_names
      BY <1>3, <1>5, <2>3
    <3>3. d.variable_references \in Seq(References) /\ Len(d.variable_references) \in Nat
          /\ Len(desc[f].variable_references) \in Nat
      <4>1. d.variable_references \in Seq(References)
        BY <1>2 DEF Descriptions
      <4>2. desc[f].variable_references \in Seq(References)
        BY <2>1 DEF Descriptions
      <4> QED  BY <4>1, <4>2
    <3>4. \A j \in 1 .. Len(desc'[f].argument_names) :
            \E k \in 1 .. Len(desc'[f].defined_locals) :
              desc'[f].defined_locals[k] = desc'[f].argument_names[j]
      <4> TAKE j \in 1 .. Len(desc'[f].argument_names)
      <4>1. PICK k \in 1 .. Len(desc[f].defined_locals) :
              desc[f].defined_locals[k] = desc[f].argument_names[j]
        BY <2>1, <3>2 DEF Described
      <4> QED  BY <1>9, <3>2, <4>1
    <3>5. ASSUME NEW j \in desc'[f].code
          PROVE  /\ j.how = "own" => Holds(desc'[f].defined_locals, j.index, j.name)
                 /\ j.how = "reference" => j.index < Len(desc'[f].variable_references)
      <4>1. CASE j = i
        BY <3>2, <4>1
      <4>2. CASE j \in desc[f].code
        <5>1. j \in Instructions
          BY <2>1, <4>2 DEF Descriptions
        <5>2. j.index \in Nat
          BY <5>1 DEF Instructions
        <5>3. j.how = "own" => Holds(desc'[f].defined_locals, j.index, j.name)
          BY <1>10, <2>1, <4>2, <5>2 DEF Described
        <5>4. j.how = "reference" => j.index < Len(desc'[f].variable_references)
          BY <2>1, <2>3, <3>1, <3>2, <3>3, <4>2, <5>2 DEF Described
        <5> QED  BY <5>3, <5>4
      <4> QED  BY <3>2, <4>1, <4>2
    <3>6. \A r \in 1 .. Len(d.variable_references) :
            (LeadsTo(f, desc[f].variable_references[r], desc[f].variable_reference_names[r]))'
      <4> TAKE r \in 1 .. Len(d.variable_references)
      <4> DEFINE ref == d.variable_references[r]
                 name == d.variable_reference_names[r]
      <4>1. LeadsTo(f, ref, name) /\ ref \in References
        BY <2>3, <3>1, <3>3
      <4>2. desc'[f].variable_references[r] = ref /\ desc'[f].variable_reference_names[r] = name
        BY <3>2
      <4> HIDE DEF ref, name
      <4> QED  BY <1>11, <4>1, <4>2
    <3>7. desc[f].parallel => desc[f].argument_names = <<>>
      BY <2>1 DEF Described
    <3> QED  BY <3>1, <3>2, <3>4, <3>5, <3>6, <3>7 DEF Described
  <2> QED  BY <2>2, <2>3
<1>13. desc'[1].argument_names = <<>> /\ desc'[1].defined_locals = <<It>>
  <2>1. desc[1].argument_names = <<>> /\ desc[1].defined_locals = <<It>> /\ 1 \in DOMAIN desc
    BY DEF TextInv, Ordered
  <2>2. cg = 1 => d.defined_locals = <<It>>
    BY DEF Rewritten
  <2> QED  BY <1>3, <1>5, <2>1, <2>2
<1>14. cg' \in 0 .. Len(desc')
  BY <1>5 DEF TextInv
<1> QED  BY <1>5, <1>7, <1>12, <1>13, <1>14 DEF TextInv

\* An instruction and its parts.
LEMMA InstructionIs ==
  ASSUME NEW op \in {"get", "set"}, NEW how \in {"own", "reference", "unspecified"},
         NEW index \in Nat, NEW name \in Names
  PROVE  /\ Instruction(op, how, index, name) \in Instructions
         /\ Instruction(op, how, index, name).how = how
         /\ Instruction(op, how, index, name).index = index
         /\ Instruction(op, how, index, name).name = name
BY DEF Instruction, Instructions

\* The three ways to compile a name.
LEMMA OwnLocalEmitted ==
  ASSUME TextInv, cg # 0, NEW op \in {"get", "set"}, NEW name \in Names,
         ArrayFind(desc[cg].defined_locals, name) >= 0,
         Emit(desc[cg], Instruction(op, "own", ArrayFind(desc[cg].defined_locals, name), name)),
         cg' = cg
  PROVE  TextInv'
<1> DEFINE own == ArrayFind(desc[cg].defined_locals, name)
           i == Instruction(op, "own", own, name)
<1>1. cg \in DOMAIN desc
  BY DEF TextInv, Ordered
<1>2. desc[cg].defined_locals \in Seq(Names) /\ Rewritten(desc[cg], cg)
  BY <1>1, TextIs, StaysItself
<1>3. own \in -1 .. Len(desc[cg].defined_locals) - 1 /\ desc[cg].defined_locals[own + 1] = name
  BY <1>2, FindIs
<1>4. Len(desc[cg].defined_locals) \in Nat
  BY <1>2
<1> HIDE DEF own
<1>5. own \in Nat /\ Holds(desc[cg].defined_locals, own, name)
  BY <1>3, <1>4 DEF Holds, own
<1>6. i \in Instructions /\ i.how = "own" /\ i.index = own /\ i.name = name
  BY <1>5, InstructionIs
<1> HIDE DEF i
<1>7. Emit(desc[cg], i)
  BY DEF i, own
<1> QED  BY <1>2, <1>5, <1>6, <1>7, EmitKeeps

LEMMA ReferenceEmitted ==
  ASSUME TextInv, cg # 0, NEW op \in {"get", "set"}, NEW name \in Names,
         ArrayFind(desc[cg].defined_locals, name) < 0,
         VariableReference(cg, name).index >= 0,
         Emit(VariableReference(cg, name).desc,
              Instruction(op, "reference", VariableReference(cg, name).index, name)),
         cg' = cg
  PROVE  TextInv'
<1> DEFINE d == VariableReference(cg, name).desc
           index == VariableReference(cg, name).index
           i == Instruction(op, "reference", index, name)
<1>1. cg \in DOMAIN desc
  BY DEF TextInv, Ordered
<1>2. Rewritten(d, cg) /\ index \in Nat /\ index < Len(d.variable_references)
  BY <1>1, ReferenceIs
<1> HIDE DEF d, index
<1>3. i \in Instructions /\ i.how = "reference" /\ i.index = index
  BY <1>2, InstructionIs
<1> HIDE DEF i
<1>4. Emit(d, i)
  BY DEF i, d, index
<1> QED  BY <1>2, <1>3, <1>4, EmitKeeps

LEMMA UnspecifiedEmitted ==
  ASSUME TextInv, cg # 0, NEW op \in {"get", "set"}, NEW name \in Names,
         Emit(desc[cg], Instruction(op, "unspecified", 0, name)),
         cg' = cg
  PROVE  TextInv'
<1> DEFINE i == Instruction(op, "unspecified", 0, name)
<1>1. cg \in DOMAIN desc
  BY DEF TextInv, Ordered
<1>2. Rewritten(desc[cg], cg)
  BY <1>1, StaysItself
<1>3. i \in Instructions /\ i.how = "unspecified"
  BY InstructionIs, 0 \in Nat
<1> HIDE DEF i
<1>4. Emit(desc[cg], i)
  BY DEF i
<1> QED  BY <1>2, <1>3, <1>4, EmitKeeps

\* SN_AST_LOCAL.
LEMMA CompileLocalKeeps ==
  ASSUME TextInv, NEW name \in Names, CompileLocal(name)
  PROVE  TextInv'
<1>1. cg # 0 /\ cg' = cg
  BY DEF CompileLocal, Compiling
<1>2. CASE /\ ArrayFind(desc[cg].defined_locals, name) >= 0
           /\ Emit(desc[cg],
                   Instruction("get", "own", ArrayFind(desc[cg].defined_locals, name), name))
  BY <1>1, <1>2, OwnLocalEmitted
<1>3. CASE /\ ArrayFind(desc[cg].defined_locals, name) < 0
           /\ VariableReference(cg, name).index >= 0
           /\ Emit(VariableReference(cg, name).desc,
                   Instruction("get", "reference", VariableReference(cg, name).index, name))
  BY <1>1, <1>3, ReferenceEmitted
<1>4. CASE Emit(desc[cg], Instruction("get", "unspecified", 0, name))
  BY <1>1, <1>4, UnspecifiedEmitted
<1> QED  BY <1>2, <1>3, <1>4 DEF CompileLocal

\* SN_AST_LOCAL_ASSIGNMENT: the same, and a new local.
LEMMA CompileLocalAssignmentKeeps ==
  ASSUME TextInv, NEW name \in Names, CompileLocalAssignment(name)
  PROVE  TextInv'
<1> DEFINE d == [desc[cg] EXCEPT !.defined_locals = Added(@, name)]
           own == ArrayFind(d.defined_locals, name)
           i == Instruction("set", "own", own, name)
<1>1. cg # 0 /\ cg' = cg /\ cg \in DOMAIN desc
  BY DEF CompileLocalAssignment, Compiling, TextInv, Ordered
<1>2. CASE /\ ArrayFind(desc[cg].defined_locals, name) >= 0
           /\ Emit(desc[cg],
                   Instruction("set", "own", ArrayFind(desc[cg].defined_locals, name), name))
  BY <1>1, <1>2, OwnLocalEmitted
<1>3. CASE /\ ArrayFind(desc[cg].defined_locals, name) < 0
           /\ VariableReference(cg, name).index >= 0
           /\ Emit(VariableReference(cg, name).desc,
                   Instruction("set", "reference", VariableReference(cg, name).index, name))
  BY <1>1, <1>3, ReferenceEmitted
<1>4. CASE desc[cg].parent # 0 /\ Emit(d, i)
  <2>1. cg # 1
    BY <1>4 DEF TextInv, Ordered
  <2>2. Rewritten(d, cg) /\ own \in Nat /\ Holds(d.defined_locals, own, name)
    BY <1>1, <2>1, DefinesLocal
  <2> HIDE DEF own, d
  <2>3. i \in Instructions /\ i.how = "own" /\ i.index = own /\ i.name = name
    BY <2>2, InstructionIs
  <2> HIDE DEF i
  <2> QED  BY <1>1, <1>4, <2>2, <2>3, EmitKeeps
<1>5. CASE Emit(desc[cg], Instruction("set", "unspecified", 0, name))
  BY <1>1, <1>5, UnspecifiedEmitted
<1> QED  BY <1>2, <1>3, <1>4, <1>5 DEF CompileLocalAssignment

\* The locals of a function have its parameters.
LEMMA ParametersAreLocals ==
  ASSUME NEW parent \in Nat, NEW argument_names \in Seq(Names), NEW parallel \in BOOLEAN,
         It \in Names
  PROVE  LET locals == Description(parent, argument_names, parallel).defined_locals IN
         \A j \in DOMAIN argument_names :
           \E k \in 1 .. Len(locals) : locals[k] = argument_names[j]
<1> DEFINE N == Len(argument_names)
           locals == Description(parent, argument_names, parallel).defined_locals
<1>1. N \in Nat /\ DOMAIN argument_names = 1 .. N /\ \A i \in 1 .. N : argument_names[i] \in Names
  OBVIOUS
<1>2. \A j \in 1 .. N : \E k \in 1 .. Len(locals) : locals[k] = argument_names[j]
  BY <1>1, LocalsAre
<1> HIDE DEF locals, N
<1> QED  BY <1>1, <1>2 DEF locals

\* A function more: nothing refers to it yet, and none of the levels changes.
LEMMA CompileFunctionKeeps ==
  ASSUME ContextsAssumption, TextInv, NEW argument_names \in Seq(Names), NEW parallel \in BOOLEAN,
         parallel => argument_names = <<>>, CompileFunction(argument_names, parallel)
  PROVE  TextInv'
<1> DEFINE d == Description(cg, argument_names, parallel)
           N == Len(desc)
<1>1. cg # 0 /\ cg \in DOMAIN desc /\ cg \in 1 .. N /\ desc' = Append(desc, d) /\ cg' = N + 1
  BY DEF CompileFunction, Compiling, TextInv, Ordered
<1>2. It \in Names
  BY DEF ContextsAssumption
<1>3. /\ desc \in Seq(Descriptions) /\ Ordered
      /\ 1 \in DOMAIN desc /\ DOMAIN desc = 1 .. N /\ N \in Nat
  BY <1>1, TextIs DEF Ordered
<1>4. /\ d \in Descriptions
      /\ d.parent = cg /\ d.argument_names = argument_names /\ d.parallel = parallel
      /\ d.defined_locals \in Locals
      /\ \A j \in DOMAIN argument_names :
           \E k \in 1 .. Len(d.defined_locals) : d.defined_locals[k] = argument_names[j]
      /\ d.variable_references = <<>> /\ d.variable_reference_names = <<>> /\ d.code = {}
  <2> DEFINE p == cg
  <2>1. p \in Nat
    BY <1>1, <1>3
  <2> HIDE DEF p
  <2> DEFINE e == Description(p, argument_names, parallel)
  <2>2. e \in Descriptions
    BY <1>2, <2>1, DescriptionIs
  <2>3. e.parent = p /\ e.argument_names = argument_names
    BY <1>2, <2>1, DescriptionIs
  <2>5. e.parallel = parallel
    BY DEF Description
  <2>6. e.defined_locals \in Locals
    BY <1>2, <2>1, DescriptionIs
  <2>7. \A j \in DOMAIN argument_names :
          \E k \in 1 .. Len(e.defined_locals) : e.defined_locals[k] = argument_names[j]
    BY <1>2, <2>1, ParametersAreLocals
  <2>4. /\ Description(p, argument_names, parallel).variable_references = <<>>
        /\ Description(p, argument_names, parallel).variable_reference_names = <<>>
        /\ Description(p, argument_names, parallel).code = {}
    BY <1>2, <2>1, DescriptionIs
  <2> QED  BY <2>2, <2>3, <2>4, <2>5, <2>6, <2>7 DEF p
<1> HIDE DEF d, N
<1>5. /\ desc' \in Seq(Descriptions) /\ Len(desc') = N + 1 /\ DOMAIN desc' = 1 .. N + 1
      /\ desc'[N + 1] = d /\ \A f \in 1 .. N : desc'[f] = desc[f]
  BY <1>1, <1>3, <1>4 DEF N
<1>6. Ordered'
  <2> SUFFICES ASSUME NEW f \in 1 .. N + 1 PROVE desc'[f].parent \in 0 .. (f - 1)
    BY <1>3, <1>5 DEF Ordered
  <2>1. CASE f \in 1 .. N
    BY <1>3, <1>5, <2>1 DEF Ordered
  <2>2. CASE f = N + 1
    BY <1>1, <1>3, <1>4, <1>5, <2>2
  <2> QED  BY <1>3, <2>1, <2>2
<1>7. \A f \in DOMAIN desc, level \in Nat : (Codegen(f, level))' = Codegen(f, level)
  <2>1. \A f \in DOMAIN desc : f \in DOMAIN desc' /\ desc'[f].parent = desc[f].parent
    BY <1>3, <1>5
  <2> QED  BY <1>3, <1>6, <2>1, CodegenStays
<1>8. ASSUME NEW f \in 1 .. N, NEW r \in References, NEW name, LeadsTo(f, r, name)
      PROVE  (LeadsTo(f, r, name))'
  <2> DEFINE level == r.context_level
             idx == r.variable_index
             g == Codegen(f, level)
  <2>1. level \in Nat
    BY DEF References
  <2>2. level # 0 /\ name # It /\ g # 0 /\ Holds(desc[g].defined_locals, idx, name)
    BY <1>8 DEF LeadsTo
  <2>3. g' = g
    BY <1>3, <1>7, <2>1
  <2>4. g \in 0 .. N
    BY <1>3, <2>1, CodegenIs DEF N
  <2>5. desc'[g] = desc[g]
    <3> HIDE DEF g
    <3>1. g \in 1 .. N
      BY <1>3, <2>2, <2>4
    <3> QED  BY <1>5, <3>1
  <2>6. Holds(desc'[g'].defined_locals, idx, name)
    <3> HIDE DEF g
    <3> QED  BY <2>2, <2>3, <2>5
  <2> QED  BY <2>2, <2>3, <2>6 DEF LeadsTo
<1>9. ASSUME NEW f \in 1 .. N + 1 PROVE (Described(f))'
  <2>1. CASE f \in 1 .. N
    <3>1. Described(f) /\ desc'[f] = desc[f] /\ desc[f].variable_references \in Seq(References)
      BY <1>3, <1>5, <2>1, TextIs
    <3>2. \A r \in 1 .. Len(desc[f].variable_references) :
            (LeadsTo(f, desc[f].variable_references[r], desc[f].variable_reference_names[r]))'
      <4> TAKE r \in 1 .. Len(desc[f].variable_references)
      <4> DEFINE ref == desc[f].variable_references[r]
                 name == desc[f].variable_reference_names[r]
      <4>1. LeadsTo(f, ref, name) /\ ref \in References
        BY <3>1 DEF Described
      <4>2. desc'[f].variable_references[r] = ref /\ desc'[f].variable_reference_names[r] = name
        BY <3>1
      <4> HIDE DEF ref, name
      <4> QED  BY <1>8, <2>1, <4>1, <4>2
    <3> QED  BY <3>1, <3>2 DEF Described
  <2>2. CASE f = N + 1
    <3>1. desc'[f] = d
      BY <1>5, <2>2
    <3>2. Len(<<>>) = 0 /\ 1 .. 0 = {} /\ DOMAIN argument_names = 1 .. Len(argument_names)
      OBVIOUS
    <3>3. /\ Len(desc'[f].variable_references) = 0 /\ Len(desc'[f].variable_reference_names) = 0
          /\ desc'[f].code = {} /\ desc'[f].defined_locals \in Locals
          /\ desc'[f].argument_names = argument_names /\ desc'[f].parallel = parallel
      BY <1>4, <3>1, <3>2
    <3>4. \A i \in 1 .. Len(desc'[f].argument_names) :
            \E k \in 1 .. Len(desc'[f].defined_locals) :
              desc'[f].defined_locals[k] = desc'[f].argument_names[i]
      BY <1>4, <3>1, <3>2
    <3> QED  BY <3>2, <3>3, <3>4 DEF Described
  <2> QED  BY <1>3, <2>1, <2>2
<1>10. desc'[1].argument_names = <<>> /\ desc'[1].defined_locals = <<It>>
  BY <1>3, <1>5 DEF TextInv
<1>11. cg' \in 0 .. Len(desc')
  BY <1>1, <1>3, <1>5 DEF N
<1> QED  BY <1>5, <1>6, <1>9, <1>10, <1>11 DEF TextInv

\* Nothing is rewritten.
LEMMA TextStays ==
  ASSUME TextInv, UNCHANGED desc, cg' \in 0 .. Len(desc)
  PROVE  TextInv'
<1>1. Ordered /\ Ordered'
  BY DEF TextInv, Ordered
<1>2. \A f \in DOMAIN desc, level \in Nat : (Codegen(f, level))' = Codegen(f, level)
  BY <1>1, CodegenStays
<1>3. ASSUME NEW f \in DOMAIN desc, NEW r \in References, NEW name, LeadsTo(f, r, name)
      PROVE  (LeadsTo(f, r, name))'
  <2> DEFINE level == r.context_level
             g == Codegen(f, level)
  <2>1. level \in Nat
    BY DEF References
  <2>2. g' = g
    BY <1>2, <2>1
  <2> QED  BY <1>3, <2>2 DEF LeadsTo
<1>4. ASSUME NEW f \in DOMAIN desc PROVE (Described(f))'
  <2>1. Described(f) /\ desc[f].variable_references \in Seq(References)
    BY TextIs
  <2>2. \A r \in 1 .. Len(desc[f].variable_references) :
          (LeadsTo(f, desc[f].variable_references[r], desc[f].variable_reference_names[r]))'
    <3> TAKE r \in 1 .. Len(desc[f].variable_references)
    <3> DEFINE ref == desc[f].variable_references[r]
               name == desc[f].variable_reference_names[r]
    <3>1. LeadsTo(f, ref, name) /\ ref \in References
      BY <2>1 DEF Described
    <3>2. desc'[f].variable_references[r] = ref /\ desc'[f].variable_reference_names[r] = name
      OBVIOUS
    <3> HIDE DEF ref, name
    <3> QED  BY <1>3, <3>1, <3>2
  <2> QED  BY <2>1, <2>2 DEF Described
<1> QED  BY <1>1, <1>4 DEF TextInv

\* The end of a function.
LEMMA EndFunctionKeeps ==
  ASSUME TextInv, EndFunction
  PROVE  TextInv'
<1>1. cg \in DOMAIN desc /\ cg' = desc[cg].parent /\ UNCHANGED desc
  BY DEF EndFunction, Compiling, TextInv, Ordered
<1>2. cg' \in 0 .. Len(desc)
  BY <1>1 DEF TextInv, Ordered
<1> QED  BY <1>1, <1>2, TextStays

(***************************************************************************)
(* Closures and contexts                                                   *)
(***************************************************************************)
\* What the invariant says of arrays and what runs.
LEMMA RunIs ==
  ASSUME TextInv, RunInv
  PROVE  /\ Ordered /\ Chained
         /\ closures \in Seq(Closures) /\ DOMAIN closures = 1 .. Len(closures)
         /\ Len(closures) \in Nat
         /\ contexts \in Seq(Records) /\ DOMAIN contexts = 1 .. Len(contexts)
         /\ Len(contexts) \in Nat /\ 1 \in DOMAIN contexts
         /\ DOMAIN desc = 1 .. Len(desc) /\ Len(desc) \in Nat /\ 1 \in DOMAIN desc
         /\ \A c \in DOMAIN contexts : Runs(c) \in DOMAIN desc /\ contexts[c] \in Records
<1>1. Ordered /\ Chained /\ closures \in Seq(Closures) /\ contexts \in Seq(Records)
  BY DEF TextInv, RunInv
<1>2. 1 \in DOMAIN contexts /\ 1 \in DOMAIN desc
  BY <1>1 DEF Chained, Ordered
<1>3. DOMAIN desc = 1 .. Len(desc) /\ Len(desc) \in Nat
  BY <1>1 DEF Ordered
<1>4. \A c \in DOMAIN contexts : Runs(c) \in DOMAIN desc
  BY <1>1, OuterRuns
<1>5. \A c \in DOMAIN contexts : contexts[c] \in Records
  BY <1>1
<1> QED  BY <1>1, <1>2, <1>3, <1>4, <1>5

\* What runs in a context does not change, and no reference of a closure does.
LEMMA RunsStay ==
  ASSUME TextInv, RunInv, UNCHANGED desc,
         \A k \in DOMAIN closures : k \in DOMAIN closures' /\ closures'[k] = closures[k],
         \A c \in DOMAIN contexts :
           c \in DOMAIN contexts' /\ contexts'[c].function = contexts[c].function
  PROVE  /\ \A c \in DOMAIN contexts :
              /\ (Runs(c))' = Runs(c)
              /\ c # 1 => (LocalNames(c))' = LocalNames(c)
         /\ \A k \in DOMAIN closures : (Resolved(k))'
<1>1. Chained
  BY RunIs
<1>2. ASSUME NEW c \in DOMAIN contexts
      PROVE  (Runs(c))' = Runs(c) /\ (c # 1 => (LocalNames(c))' = LocalNames(c))
  BY <1>1 DEF Chained, Runs, LocalNames
<1>3. ASSUME NEW k \in DOMAIN closures PROVE (Resolved(k))'
  <2>1. Resolved(k) /\ closures'[k] = closures[k]
    BY DEF RunInv
  <2>2. \A i \in 1 .. Len(closures[k].variable_references) :
          LET ref == closures'[k].variable_references[i]
              name == desc'[closures'[k].desc].variable_reference_names[i]
          IN /\ ref.context \in DOMAIN contexts' /\ ref.context # 1
             /\ Holds((LocalNames(closures[k].variable_references[i].context))',
                      ref.variable_index, name)
    <3> TAKE i \in 1 .. Len(closures[k].variable_references)
    <3> DEFINE ref == closures[k].variable_references[i]
               context == ref.context
    <3>1. /\ context \in DOMAIN contexts /\ context # 1
          /\ Holds(LocalNames(context), ref.variable_index,
                   desc[closures[k].desc].variable_reference_names[i])
      BY <2>1 DEF Resolved
    <3>2. context' = context
      BY <2>1
    <3> HIDE DEF context
    <3>3. (LocalNames(context))' = LocalNames(context)
      BY <1>2, <3>1, <3>2
    <3> QED  BY <2>1, <3>1, <3>2, <3>3 DEF context
  <2> QED  BY <2>1, <2>2 DEF Resolved
<1> QED  BY <1>2, <1>3

\* A reference that a closure has been given leads to a context of the function
\* that has the name.
LEMMA ClosureIs ==
  ASSUME TextInv, RunInv, NEW c \in DOMAIN contexts, NEW d \in DOMAIN desc,
         desc[d].parent = Runs(c)
  PROVE  LET closure == DeclaredInContext(d, c) IN
         /\ closure \in Closures
         /\ closure.desc = d /\ closure.declaration_context = c
         /\ Len(closure.variable_references) = Len(desc[d].variable_reference_names)
         /\ \A i \in 1 .. Len(closure.variable_references) :
              /\ closure.variable_references[i].context \in DOMAIN contexts
              /\ closure.variable_references[i].context # 1
              /\ Holds(LocalNames(closure.variable_references[i].context),
                       closure.variable_references[i].variable_index,
                       desc[d].variable_reference_names[i])
<1> DEFINE refs == desc[d].variable_references
           names == desc[d].variable_reference_names
           N == Len(refs)
           Home(i) == ContextAtLevel(c, refs[i].context_level)
           found == [i \in 1 .. N |-> [context |-> Home(i), variable_index |-> refs[i].variable_index]]
<1>1. Described(d) /\ refs \in Seq(References) /\ names \in Seq(Names)
  BY TextIs
<1>2. N \in Nat /\ DOMAIN refs = 1 .. N /\ Len(names) = N /\ \A i \in 1 .. N : refs[i] \in References
  BY <1>1 DEF Described
<1>3. Ordered /\ Chained /\ DOMAIN contexts = 1 .. Len(contexts) /\ Len(contexts) \in Nat
  BY RunIs
<1>4. ASSUME NEW i \in 1 .. N
      PROVE  /\ Home(i) \in DOMAIN contexts /\ Home(i) # 1 /\ Home(i) \in Nat
             /\ refs[i].variable_index \in Nat
             /\ Holds(LocalNames(Home(i)), refs[i].variable_index, names[i])
  <2> DEFINE level == refs[i].context_level
             idx == refs[i].variable_index
             g == Codegen(d, level)
             name == names[i]
  <2>1. level \in Nat /\ idx \in Nat
    BY <1>2 DEF References
  <2>2. level # 0 /\ name # It /\ g # 0 /\ Holds(desc[g].defined_locals, idx, name)
    BY <1>1 DEF Described, LeadsTo
  <2> HIDE DEF level, idx, name
  <2>3. ContextAtLevel(c, level) \in DOMAIN contexts /\ Runs(ContextAtLevel(c, level)) = g
    BY <1>3, <2>1, <2>2, LevelIs
  <2>4. Home(i) = ContextAtLevel(c, level)
    BY DEF level
  <2> HIDE DEF Home, g
  <2>5. ASSUME Home(i) = 1 PROVE FALSE
    <3>1. g = 1
      BY <2>3, <2>4, <2>5 DEF Runs
    <3>2. desc[g].defined_locals = <<It>>
      BY <3>1 DEF TextInv
    <3>3. idx < 1 /\ <<It>>[idx + 1] = name
      BY <2>2, <3>2 DEF Holds
    <3>4. idx = 0
      BY <2>1, <3>3
    <3> QED  BY <2>2, <3>3, <3>4
  <2>6. LocalNames(Home(i)) = desc[g].defined_locals
    BY <2>3, <2>4, <2>5 DEF LocalNames
  <2>7. Home(i) \in DOMAIN contexts /\ Home(i) \in Nat
    BY <1>3, <2>3, <2>4
  <2> QED  BY <2>1, <2>2, <2>5, <2>6, <2>7 DEF idx, name
<1>5. DeclaredInContext(d, c) =
        [desc |-> d, declaration_context |-> c, variable_references |-> found]
  BY <1>2 DEF DeclaredInContext
<1> HIDE DEF Home, refs, names
<1>6. /\ found \in Seq([context : Nat, variable_index : Nat]) /\ Len(found) = N
      /\ \A i \in 1 .. N : found[i].context = Home(i) /\ found[i].variable_index = refs[i].variable_index
  <2>1. \A i \in 1 .. N : [context |-> Home(i), variable_index |-> refs[i].variable_index]
                            \in [context : Nat, variable_index : Nat]
    BY <1>4
  <2>2. found \in [1 .. N -> [context : Nat, variable_index : Nat]]
    BY <2>1
  <2>3. found \in Seq([context : Nat, variable_index : Nat]) /\ Len(found) = N
    BY <1>2, <2>2
  <2> QED  BY <2>3
<1> HIDE DEF found
<1>7. d \in Nat /\ c \in Nat
  BY <1>3 DEF Ordered
<1>8. DeclaredInContext(d, c) \in Closures
  BY <1>5, <1>6, <1>7 DEF Closures
<1>9. /\ DeclaredInContext(d, c).desc = d /\ DeclaredInContext(d, c).declaration_context = c
      /\ DeclaredInContext(d, c).variable_references = found
  BY <1>5
<1>10. \A i \in 1 .. N :
         /\ found[i].context \in DOMAIN contexts /\ found[i].context # 1
         /\ Holds(LocalNames(found[i].context), found[i].variable_index, names[i])
  BY <1>4, <1>6
<1> QED  BY <1>2, <1>6, <1>8, <1>9, <1>10 DEF names

\* Where closures and contexts are only added, and each local has a name.
LEMMA RunKeeps ==
  ASSUME TextInv, RunInv, closures # <<>>, UNCHANGED <<cg, desc>>,
         closures' \in Seq(Closures), contexts' \in Seq(Records),
         global_names' \in Seq(Names), Len(global_names) <= Len(global_names'),
         result' \in Word,
         \A k \in DOMAIN closures : k \in DOMAIN closures' /\ closures'[k] = closures[k],
         \A c \in DOMAIN contexts :
           /\ c \in DOMAIN contexts' /\ contexts'[c].function = contexts[c].function
           /\ Len(contexts'[c].locals) <= Len(IF c = 1 THEN global_names' ELSE LocalNames(c)),
         \A k \in DOMAIN closures' : k \notin DOMAIN closures =>
           \E c \in DOMAIN contexts, d \in DOMAIN desc :
             desc[d].parent = Runs(c) /\ closures'[k] = DeclaredInContext(d, c),
         \A c \in DOMAIN contexts' : c \notin DOMAIN contexts =>
           /\ contexts'[c].function \in DOMAIN closures' /\ contexts'[c].function # 1
           /\ Len(contexts'[c].locals) <=
                Len(desc[closures'[contexts'[c].function].desc].defined_locals)
  PROVE  RunInv'
<1>1. /\ Ordered /\ Chained
      /\ DOMAIN closures = 1 .. Len(closures) /\ Len(closures) \in Nat
      /\ 1 \in DOMAIN contexts /\ 1 \in DOMAIN desc
  BY RunIs
<1>2. /\ \A c \in DOMAIN contexts :
           /\ (Runs(c))' = Runs(c)
           /\ c # 1 => (LocalNames(c))' = LocalNames(c)
      /\ \A k \in DOMAIN closures : (Resolved(k))'
  BY RunsStay
<1>3. ASSUME NEW k \in DOMAIN closures', k \notin DOMAIN closures
      PROVE  /\ (Resolved(k))'
             /\ closures'[k].desc \in DOMAIN desc'
             /\ closures'[k].declaration_context \in DOMAIN contexts'
             /\ desc'[closures'[k].desc].parent = (Runs(closures[k].declaration_context))'
  <2>1. PICK c \in DOMAIN contexts, d \in DOMAIN desc :
          desc[d].parent = Runs(c) /\ closures'[k] = DeclaredInContext(d, c)
    BY <1>3
  <2> DEFINE closure == DeclaredInContext(d, c)
             refs == closure.variable_references
  <2>2. closure.desc = d /\ closure.declaration_context = c
    BY <2>1, ClosureIs
  <2>3. Len(refs) = Len(desc[d].variable_reference_names)
    BY <2>1, ClosureIs
  <2>4. \A i \in 1 .. Len(refs) :
          /\ refs[i].context \in DOMAIN contexts /\ refs[i].context # 1
          /\ Holds(LocalNames(refs[i].context), refs[i].variable_index,
                   desc[d].variable_reference_names[i])
    BY <2>1, ClosureIs
  <2> HIDE DEF closure
  <2>5. closures'[k] = closure
    BY <2>1 DEF closure
  <2>6. (Resolved(k))'
    <3>1. \A i \in 1 .. Len(refs) :
            /\ refs[i].context \in DOMAIN contexts' /\ refs[i].context # 1
            /\ Holds((LocalNames(closures[k].variable_references[i].context))',
                     refs[i].variable_index, desc[d].variable_reference_names[i])
      <4> TAKE i \in 1 .. Len(refs)
      <4>1. PICK e \in DOMAIN contexts : e = refs[i].context
        BY <2>4
      <4>2. e # 1 /\ Holds(LocalNames(e), refs[i].variable_index,
                           desc[d].variable_reference_names[i])
        BY <2>4, <4>1
      <4>3. (LocalNames(e))' = LocalNames(e)
        BY <1>2, <4>2
      <4>4. e = closures'[k].variable_references[i].context
        BY <2>5, <4>1
      <4> QED  BY <4>1, <4>2, <4>3, <4>4
    <3> QED  BY <2>2, <2>3, <2>5, <3>1 DEF Resolved
  <2>7. (Runs(closures[k].declaration_context))' = Runs(c)
    <3>1. closures'[k].declaration_context = c
      BY <2>2, <2>5
    <3>2. (Runs(c))' = Runs(c)
      BY <1>2
    <3> QED  BY <3>1, <3>2
  <2> QED  BY <2>1, <2>2, <2>5, <2>6, <2>7
<1>4. ASSUME NEW k \in DOMAIN closures
      PROVE  /\ closures'[k].desc \in DOMAIN desc'
             /\ k # 1 => /\ closures'[k].declaration_context \in DOMAIN contexts'
                         /\ desc'[closures'[k].desc].parent = (Runs(closures[k].declaration_context))'
  <2>1. /\ closures'[k] = closures[k] /\ closures[k].desc \in DOMAIN desc
        /\ k # 1 => /\ closures[k].declaration_context \in DOMAIN contexts
                    /\ desc[closures[k].desc].parent = Runs(closures[k].declaration_context)
    BY <1>1 DEF Chained
  <2>2. ASSUME k # 1
        PROVE  (Runs(closures[k].declaration_context))' = Runs(closures[k].declaration_context)
    <3>1. PICK e \in DOMAIN contexts : e = closures[k].declaration_context
      BY <2>1, <2>2
    <3>2. e = closures'[k].declaration_context /\ (Runs(e))' = Runs(e)
      BY <1>2, <2>1, <3>1
    <3> QED  BY <3>1, <3>2
  <2> QED  BY <2>1, <2>2
<1>5. 1 \in DOMAIN contexts' /\ 1 \in DOMAIN closures
  BY <1>1
<1>6. ASSUME NEW c \in DOMAIN contexts'
      PROVE  /\ c # 1 => contexts'[c].function \in DOMAIN closures' /\ contexts'[c].function # 1
             /\ Len(contexts'[c].locals) <= Len((LocalNames(c))')
  <2>1. CASE c \in DOMAIN contexts
    <3>1. c # 1 => contexts'[c].function \in DOMAIN closures' /\ contexts'[c].function # 1
      BY <1>1, <2>1 DEF Chained
    <3>2. (LocalNames(c))' = IF c = 1 THEN global_names' ELSE LocalNames(c)
      BY <1>2, <2>1 DEF LocalNames
    <3> QED  BY <2>1, <3>1, <3>2
  <2>2. CASE c \notin DOMAIN contexts
    <3>1. c # 1
      BY <1>1, <2>2
    <3>2. (LocalNames(c))' = desc[closures'[contexts'[c].function].desc].defined_locals
      BY <3>1 DEF LocalNames, Runs
    <3> QED  BY <2>2, <3>2
  <2> QED  BY <2>1, <2>2
<1>7. Chained'
  BY <1>3, <1>4, <1>5, <1>6 DEF Chained
<1>8. 1 <= Len(global_names')
  <2>1. Len(global_names) \in Nat /\ 1 <= Len(global_names) /\ Len(global_names') \in Nat
    BY DEF RunInv
  <2> QED  BY <2>1
<1>9. cg' = 0 /\ closures'[1].desc = 1
  BY <1>5 DEF RunInv
<1>10. \A k \in DOMAIN closures' : (Resolved(k))'
  BY <1>2, <1>3
<1> QED  BY <1>6, <1>7, <1>8, <1>9, <1>10 DEF RunInv, Word

\* Nothing runs while the program is compiled.
LEMMA CompilingKeepsRun ==
  ASSUME TextInv, TextInv', RunInv, Compiling
  PROVE  RunInv'
<1>1. closures = <<>> /\ cg # 0 /\ UNCHANGED <<closures, contexts, global_names, result>>
  BY DEF Compiling, RunInv
<1>2. DOMAIN closures = {} /\ 1 \in DOMAIN contexts
  BY <1>1 DEF RunInv, Chained
<1>3. \A c \in DOMAIN contexts : c = 1
  BY <1>2 DEF RunInv, Chained
<1>4. Chained'
  BY <1>1, <1>2, <1>3 DEF Chained
<1>5. \A c \in DOMAIN contexts' : Len(contexts'[c].locals) <= Len((LocalNames(c))')
  <2> TAKE c \in DOMAIN contexts'
  <2>1. c = 1 /\ c \in DOMAIN contexts
    BY <1>1, <1>3
  <2>2. (LocalNames(c))' = global_names /\ LocalNames(c) = global_names
    BY <1>1, <2>1 DEF LocalNames
  <2> QED  BY <1>1, <2>1, <2>2 DEF RunInv
<1>6. DOMAIN closures' = {} /\ closures' = <<>>
  BY <1>1, <1>2
<1>7. /\ closures' \in Seq(Closures) /\ contexts' \in Seq(Records)
      /\ global_names' \in Seq(Names) /\ 1 <= Len(global_names')
      /\ result' \in Word
  BY <1>1 DEF RunInv, Word
<1> QED  BY <1>4, <1>5, <1>6, <1>7 DEF RunInv, Word

\* snow_eval: the closure of the program, in the global context.
LEMMA EvalKeepsRun ==
  ASSUME ContextsAssumption, TextInv, RunInv, Eval
  PROVE  RunInv'
<1> DEFINE closure == DeclaredInContext(1, NotGiven)
           locals == ArraySet(contexts[1].locals, ArrayFind(global_names', It), Nil)
<1>1. /\ cg = 0 /\ closures = <<>> /\ closures' = <<closure>>
      /\ global_names' = Added(global_names, It)
      /\ contexts' = [contexts EXCEPT ![1].locals = locals]
      /\ UNCHANGED <<cg, desc, result>>
  BY DEF Eval
<1>2. /\ contexts \in Seq(Records) /\ 1 \in DOMAIN contexts /\ contexts[1] \in Records
      /\ 1 \in DOMAIN desc
  BY RunIs
<1>3. \A c \in DOMAIN contexts : c = 1
  BY <1>1 DEF RunInv, Chained
<1>4. It \in Names /\ global_names \in Seq(Names)
  BY DEF ContextsAssumption, RunInv
<1>5. /\ global_names' \in Seq(Names)
      /\ Len(global_names) <= Len(global_names') /\ 1 <= Len(global_names')
  BY <1>1, <1>4, AddedIs
<1>6. \E i \in 1 .. Len(global_names') : global_names'[i] = It
  <2>1. \E i \in 1 .. Len(Added(global_names, It)) : Added(global_names, It)[i] = It
    BY <1>4, AddedIs
  <2> QED  BY <1>1, <2>1
<1> DEFINE idx == ArrayFind(global_names', It)
<1>7. idx \in Nat /\ idx + 1 <= Len(global_names') /\ Len(global_names') \in Nat
  <2>1. idx \in -1 .. Len(global_names') - 1 /\ idx >= 0
    BY <1>5, <1>6, FindIs
  <2>2. Len(global_names') \in Nat
    BY <1>5
  <2> HIDE DEF idx
  <2> QED  BY <2>1, <2>2
<1>8. contexts[1].locals \in Seq(Stored) /\ Len(contexts[1].locals) <= Len(global_names)
  BY <1>2 DEF Records, RunInv, LocalNames
<1>9. locals \in Seq(Stored) /\ Len(locals) <= Len(global_names')
  <2> DEFINE old == contexts[1].locals
  <2>1. old \in Seq(Stored) /\ Nil \in Stored /\ idx \in Nat
    BY <1>7, <1>8 DEF Stored
  <2> HIDE DEF old, idx
  <2>2. ArraySet(old, idx, Nil) \in Seq(Stored)
    BY <2>1, SetIs
  <2>3. Len(ArraySet(old, idx, Nil)) = IF idx >= Len(old) THEN idx + 1 ELSE Len(old)
    BY <2>1, SetIs
  <2>4. locals = ArraySet(old, idx, Nil)
    BY DEF old, idx
  <2>5. Len(old) \in Nat /\ Len(global_names) \in Nat /\ Len(old) <= Len(global_names)
    BY <1>4, <1>8, <2>1 DEF old
  <2> HIDE DEF locals
  <2> QED  BY <1>5, <1>7, <2>2, <2>3, <2>4, <2>5
<1> HIDE DEF locals
<1>10. /\ contexts' \in Seq(Records) /\ DOMAIN contexts' = DOMAIN contexts
       /\ contexts'[1].locals = locals
  <2> DEFINE e == [contexts[1] EXCEPT !.locals = locals]
  <2>1. e \in Records /\ e.locals = locals
    BY <1>2, <1>9 DEF Records
  <2>2. contexts' = [contexts EXCEPT ![1] = e]
    BY <1>1
  <2> HIDE DEF e
  <2> QED  BY <1>2, <2>1, <2>2
<1>11. Len(desc[1].variable_references) = 0 /\ Len(desc[1].variable_reference_names) = 0
       /\ desc[1].variable_references \in Seq(References)
  BY <1>2, OutermostRefersToNone, TextIs DEF Described
<1>12. /\ closure \in Closures /\ closure.desc = 1
       /\ Len(closure.variable_references) = 0
  <2>1. DOMAIN desc[1].variable_references = {}
    BY <1>11
  <2>2. [i \in DOMAIN desc[1].variable_references |->
          [context |-> ContextAtLevel(NotGiven, desc[1].variable_references[i].context_level),
           variable_index |-> desc[1].variable_references[i].variable_index]] = <<>>
    BY <2>1
  <2>3. closure = [desc |-> 1, declaration_context |-> NotGiven, variable_references |-> <<>>]
    BY <2>2 DEF DeclaredInContext
  <2> DEFINE none == <<>>
  <2>4. none \in Seq([context : Nat, variable_index : Nat]) /\ Len(none) = 0
    OBVIOUS
  <2>5. closure = [desc |-> 1, declaration_context |-> NotGiven, variable_references |-> none]
    BY <2>3
  <2> HIDE DEF none, closure
  <2>6. 1 \in Nat
    OBVIOUS
  <2> QED  BY <2>4, <2>5, <2>6 DEF Closures
<1> HIDE DEF closure
<1>13. /\ closures' \in Seq(Closures) /\ DOMAIN closures' = {1} /\ closures'[1] = closure
  BY <1>1, <1>12
<1>14. (Resolved(1))'
  BY <1>1, <1>11, <1>12, <1>13 DEF Resolved
<1>15. Chained'
  BY <1>1, <1>2, <1>3, <1>10, <1>12, <1>13 DEF Chained
<1>16. \A c \in DOMAIN contexts' : Len(contexts'[c].locals) <= Len((LocalNames(c))')
  <2> TAKE c \in DOMAIN contexts'
  <2>1. c = 1 /\ (LocalNames(c))' = global_names'
    BY <1>3, <1>10 DEF LocalNames
  <2> QED  BY <1>9, <1>10, <2>1
<1>17. result' \in Word
  BY <1>1 DEF RunInv, Word
<1> QED  BY <1>1, <1>5, <1>10, <1>12, <1>13, <1>14, <1>15, <1>16, <1>17 DEF RunInv, Word

\* snow_create_function_from_description.
LEMMA CreateClosureKeeps ==
  ASSUME TextInv, RunInv, NEW c \in DOMAIN contexts, NEW d \in DOMAIN desc, CreateClosure(c, d)
  PROVE  RunInv'
<1> DEFINE closure == DeclaredInContext(d, c)
<1>1. /\ closures # <<>> /\ UNCHANGED <<cg, desc, contexts, global_names, result>>
      /\ desc[d].parent = Runs(c)
      /\ closures' = Append(closures, closure)
  BY DEF CreateClosure, Running
<1>2. closure \in Closures
  BY <1>1, ClosureIs
<1>3. /\ closures \in Seq(Closures) /\ DOMAIN closures = 1 .. Len(closures) /\ Len(closures) \in Nat
      /\ contexts \in Seq(Records) /\ DOMAIN contexts = 1 .. Len(contexts)
  BY RunIs
<1> HIDE DEF closure
<1>4. /\ closures' \in Seq(Closures)
      /\ \A k \in DOMAIN closures : k \in DOMAIN closures' /\ closures'[k] = closures[k]
      /\ \A k \in DOMAIN closures' : k \notin DOMAIN closures => closures'[k] = closure
  BY <1>1, <1>2, <1>3
<1>5. \A k \in DOMAIN closures' : k \notin DOMAIN closures =>
        \E e \in DOMAIN contexts, g \in DOMAIN desc :
          desc[g].parent = Runs(e) /\ closures'[k] = DeclaredInContext(g, e)
  BY <1>1, <1>4 DEF closure
<1>6. /\ contexts' \in Seq(Records) /\ global_names' \in Seq(Names)
      /\ Len(global_names) <= Len(global_names') /\ result' \in Word
  <2>1. Len(global_names) \in Nat
    BY DEF RunInv
  <2> QED  BY <1>1, <2>1 DEF RunInv, Word
<1>7. \A e \in DOMAIN contexts :
        /\ e \in DOMAIN contexts' /\ contexts'[e].function = contexts[e].function
        /\ Len(contexts'[e].locals) <= Len(IF e = 1 THEN global_names' ELSE LocalNames(e))
  BY <1>1 DEF RunInv, LocalNames
<1>8. \A e \in DOMAIN contexts' : e \in DOMAIN contexts
  BY <1>1
<1> QED  BY <1>1, <1>4, <1>5, <1>6, <1>7, <1>8, RunKeeps

\* A context for a call of a closure, on top of a new closure or none.
LEMMA ContextAdded ==
  ASSUME TextInv, RunInv, closures # <<>>, UNCHANGED <<cg, desc, global_names>>,
         result' \in Word, closures' \in Seq(Closures),
         \A k \in DOMAIN closures : k \in DOMAIN closures' /\ closures'[k] = closures[k],
         \A k \in DOMAIN closures' : k \notin DOMAIN closures =>
           \E c \in DOMAIN contexts, d \in DOMAIN desc :
             desc[d].parent = Runs(c) /\ closures'[k] = DeclaredInContext(d, c),
         NEW r \in Records, contexts' = Append(contexts, r),
         r.function \in DOMAIN closures', r.function # 1,
         Len(r.locals) <= Len(desc[closures'[r.function].desc].defined_locals)
  PROVE  RunInv'
<1>1. contexts \in Seq(Records) /\ DOMAIN contexts = 1 .. Len(contexts) /\ Len(contexts) \in Nat
  BY RunIs
<1>2. /\ contexts' \in Seq(Records)
      /\ \A c \in DOMAIN contexts : c \in DOMAIN contexts' /\ contexts'[c] = contexts[c]
      /\ \A c \in DOMAIN contexts' : c \notin DOMAIN contexts => contexts'[c] = r
  BY <1>1
<1>3. global_names' \in Seq(Names) /\ Len(global_names) <= Len(global_names')
  <2>1. Len(global_names) \in Nat
    BY DEF RunInv
  <2> QED  BY <2>1 DEF RunInv
<1>4. \A c \in DOMAIN contexts :
        /\ c \in DOMAIN contexts' /\ contexts'[c].function = contexts[c].function
        /\ Len(contexts'[c].locals) <= Len(IF c = 1 THEN global_names' ELSE LocalNames(c))
  BY <1>2 DEF RunInv, LocalNames
<1>5. \A c \in DOMAIN contexts' : c \notin DOMAIN contexts =>
        /\ contexts'[c].function \in DOMAIN closures' /\ contexts'[c].function # 1
        /\ Len(contexts'[c].locals) <=
             Len(desc[closures'[contexts'[c].function].desc].defined_locals)
  BY <1>2
<1> QED  BY <1>2, <1>3, <1>4, <1>5, RunKeeps

\* invoke_parallel_thread_function: a closure and its context at once.
LEMMA InvokeParallelThreadKeeps ==
  ASSUME TextInv, RunInv, NEW c \in DOMAIN contexts, NEW d \in DOMAIN desc,
         InvokeParallelThread(c, d)
  PROVE  RunInv'
<1> DEFINE closure == DeclaredInContext(d, c)
           f == Len(closures) + 1
           args == IF contexts[c].args = NotGiven THEN NotGiven
                   ELSE [names |-> <<>>, data |-> contexts[c].args]
           r == SetUp(f, d, c, contexts[c].self, args)
<1>1. /\ closures # <<>> /\ UNCHANGED <<cg, desc, global_names, result>>
      /\ desc[d].parent = Runs(c) /\ desc[d].parallel
      /\ closures' = Append(closures, closure)
      /\ contexts' = Append(contexts, r)
  BY DEF InvokeParallelThread, Running
<1>2. closure \in Closures /\ closure.desc = d
  BY <1>1, ClosureIs
<1>3. /\ closures \in Seq(Closures) /\ DOMAIN closures = 1 .. Len(closures) /\ Len(closures) \in Nat
      /\ contexts[c] \in Records
  BY RunIs
<1>4. /\ contexts[c].self \in Objects \cup {NotGiven}
      /\ contexts[c].args \in {NotGiven} \cup Seq(Values \cup {Nil})
  BY <1>3 DEF Records
<1> HIDE DEF closure
<1>5. /\ closures' \in Seq(Closures) /\ f \in DOMAIN closures' /\ closures'[f] = closure
      /\ \A k \in DOMAIN closures : k \in DOMAIN closures' /\ closures'[k] = closures[k]
      /\ \A k \in DOMAIN closures' : k \notin DOMAIN closures => closures'[k] = closure
  BY <1>1, <1>2, <1>3
<1>6. \A k \in DOMAIN closures' : k \notin DOMAIN closures =>
        \E e \in DOMAIN contexts, g \in DOMAIN desc :
          desc[g].parent = Runs(e) /\ closures'[k] = DeclaredInContext(g, e)
  BY <1>1, <1>5 DEF closure
<1>7. Described(d) /\ desc[d].argument_names = <<>> /\ desc[d].defined_locals \in Locals
  BY <1>1, TextIs DEF Described
<1>8. f \in Nat /\ f # 1
  <2>1. Len(closures) # 0
    BY <1>1, <1>3
  <2> QED  BY <1>3, <2>1
<1>9. IF args = NotGiven THEN 0 = 0 ELSE args \in Arguments
  <2>1. <<>> \in Seq(Names \cup {Nil})
    OBVIOUS
  <2> QED  BY <1>4, <2>1 DEF Arguments
<1> HIDE DEF args
<1>10. /\ r \in Records
       /\ r.function = f
       /\ Len(r.locals) <= Len(desc[d].defined_locals)
  <2> DEFINE N == 0
             self == contexts[c].self
  <2>1. N \in Nat /\ Len(desc[d].argument_names) = N
        /\ \A i \in 1 .. N :
             /\ desc[d].argument_names[i] \in Names
             /\ \E k \in 1 .. Len(desc[d].defined_locals) :
                  desc[d].defined_locals[k] = desc[d].argument_names[i]
    BY <1>7
  <2>2. IF args = NotGiven THEN N = 0 ELSE args \in Arguments
    BY <1>9
  <2> HIDE DEF N, f, self
  <2>3. self \in Objects \cup {NotGiven} /\ contexts[c].self \in Objects \cup {NotGiven} /\ f \in Nat
    BY <1>4, <1>8 DEF self
  <2>4. SetUp(f, d, c, self, args) \in Records
    BY <1>7, <2>1, <2>2, <2>3, SetUpIs
  <2>5. SetUp(f, d, c, self, args).function = f
    BY <1>7, <2>1, <2>2, <2>3, SetUpIs
  <2>6. Len(SetUp(f, d, c, self, args).locals) <= Len(desc[d].defined_locals)
    BY <1>7, <2>1, <2>2, <2>3, SetUpIs
  <2> QED  BY <2>4, <2>5, <2>6 DEF self
<1> HIDE DEF r, f
<1>11. result' \in Word
  BY <1>1 DEF RunInv, Word
<1>12. /\ r.function \in DOMAIN closures' /\ r.function # 1
       /\ Len(r.locals) <= Len(desc[closures'[r.function].desc].defined_locals)
  BY <1>2, <1>5, <1>8, <1>10
<1> QED  BY <1>1, <1>5, <1>6, <1>10, <1>11, <1>12, ContextAdded

\* snow_call_with_args, with arguments or with none.
LEMMA CallWithArgsKeeps ==
  ASSUME TextInv, RunInv, NEW f \in DOMAIN closures, NEW self \in Objects \cup {NotGiven},
         NEW args, args = NotGiven \/ args \in Arguments, CallWithArgs(f, self, args)
  PROVE  RunInv'
<1> DEFINE d == closures[f].desc
           context == closures[f].declaration_context
           r == SetUp(f, d, context, self, args)
<1>1. /\ closures # <<>> /\ f # 1 /\ UNCHANGED <<cg, desc, closures, global_names>>
      /\ IF args = NotGiven /\ desc[d].argument_names # <<>>
         THEN result' = Trap /\ UNCHANGED contexts
         ELSE contexts' = Append(contexts, r) /\ UNCHANGED result
  BY DEF CallWithArgs, Running
<1>2. /\ closures \in Seq(Closures) /\ DOMAIN closures = 1 .. Len(closures) /\ Len(closures) \in Nat
      /\ Chained /\ contexts \in Seq(Records)
  BY RunIs
<1>3. d \in DOMAIN desc /\ context \in DOMAIN contexts
  BY <1>1, <1>2 DEF Chained
<1>4. contexts[context].self \in Objects \cup {NotGiven}
  <2> HIDE DEF context
  <2>1. contexts[context] \in Records
    BY <1>2, <1>3
  <2> QED  BY <2>1 DEF Records
<1>5. /\ Described(d) /\ desc[d].defined_locals \in Locals
      /\ desc[d].argument_names \in Seq(Names)
  BY <1>3, TextIs
<1>6. /\ closures' \in Seq(Closures)
      /\ \A k \in DOMAIN closures : k \in DOMAIN closures' /\ closures'[k] = closures[k]
      /\ \A k \in DOMAIN closures' : k \in DOMAIN closures
  BY <1>1, <1>2
<1>7. CASE args = NotGiven /\ desc[d].argument_names # <<>>
  <2>1. result' = Trap /\ UNCHANGED contexts
    BY <1>1, <1>7
  <2>2. result' \in Word
    BY <2>1 DEF Word
  <2>3. /\ contexts' \in Seq(Records) /\ global_names' \in Seq(Names)
        /\ Len(global_names) <= Len(global_names')
    <3>1. Len(global_names) \in Nat
      BY DEF RunInv
    <3> QED  BY <1>1, <1>2, <2>1, <3>1 DEF RunInv
  <2>4. \A e \in DOMAIN contexts :
          /\ e \in DOMAIN contexts' /\ contexts'[e].function = contexts[e].function
          /\ Len(contexts'[e].locals) <= Len(IF e = 1 THEN global_names' ELSE LocalNames(e))
    BY <1>1, <2>1 DEF RunInv, LocalNames
  <2>5. \A e \in DOMAIN contexts' : e \in DOMAIN contexts
    BY <2>1
  <2> QED  BY <1>1, <1>6, <2>2, <2>3, <2>4, <2>5, RunKeeps
<1>8. CASE ~(args = NotGiven /\ desc[d].argument_names # <<>>)
  <2>1. contexts' = Append(contexts, r) /\ UNCHANGED result
    BY <1>1, <1>8
  <2> DEFINE N == Len(desc[d].argument_names)
  <2>2. N \in Nat /\ Len(desc[d].argument_names) = N
        /\ \A i \in 1 .. N :
             /\ desc[d].argument_names[i] \in Names
             /\ \E k \in 1 .. Len(desc[d].defined_locals) :
                  desc[d].defined_locals[k] = desc[d].argument_names[i]
    BY <1>5 DEF Described
  <2>3. IF args = NotGiven THEN N = 0 ELSE args \in Arguments
    BY <1>5, <1>8
  <2>4. f \in Nat
    BY <1>2
  <2> HIDE DEF N, d, context
  <2>5. SetUp(f, d, context, self, args) \in Records
    BY <1>4, <1>5, <2>2, <2>3, <2>4, SetUpIs
  <2>6. SetUp(f, d, context, self, args).function = f
    BY DEF SetUp
  <2>7. Len(SetUp(f, d, context, self, args).locals) <= Len(desc[d].defined_locals)
    BY <1>4, <1>5, <2>2, <2>3, <2>4, SetUpIs
  <2>8. r \in Records /\ r.function = f /\ Len(r.locals) <= Len(desc[d].defined_locals)
    BY <2>5, <2>6, <2>7
  <2> HIDE DEF r
  <2>9. /\ r.function \in DOMAIN closures' /\ r.function # 1
        /\ Len(r.locals) <= Len(desc[closures'[r.function].desc].defined_locals)
    BY <1>1, <1>6, <2>8 DEF d
  <2>10. result' \in Word
    BY <2>1 DEF RunInv, Word
  <2> QED  BY <1>1, <1>6, <2>1, <2>8, <2>9, <2>10, ContextAdded
<1> QED  BY <1>7, <1>8

(***************************************************************************)
(* Instructions                                                            *)
(***************************************************************************)
\* The index of an instruction is one of the array it is used on.
LEMMA InstructionOf ==
  ASSUME TextInv, RunInv, NEW c \in DOMAIN contexts, NEW i \in desc[Runs(c)].code
  PROVE  /\ i \in Instructions /\ i.index \in Nat /\ i.name \in Names
         /\ i.how = "own" => i.index < Len(LocalNames(c))
         /\ i.how = "reference" =>
              /\ Reference(c, i).context \in DOMAIN contexts /\ Reference(c, i).context # 1
              /\ Reference(c, i).variable_index \in Nat
              /\ Reference(c, i).variable_index < Len(LocalNames(Reference(c, i).context))
<1> DEFINE f == Runs(c)
<1>1. f \in DOMAIN desc /\ Chained /\ closures \in Seq(Closures)
  BY RunIs
<1> HIDE DEF f
<1>2. /\ desc[f] \in Descriptions /\ Described(f)
      /\ desc[f].variable_references \in Seq(References)
  BY <1>1, TextIs
<1>3. i \in Instructions
  BY <1>2 DEF Descriptions, f
<1>4. i.index \in Nat /\ i.name \in Names
  BY <1>3 DEF Instructions
<1>5. /\ i.how = "own" => Holds(desc[f].defined_locals, i.index, i.name)
      /\ i.how = "reference" => i.index < Len(desc[f].variable_references)
  BY <1>2 DEF Described, f
<1>6. i.how = "own" => i.index < Len(LocalNames(c))
  <2>1. CASE c = 1
    <3>1. f = 1 /\ desc[1].defined_locals = <<It>>
      BY <2>1 DEF f, Runs, TextInv
    <3>2. i.how = "own" => i.index < 1
      BY <1>5, <3>1 DEF Holds
    <3>3. LocalNames(c) = global_names /\ 1 <= Len(global_names) /\ Len(global_names) \in Nat
      BY <2>1 DEF LocalNames, RunInv
    <3> QED  BY <1>4, <3>2, <3>3
  <2>2. CASE c # 1
    BY <1>5, <2>2 DEF Holds, LocalNames, f
  <2> QED  BY <2>1, <2>2
<1>7. ASSUME i.how = "reference"
      PROVE  /\ Reference(c, i).context \in DOMAIN contexts /\ Reference(c, i).context # 1
             /\ Reference(c, i).variable_index \in Nat
             /\ Reference(c, i).variable_index < Len(LocalNames(Reference(c, i).context))
  <2>1. c # 1
    <3>1. Len(desc[1].variable_references) = 0
      BY OutermostRefersToNone
    <3> QED  BY <1>4, <1>5, <1>7, <3>1 DEF f, Runs
  <2> DEFINE k == contexts[c].function
             references == closures[k].variable_references
  <2>2. k \in DOMAIN closures /\ closures[k].desc = f
    BY <1>1, <2>1 DEF Chained, f, Runs
  <2>3. Resolved(k) /\ closures[k] \in Closures
    BY <1>1, <2>2 DEF RunInv
  <2>4. Len(references) = Len(desc[f].variable_references)
    BY <1>2, <2>2, <2>3 DEF Resolved, Described
  <2>5. references \in Seq([context : Nat, variable_index : Nat])
    BY <2>3 DEF Closures
  <2>6. i.index + 1 \in 1 .. Len(references)
    BY <1>2, <1>4, <1>5, <1>7, <2>4, <2>5
  <2>7. Reference(c, i) = references[i.index + 1]
    BY DEF Reference
  <2>8. /\ references[i.index + 1].context \in DOMAIN contexts
        /\ references[i.index + 1].context # 1
        /\ references[i.index + 1].variable_index < Len(LocalNames(references[i.index + 1].context))
    BY <2>3, <2>6 DEF Resolved, Holds
  <2>9. references[i.index + 1].variable_index \in Nat
    <3> DEFINE j == i.index + 1
               T == [context : Nat, variable_index : Nat]
    <3>1. references \in Seq(T) /\ j \in 1 .. Len(references)
      BY <2>5, <2>6
    <3> HIDE DEF references, j, T
    <3>2. references[j] \in T
      BY <3>1
    <3> QED  BY <3>2 DEF j, T
  <2> HIDE DEF references
  <2> QED  BY <2>7, <2>8, <2>9
<1> QED  BY <1>3, <1>4, <1>6, <1>7

\* array_get returns what is stored, or NULL.
LEMMA GetIs ==
  ASSUME NEW a \in Seq(Stored), NEW idx \in Int
  PROVE  ArrayGet(a, idx) \in Stored \cup {Null}
BY DEF ArrayGet

\* An instruction that reads.
LEMMA GetKeeps ==
  ASSUME TextInv, RunInv, NEW c \in DOMAIN contexts, NEW i \in desc[Runs(c)].code, Get(c, i)
  PROVE  RunInv'
<1>1. closures # <<>> /\ UNCHANGED <<cg, desc, closures, contexts, global_names>>
  BY DEF Get, Running
<1>2. /\ contexts \in Seq(Records) /\ 1 \in DOMAIN contexts
      /\ \A e \in DOMAIN contexts : contexts[e] \in Records
      /\ closures \in Seq(Closures)
  BY RunIs
<1>3. \A e \in DOMAIN contexts : contexts[e].locals \in Seq(Stored)
  BY <1>2 DEF Records
<1>4. i.index \in Nat
  BY InstructionOf
<1>5. result' \in Word
  <2>1. CASE i.how = "own" /\ result' \in InlinedArrayGet(contexts[c].locals, i.index)
    <3> DEFINE a == contexts[c].locals
    <3>1. a \in Seq(Stored) /\ Len(a) \in Nat
      BY <1>3
    <3>2. result' \in IF i.index < Len(a) THEN {a[i.index + 1]} ELSE {Null, Unwritten}
      BY <2>1 DEF InlinedArrayGet
    <3> HIDE DEF a
    <3>3. i.index < Len(a) => a[i.index + 1] \in Stored
      BY <1>4, <3>1
    <3> QED  BY <3>2, <3>3 DEF Stored, Word
  <2>2. CASE i.how = "reference" /\ result' = GetReferencedVariable(c, i)
    <3> DEFINE e == Reference(c, i).context
               idx == Reference(c, i).variable_index
               var == ArrayGet(contexts[e].locals, idx)
    <3>1. e \in DOMAIN contexts /\ idx \in Nat
      BY <2>2, InstructionOf
    <3>2. result' = IF var = Null THEN Trap ELSE var
      BY <2>2 DEF GetReferencedVariable
    <3> HIDE DEF e, idx
    <3>3. var \in Stored \cup {Null}
      BY <1>3, <3>1, GetIs
    <3> HIDE DEF var
    <3> QED  BY <3>2, <3>3 DEF Stored, Word
  <2>3. CASE i.how = "unspecified" /\ result' = GetUnspecifiedLocal(c, i.name)
    <3> DEFINE global == ArrayFind(global_names, i.name)
               var == ArrayGet(contexts[1].locals, global)
    <3>1. global_names \in Seq(Names)
      BY DEF RunInv
    <3>2. global \in -1 .. Len(global_names) - 1 /\ Len(global_names) \in Nat
      BY <3>1, FindIs
    <3>3. global \in Int
      <4> HIDE DEF global
      <4> QED  BY <3>2
    <3>4. result' \in {Member, var, Missing}
      BY <2>3 DEF GetUnspecifiedLocal
    <3> HIDE DEF global
    <3>5. var \in Stored \cup {Null}
      BY <1>2, <1>3, <3>3, GetIs
    <3> HIDE DEF var
    <3> QED  BY <3>4, <3>5 DEF Stored, Word
  <2> QED  BY <2>1, <2>2, <2>3 DEF Get
<1>6. /\ closures' \in Seq(Closures) /\ contexts' \in Seq(Records)
      /\ global_names' \in Seq(Names) /\ Len(global_names) <= Len(global_names')
  <2>1. Len(global_names) \in Nat
    BY DEF RunInv
  <2> QED  BY <1>1, <1>2, <2>1 DEF RunInv
<1>7. \A e \in DOMAIN contexts :
        /\ e \in DOMAIN contexts' /\ contexts'[e].function = contexts[e].function
        /\ Len(contexts'[e].locals) <= Len(IF e = 1 THEN global_names' ELSE LocalNames(e))
  BY <1>1 DEF RunInv, LocalNames
<1>8. /\ \A k \in DOMAIN closures : k \in DOMAIN closures' /\ closures'[k] = closures[k]
      /\ \A k \in DOMAIN closures' : k \in DOMAIN closures
      /\ \A e \in DOMAIN contexts' : e \in DOMAIN contexts
  BY <1>1
<1> QED  BY <1>1, <1>5, <1>6, <1>7, <1>8, RunKeeps

\* A store at an index below n leaves at most n locals.
LEMMA StoreFits ==
  ASSUME NEW a \in Seq(Stored), NEW idx \in Nat, NEW val \in Stored, NEW n \in Nat,
         Len(a) <= n, idx < n
  PROVE  ArraySet(a, idx, val) \in Seq(Stored) /\ Len(ArraySet(a, idx, val)) <= n
<1>1. Nil \in Stored /\ Len(a) \in Nat
  BY DEF Stored
<1>2. ArraySet(a, idx, val) \in Seq(Stored)
  BY <1>1, SetIs
<1>3. Len(ArraySet(a, idx, val)) = IF idx >= Len(a) THEN idx + 1 ELSE Len(a)
  BY <1>1, SetIs
<1>4. Len(ArraySet(a, idx, val)) <= n
  BY <1>1, <1>3
<1> QED  BY <1>2, <1>4

\* A store where the local has a name.
LEMMA StoreKeeps ==
  ASSUME TextInv, RunInv, closures # <<>>, UNCHANGED <<cg, desc, closures>>,
         NEW c \in DOMAIN contexts, NEW idx \in Nat, NEW val \in Values,
         contexts' = Store(c, idx, val), result' = val,
         global_names' \in Seq(Names), Len(global_names) <= Len(global_names'),
         idx < Len(IF c = 1 THEN global_names' ELSE LocalNames(c))
  PROVE  RunInv'
<1> DEFINE old == contexts[c].locals
           new == ArraySet(old, idx, val)
           e == [contexts[c] EXCEPT !.locals = new]
           names == IF c = 1 THEN global_names' ELSE LocalNames(c)
<1>1. /\ contexts \in Seq(Records) /\ contexts[c] \in Records /\ closures \in Seq(Closures)
      /\ Runs(c) \in DOMAIN desc
  BY RunIs
<1>2. names \in Seq(Names)
  BY <1>1, TextIs DEF LocalNames
<1>3. old \in Seq(Stored) /\ val \in Stored /\ Nil \in Stored
  BY <1>1 DEF Records, Stored
<1>4. Len(old) <= Len(names)
  <2>1. Len(old) <= Len(LocalNames(c))
    BY DEF RunInv
  <2>2. c = 1 => LocalNames(c) = global_names
    BY DEF LocalNames
  <2>3. Len(global_names) \in Nat /\ Len(global_names') \in Nat /\ Len(old) \in Nat
    BY <1>3 DEF RunInv
  <2> HIDE DEF old
  <2> QED  BY <2>1, <2>2, <2>3
<1>5. new \in Seq(Stored) /\ Len(new) <= Len(names)
  <2>1. idx < Len(names) /\ Len(names) \in Nat
    BY <1>2
  <2> HIDE DEF old, names
  <2> QED  BY <1>3, <1>4, <2>1, StoreFits
<1>6. contexts' = [contexts EXCEPT ![c] = e]
  BY DEF Store
<1> HIDE DEF new
<1>7. e \in Records /\ e.locals = new /\ e.function = contexts[c].function
  BY <1>1, <1>5 DEF Records
<1> HIDE DEF e
<1>8. /\ contexts' \in Seq(Records) /\ DOMAIN contexts' = DOMAIN contexts
      /\ contexts'[c] = e /\ \A b \in DOMAIN contexts : b # c => contexts'[b] = contexts[b]
  BY <1>1, <1>6, <1>7
<1>9. ASSUME NEW b \in DOMAIN contexts
      PROVE  /\ b \in DOMAIN contexts' /\ contexts'[b].function = contexts[b].function
             /\ Len(contexts'[b].locals) <= Len(IF b = 1 THEN global_names' ELSE LocalNames(b))
  <2>1. CASE b = c
    BY <1>5, <1>7, <1>8, <2>1
  <2>2. CASE b # c
    <3>1. contexts'[b] = contexts[b] /\ Len(contexts[b].locals) <= Len(LocalNames(b))
      BY <1>8, <2>2 DEF RunInv
    <3>2. b = 1 => LocalNames(b) = global_names
      BY DEF LocalNames
    <3>3. contexts[b] \in Records
      BY RunIs
    <3>4. Len(global_names) \in Nat /\ Len(global_names') \in Nat /\ Len(contexts[b].locals) \in Nat
      BY <3>3 DEF RunInv, Records
    <3> QED  BY <1>8, <3>1, <3>2, <3>4
  <2> QED  BY <2>1, <2>2
<1>10. result' \in Word
  BY DEF Word
<1>11. /\ closures' \in Seq(Closures)
       /\ \A k \in DOMAIN closures : k \in DOMAIN closures' /\ closures'[k] = closures[k]
       /\ \A k \in DOMAIN closures' : k \in DOMAIN closures
       /\ \A b \in DOMAIN contexts' : b \in DOMAIN contexts
  BY <1>1, <1>8
<1> QED  BY <1>8, <1>9, <1>10, <1>11, RunKeeps

\* An instruction that writes.
LEMMA SetKeeps ==
  ASSUME ContextsAssumption, TextInv, RunInv, NEW c \in DOMAIN contexts,
         NEW i \in desc[Runs(c)].code, NEW val \in Assigned, Set(c, i, val)
  PROVE  RunInv'
<1>1. closures # <<>> /\ UNCHANGED <<cg, desc, closures>> /\ result' = val /\ val \in Values
  BY DEF Set, Running, ContextsAssumption
<1>2. /\ i.index \in Nat /\ i.name \in Names
      /\ i.how = "own" => i.index < Len(LocalNames(c))
  BY InstructionOf
<1>3. global_names \in Seq(Names) /\ Len(global_names) \in Nat /\ Len(global_names) <= Len(global_names)
  <2>1. global_names \in Seq(Names)
    BY DEF RunInv
  <2> QED  BY <2>1
<1>4. CASE i.how = "own" /\ contexts' = Store(c, i.index, val) /\ UNCHANGED global_names
  <2> DEFINE idx == i.index
  <2>1. c = 1 => LocalNames(c) = global_names
    BY DEF LocalNames
  <2>2. idx \in Nat /\ contexts' = Store(c, idx, val)
        /\ idx < Len(IF c = 1 THEN global_names' ELSE LocalNames(c))
    BY <1>2, <1>4, <2>1
  <2> HIDE DEF idx
  <2> QED  BY <1>1, <1>3, <1>4, <2>2, StoreKeeps
<1>5. CASE /\ i.how = "reference"
           /\ contexts' = Store(Reference(c, i).context, Reference(c, i).variable_index, val)
           /\ UNCHANGED global_names
  <2> DEFINE e == Reference(c, i).context
             idx == Reference(c, i).variable_index
  <2>1. e \in DOMAIN contexts /\ e # 1 /\ idx \in Nat /\ idx < Len(LocalNames(e))
    BY <1>5, InstructionOf
  <2>2. contexts' = Store(e, idx, val)
    BY <1>5
  <2> HIDE DEF e, idx
  <2>3. idx < Len(IF e = 1 THEN global_names' ELSE LocalNames(e))
    BY <2>1
  <2> QED  BY <1>1, <1>3, <1>5, <2>1, <2>2, <2>3, StoreKeeps
<1>6. CASE /\ i.how = "unspecified"
           /\ global_names' = Added(global_names, i.name)
           /\ contexts' = Store(1, ArrayFind(global_names', i.name), val)
  <2> DEFINE name == i.name
             new == Added(global_names, name)
             idx == ArrayFind(new, name)
             one == 1
  <2>1. name \in Names
    BY <1>2
  <2> HIDE DEF name
  <2>2. new \in Seq(Names) /\ Len(global_names) <= Len(new)
    BY <1>3, <2>1, AddedIs
  <2>3. \E k \in 1 .. Len(new) : new[k] = name
    BY <1>3, <2>1, AddedIs
  <2>4. global_names' = new /\ contexts' = Store(one, idx, val)
    BY <1>6 DEF name
  <2> HIDE DEF new
  <2>5. idx \in -1 .. Len(new) - 1 /\ idx >= 0 /\ Len(new) \in Nat
    BY <2>2, <2>3, FindIs
  <2> HIDE DEF idx
  <2>6. idx \in Nat /\ idx < Len(new)
    BY <2>5
  <2>7. one \in DOMAIN contexts
    BY RunIs
  <2>8. idx < Len(IF one = 1 THEN global_names' ELSE LocalNames(one))
    BY <2>4, <2>6
  <2> HIDE DEF one
  <2> QED  BY <1>1, <2>2, <2>4, <2>6, <2>7, <2>8, StoreKeeps
<1> QED  BY <1>4, <1>5, <1>6 DEF Set

(***************************************************************************)
(* The inductive invariant                                                 *)
(***************************************************************************)
ContextsInv == context_program \in ContextPrograms /\ TextInv /\ RunInv

\* The start.
LEMMA ContextsBegin ==
  ASSUME ContextsAssumption, ContextsInit
  PROVE  ContextsInv
<1> DEFINE d == Description(0, <<>>, FALSE)
           r == [function |-> 0, locals |-> <<Class>>, self |-> NotGiven, args |-> NotGiven]
           none == <<>>
           parallel == FALSE
           zero == 0
<1>1. /\ desc = <<d>> /\ cg = 1 /\ closures = <<>> /\ contexts = <<r>>
      /\ global_names = <<First>> /\ result = Nil /\ context_program \in ContextPrograms
  BY DEF ContextsInit
<1>2. It \in Names /\ First \in Names
  BY DEF ContextsAssumption
<1>3. none \in Seq(Names) /\ parallel \in BOOLEAN /\ zero \in Nat /\ d = Description(zero, none, parallel)
  OBVIOUS
<1> HIDE DEF d, none, parallel, zero
<1>4. d \in Descriptions
  BY <1>2, <1>3, DescriptionIs
<1>5. d.parent = 0 /\ d.argument_names = none
  BY <1>2, <1>3, DescriptionIs DEF zero
<1>6. d.defined_locals = <<It>>
  <2>1. Len(none) = zero /\ \A i \in 1 .. zero : none[i] \in Names
    BY DEF none, zero
  <2>2. zero = 0 => d.defined_locals = <<It>>
    BY <1>2, <1>3, <2>1, LocalsAre
  <2> QED  BY <2>2 DEF zero
<1>7. d.defined_locals \in Locals
  BY <1>2, <1>3, DescriptionIs
<1>8. d.variable_references = <<>> /\ d.variable_reference_names = <<>> /\ d.code = {}
  BY <1>2, <1>3, DescriptionIs
<1>9. none = <<>> /\ Len(<<>>) = 0 /\ 1 .. 0 = {}
  BY DEF none
<1>10. /\ desc \in Seq(Descriptions) /\ DOMAIN desc = {1} /\ desc[1] = d /\ Len(desc) = 1
  BY <1>1, <1>4
<1>11. Ordered
  BY <1>5, <1>10 DEF Ordered
<1>12. Described(1)
  <2>1. /\ Len(desc[1].variable_references) = 0 /\ Len(desc[1].variable_reference_names) = 0
        /\ desc[1].code = {} /\ Len(desc[1].argument_names) = 0
        /\ desc[1].argument_names = <<>> /\ desc[1].defined_locals \in Locals
    BY <1>5, <1>7, <1>8, <1>9, <1>10
  <2> QED  BY <1>9, <2>1 DEF Described
<1>13. TextInv
  BY <1>1, <1>5, <1>6, <1>9, <1>10, <1>11, <1>12 DEF TextInv
<1>14. r \in Records /\ Len(r.locals) = 1 /\ Len(<<First>>) = 1
  <2>1. <<Class>> \in Seq(Stored)
    BY DEF Stored
  <2>2. 0 \in Nat
    OBVIOUS
  <2> QED  BY <2>1, <2>2 DEF Records
<1>15. RunInv
  <2> HIDE DEF r
  <2>1. contexts \in Seq(Records) /\ DOMAIN contexts = {1} /\ contexts[1] = r
    BY <1>1, <1>14
  <2>2. closures \in Seq(Closures) /\ DOMAIN closures = {}
    BY <1>1
  <2>3. global_names \in Seq(Names) /\ Len(global_names) = 1 /\ result \in Word
    BY <1>1, <1>2 DEF Word
  <2>4. Chained
    BY <2>1, <2>2 DEF Chained
  <2>5. \A c \in DOMAIN contexts : Len(contexts[c].locals) <= Len(LocalNames(c))
    BY <1>14, <2>1, <2>3 DEF LocalNames
  <2> QED  BY <1>1, <2>1, <2>2, <2>3, <2>4, <2>5 DEF RunInv
<1> QED  BY <1>1, <1>13, <1>15 DEF ContextsInv

\* Each step.
LEMMA ContextsKeep ==
  ASSUME ContextsAssumption, ContextsInv, [ContextsNext]_context_vars
  PROVE  ContextsInv'
<1>0. context_program \in ContextPrograms /\ TextInv /\ RunInv
  BY DEF ContextsInv
<1>1. ASSUME NEW name \in Names, CompileLocal(name) PROVE ContextsInv'
  <2>1. TextInv'
    BY <1>0, <1>1, CompileLocalKeeps
  <2>2. Compiling
    BY <1>1 DEF CompileLocal
  <2> QED  BY <1>0, <2>1, <2>2, CompilingKeepsRun DEF Compiling, ContextsInv
<1>2. ASSUME NEW name \in Names, CompileLocalAssignment(name) PROVE ContextsInv'
  <2>1. TextInv'
    BY <1>0, <1>2, CompileLocalAssignmentKeeps
  <2>2. Compiling
    BY <1>2 DEF CompileLocalAssignment
  <2> QED  BY <1>0, <2>1, <2>2, CompilingKeepsRun DEF Compiling, ContextsInv
<1>3. ASSUME NEW argument_names \in Seq(Names), NEW parallel \in BOOLEAN,
             parallel => argument_names = <<>>, CompileFunction(argument_names, parallel)
      PROVE  ContextsInv'
  <2>1. TextInv'
    BY <1>0, <1>3, CompileFunctionKeeps
  <2>2. Compiling
    BY <1>3 DEF CompileFunction
  <2> QED  BY <1>0, <2>1, <2>2, CompilingKeepsRun DEF Compiling, ContextsInv
<1>4. CASE \E argument_names \in context_program.parameters : CompileFunction(argument_names, FALSE)
  <2>1. PICK argument_names \in context_program.parameters : CompileFunction(argument_names, FALSE)
    BY <1>4
  <2>2. argument_names \in Seq(Names)
    BY <1>0 DEF ContextsAssumption
  <2>3. FALSE \in BOOLEAN /\ (FALSE => argument_names = <<>>)
    OBVIOUS
  <2> QED  BY <1>3, <2>1, <2>2, <2>3, Zenon
<1>5. CASE CompileFunction(<<>>, TRUE)
  <2>1. <<>> \in Seq(Names) /\ TRUE \in BOOLEAN /\ (TRUE => <<>> = <<>>)
    OBVIOUS
  <2> QED  BY <1>3, <1>5, <2>1, Zenon
<1>6. CASE EndFunction
  <2>1. TextInv'
    BY <1>0, <1>6, EndFunctionKeeps
  <2>2. Compiling
    BY <1>6 DEF EndFunction
  <2> QED  BY <1>0, <2>1, <2>2, CompilingKeepsRun DEF Compiling, ContextsInv
<1>7. ASSUME UNCHANGED <<cg, desc>> PROVE TextInv'
  <2>1. cg' \in 0 .. Len(desc)
    BY <1>0, <1>7 DEF TextInv
  <2> QED  BY <1>0, <1>7, <2>1, TextStays
<1>8. CASE Eval
  <2>1. UNCHANGED <<cg, desc, context_program>>
    BY <1>8 DEF Eval
  <2>2. TextInv' /\ RunInv'
    BY <1>0, <1>7, <1>8, <2>1, EvalKeepsRun
  <2> QED  BY <1>0, <2>1, <2>2 DEF ContextsInv
<1>9. ASSUME Running PROVE TextInv' /\ context_program' \in ContextPrograms
  BY <1>0, <1>7, <1>9 DEF Running
<1>10. ASSUME NEW c \in DOMAIN contexts, NEW d \in DOMAIN desc, CreateClosure(c, d)
       PROVE  ContextsInv'
  <2>1. Running
    BY <1>10 DEF CreateClosure
  <2>2. RunInv'
    BY <1>0, <1>10, CreateClosureKeeps
  <2> QED  BY <1>9, <2>1, <2>2 DEF ContextsInv
<1>11. ASSUME NEW c \in DOMAIN contexts, NEW d \in DOMAIN desc, InvokeParallelThread(c, d)
       PROVE  ContextsInv'
  <2>1. Running
    BY <1>11 DEF InvokeParallelThread
  <2>2. RunInv'
    BY <1>0, <1>11, InvokeParallelThreadKeeps
  <2> QED  BY <1>9, <2>1, <2>2 DEF ContextsInv
<1>12. ASSUME NEW f \in DOMAIN closures, NEW self \in Objects \cup {NotGiven},
              NEW args, args = NotGiven \/ args \in Arguments, CallWithArgs(f, self, args)
       PROVE  ContextsInv'
  <2>1. Running
    BY <1>12 DEF CallWithArgs
  <2>2. RunInv'
    BY <1>0, <1>12, CallWithArgsKeeps
  <2> QED  BY <1>9, <2>1, <2>2 DEF ContextsInv
<1>13. CASE \E f \in DOMAIN closures, self \in context_program.selves \cup {NotGiven} :
              \/ CallWithArgs(f, self, NotGiven)
              \/ \E list \in context_program.arguments : CallWithArgs(f, self, Compiled(list))
  <2>1. PICK f \in DOMAIN closures, self \in context_program.selves \cup {NotGiven} :
              \/ CallWithArgs(f, self, NotGiven)
              \/ \E list \in context_program.arguments : CallWithArgs(f, self, Compiled(list))
    BY <1>13
  <2>2. self \in Objects \cup {NotGiven}
    BY <1>0 DEF ContextsAssumption
  <2>3. CASE CallWithArgs(f, self, NotGiven)
    BY <1>12, <2>2, <2>3
  <2>4. CASE \E list \in context_program.arguments : CallWithArgs(f, self, Compiled(list))
    <3>1. PICK list \in context_program.arguments : CallWithArgs(f, self, Compiled(list))
      BY <2>4
    <3>2. list \in Seq([name : Names \cup {Nil}, value : Values])
      BY <1>0 DEF ContextsAssumption
    <3> DEFINE N == Len(list)
               T == [name : Names \cup {Nil}, value : Values]
    <3>5. N \in Nat /\ \A i \in 1 .. N : list[i] \in T
      <4>1. list \in Seq(T)
        BY <3>2
      <4> HIDE DEF T
      <4> QED  BY <4>1
    <3>3. /\ N \in Nat /\ Len(list) = N
          /\ \A i \in 1 .. N : list[i].name \in Names \cup {Nil} /\ list[i].value \in Values
      BY <3>5
    <3> HIDE DEF N
    <3>4. Compiled(list) \in Arguments
      BY <3>3, CompiledAre
    <3> QED  BY <1>12, <2>2, <3>1, <3>4
  <2> QED  BY <2>1, <2>3, <2>4
<1>14. ASSUME NEW c \in DOMAIN contexts, NEW i \in desc[Runs(c)].code, Get(c, i)
       PROVE  ContextsInv'
  <2>1. Running
    BY <1>14 DEF Get
  <2>2. RunInv'
    BY <1>0, <1>14, GetKeeps
  <2> QED  BY <1>9, <2>1, <2>2 DEF ContextsInv
<1>15. ASSUME NEW c \in DOMAIN contexts, NEW i \in desc[Runs(c)].code, NEW val \in Assigned,
              Set(c, i, val)
       PROVE  ContextsInv'
  <2>1. Running
    BY <1>15 DEF Set
  <2>2. RunInv'
    BY <1>0, <1>15, SetKeeps
  <2> QED  BY <1>9, <2>1, <2>2 DEF ContextsInv
<1>16. CASE UNCHANGED context_vars
  <2>1. UNCHANGED <<cg, desc, closures, contexts, global_names, result, context_program>>
    BY <1>16 DEF context_vars
  <2>2. TextInv'
    BY <1>7, <2>1
  <2>3. CASE closures # <<>>
    <3>1. /\ closures \in Seq(Closures) /\ contexts \in Seq(Records) /\ result \in Word
          /\ global_names \in Seq(Names) /\ Len(global_names) \in Nat
      BY <1>0 DEF RunInv
    <3>2. /\ closures' \in Seq(Closures) /\ contexts' \in Seq(Records)
          /\ global_names' \in Seq(Names) /\ Len(global_names) <= Len(global_names')
          /\ result' \in Word
      BY <2>1, <3>1 DEF Word
    <3>3. \A e \in DOMAIN contexts :
            /\ e \in DOMAIN contexts' /\ contexts'[e].function = contexts[e].function
            /\ Len(contexts'[e].locals) <= Len(IF e = 1 THEN global_names' ELSE LocalNames(e))
      BY <1>0, <2>1 DEF RunInv, LocalNames
    <3>4. /\ \A k \in DOMAIN closures : k \in DOMAIN closures' /\ closures'[k] = closures[k]
          /\ \A k \in DOMAIN closures' : k \in DOMAIN closures
          /\ \A e \in DOMAIN contexts' : e \in DOMAIN contexts
      BY <2>1
    <3>5. RunInv'
      BY <1>0, <2>1, <2>3, <3>2, <3>3, <3>4, RunKeeps
    <3> QED  BY <1>0, <2>1, <2>2, <3>5 DEF ContextsInv
  <2>4. CASE closures = <<>>
    <3>1. \A c \in DOMAIN contexts : c = 1
      BY <1>0, <2>4 DEF RunInv, Chained
    <3>2. Chained'
      BY <1>0, <2>1, <2>4, <3>1 DEF RunInv, Chained
    <3>3. \A c \in DOMAIN contexts' : Len(contexts'[c].locals) <= Len((LocalNames(c))')
      BY <1>0, <2>1, <3>1 DEF RunInv, LocalNames
    <3>4. RunInv'
      BY <1>0, <2>1, <2>4, <3>2, <3>3 DEF RunInv, Word
    <3> QED  BY <1>0, <2>1, <2>2, <3>4 DEF ContextsInv
  <2> QED  BY <2>3, <2>4
<1> QED
  BY <1>1, <1>2, <1>4, <1>5, <1>6, <1>8, <1>10, <1>11, <1>13, <1>14, <1>15, <1>16 DEF ContextsNext

\* So the invariant always holds.
LEMMA ContextsInvariant ==
  ASSUME ContextsAssumption
  PROVE  ContextsSpec => []ContextsInv
<1>1. ContextsInit => ContextsInv
  BY ContextsBegin
<1>2. ContextsInv /\ [ContextsNext]_context_vars => ContextsInv'
  BY ContextsKeep
<1> QED  BY <1>1, <1>2, PTL DEF ContextsSpec

\* Every index that a function description, a closure or an instruction has is
\* one of an array that it is used on, whatever the program (codegen.c,
\* function.c, context.c).
THEOREM IndicesAreInBounds ==
  ASSUME ContextsAssumption
  PROVE  ContextsSpec => []ContextsTypeOK
<1>1. ASSUME ContextsInv PROVE ContextsTypeOK
  <2>0. TextInv /\ RunInv
    BY <1>1 DEF ContextsInv
  <2>1. cg \in 0 .. Len(desc) /\ result \in Values \cup {Nil, Null, Unwritten, Member, Missing, Trap, Class}
    BY <2>0 DEF TextInv, RunInv, Word
  <2>2. ASSUME NEW f \in DOMAIN desc
        PROVE  /\ desc[f].parent \in 0..(f - 1)
               /\ desc[f].defined_locals \in Seq(Names) /\ NoDuplicates(desc[f].defined_locals)
               /\ Len(desc[f].variable_references) = Len(desc[f].variable_reference_names)
               /\ \A i \in desc[f].code : i.how = "own" =>
                    desc[f].defined_locals[i.index + 1] = i.name
    <3>1. Described(f) /\ Ordered
      BY <2>0 DEF TextInv
    <3> QED  BY <3>1 DEF Described, Ordered, Locals, Holds
  <2>3. Chained
    BY <2>0 DEF RunInv
  <2>4. \A c \in DOMAIN contexts : Len(contexts[c].locals) <= Len(LocalNames(c))
    BY <2>0 DEF RunInv
  <2> QED  BY <2>1, <2>2, <2>3, <2>4 DEF ContextsTypeOK, Chained
<1>2. ContextsInv => ContextsTypeOK
  BY <1>1
<1> QED  BY <1>2, ContextsInvariant, PTL

\* The level and index of a reference, counted while the program was compiled,
\* lead to the variable of that name in the contexts of the run
\* (codegen_variable_reference against snow_function_declared_in_context).
THEOREM ReferencesAreRight ==
  ASSUME ContextsAssumption
  PROVE  ContextsSpec => []ReferencesNameTheirVariable
<1>1. ASSUME ContextsInv PROVE ReferencesNameTheirVariable
  <2>1. \A k \in DOMAIN closures : Resolved(k) /\ closures[k] \in Closures
    BY <1>1 DEF ContextsInv, RunInv
  <2> SUFFICES ASSUME NEW k \in DOMAIN closures, NEW i \in DOMAIN closures[k].variable_references
               PROVE  LET reference == closures[k].variable_references[i]
                          names == LocalNames(reference.context)
                      IN /\ reference.variable_index < Len(names)
                         /\ names[reference.variable_index + 1] =
                              desc[closures[k].desc].variable_reference_names[i]
    BY DEF ReferencesNameTheirVariable
  <2>2. closures[k].variable_references \in Seq([context : Nat, variable_index : Nat])
    BY <2>1 DEF Closures
  <2>3. i \in 1 .. Len(closures[k].variable_references)
    BY <2>2
  <2> QED  BY <2>1, <2>3 DEF Resolved, Holds
<1>2. ContextsInv => ReferencesNameTheirVariable
  BY <1>1
<1> QED  BY <1>2, ContextsInvariant, PTL
=============================================================================
