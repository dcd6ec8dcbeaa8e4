----------------------------- MODULE ObjectModel -----------------------------
(***************************************************************************)
(* What objects promise to the programs that use them. An object answers   *)
(* for a name from a list of places: itself, the modules it includes with  *)
(* theirs, depth first, and then the same for its ancestors. A place has a *)
(* property, which stands before its members; the first place that gives   *)
(* something is the answer. Writing asks the prototypes it was given for a *)
(* property, and only then is the object's own member.  The actions are    *)
(* the operations with what each is asked to do.                           *)
(***************************************************************************)
EXTENDS Naturals, SequencesExt

CONSTANTS
  Name, Function, Null, Trap, None,
  Returned(_) \* what a function gives when it is called

VARIABLES
  prototype, \* the prototype an object was created with, or Null
  ancestor,  \* where lookup goes on; the object itself at the end
  modules,   \* what each object includes, in order
  getter, setter, \* of the properties of each object: None, Null or a function
  member,    \* of each object: Null or a value
  answer     \* of the last operation: a value, the functions called for it

Existing == DOMAIN prototype
Nothing == [value |-> Null, calls |-> <<>>]

Includes(o) ==
  LET included[p \in Existing] == {p} \cup UNION {included[m] : m \in ToSet(modules[p])}
  IN included[o]

HasProperty(o, n) == getter[o][n] # None

\* A property hides the modules of its object.
Places(o, n) ==
  LET places[p \in Existing] ==
        <<p>> \o (IF HasProperty(p, n) THEN <<>>
                  ELSE FlattenSeq([i \in DOMAIN modules[p] |-> places[modules[p][i]]]))
  IN places[o]

Lineage(o, n) ==
  LET lineage[p \in Existing] ==
        Places(p, n) \o (IF ancestor[p] = p THEN <<>> ELSE lineage[ancestor[p]])
  IN lineage[o]

Given(o) ==
  LET given[p \in Existing] == <<p>> \o (IF prototype[p] = Null THEN <<>> ELSE given[prototype[p]])
  IN given[o]

Offer(place, n) ==
  IF HasProperty(place, n)
  THEN IF getter[place][n] = Null THEN Trap ELSE Returned(getter[place][n])
  ELSE member[place][n]

\* The answer, and the getters that were called for it.
Lookup(o, n) ==
  LET places == Lineage(o, n)
      first == SelectInSeq(places, LAMBDA p : Offer(p, n) # Null)
      calls == [i \in 1 .. (IF first = 0 THEN Len(places) ELSE first) |->
                  IF getter[places[i]][n] \in Function THEN <<getter[places[i]][n]>> ELSE <<>>]
  IN [value |-> IF first = 0 THEN Null ELSE Offer(places[first], n), calls |-> FlattenSeq(calls)]

\* The same where a name without a member goes to member_missing.
LookupOrMissing(o, n) ==
  LET own == Lookup(o, n)
      missing == Lookup(o, "member_missing")
  IN IF own.value # Null THEN own
     ELSE [value |-> IF missing.value \in {Null, Trap} THEN missing.value
                     ELSE Returned(missing.value),
           calls |-> own.calls \o missing.calls \o
                     (IF missing.value \in {Null, Trap} THEN <<>> ELSE <<missing.value>>)]

\* Who writes: the setter of the first property, or nobody.
Writer(o, n) ==
  LET places == Given(o)
      first == SelectInSeq(places, LAMBDA p : HasProperty(p, n))
  IN IF first = 0 THEN None ELSE setter[places[first]][n]

\* The value of a member, or what its getter gives, and nothing changes.
Read(o, n) ==
  /\ answer' = Lookup(o, n)
  /\ UNCHANGED <<prototype, ancestor, modules, getter, setter, member>>

ReadOrMissing(o, n) ==
  /\ answer' = LookupOrMissing(o, n)
  /\ UNCHANGED <<prototype, ancestor, modules, getter, setter, member>>

\* The setter that returns something has written; one that returns Null has not.
Write(o, n, val) ==
  LET writer == Writer(o, n)
  IN /\ UNCHANGED <<prototype, ancestor, modules, getter, setter>>
     /\ \/ /\ writer = Null
           /\ answer' = [value |-> Trap, calls |-> <<>>]
           /\ UNCHANGED member
        \/ /\ writer \in Function /\ Returned(writer) # Null
           /\ answer' = [value |-> Returned(writer), calls |-> <<writer>>]
           /\ UNCHANGED member
        \/ /\ writer = None \/ (writer \in Function /\ Returned(writer) = Null)
           /\ answer' = [value |-> val, calls |-> IF writer = None THEN <<>> ELSE <<writer>>]
           /\ member' = [member EXCEPT ![o][n] = val]

\* One half of a property is f; the other is what it was, or nothing.
Define(o, n, half, f) ==
  /\ answer' = Nothing
  /\ UNCHANGED <<prototype, ancestor, modules, member>>
  /\ getter' = [getter EXCEPT ![o][n] = IF half = 0 THEN f ELSE IF @ = None THEN Null ELSE @]
  /\ setter' = [setter EXCEPT ![o][n] = IF half = 1 THEN f ELSE IF @ = None THEN Null ELSE @]

\* Lookup ends: no module reaches itself.
Include(o, m) ==
  /\ answer' = Nothing
  /\ UNCHANGED <<prototype, ancestor, getter, setter, member>>
  /\ m \notin ToSet(modules[o])
  /\ o \notin Includes(m)
  /\ modules' = [modules EXCEPT ![o] = Append(@, m)]

Uninclude(o, m) ==
  /\ answer' = Nothing
  /\ UNCHANGED <<prototype, ancestor, getter, setter, member>>
  /\ \E i \in DOMAIN modules[o] :
       modules[o][i] = m /\ modules' = [modules EXCEPT ![o] = RemoveAt(@, i)]

\* Objects with the given prototypes, and members of their own, come to the
\* others, of which none changes.
Create(given) ==
  /\ answer' = Nothing
  /\ prototype' = prototype \o given
  /\ \A o \in Existing :
       /\ ancestor'[o] = ancestor[o] /\ modules'[o] = modules[o] /\ member'[o] = member[o]
       /\ getter'[o] = getter[o] /\ setter'[o] = setter[o]
  /\ \A o \in DOMAIN prototype' \ Existing :
       /\ modules'[o] = <<>>
       /\ \A n \in Name : getter'[o][n] = None /\ setter'[o][n] = None

\* What has nothing to do with lookup.
Other == answer' = Nothing /\ UNCHANGED <<prototype, ancestor, modules, getter, setter, member>>
=============================================================================
