------------------------------- MODULE Objects -------------------------------
(***************************************************************************)
(* Objects and classes (object.c, class.c, snow.c): members in a map,      *)
(* properties in two parallel arrays, included modules in a third, and     *)
(* prototypes; classes with the prototype of their instances; the name an  *)
(* object takes from the first variable or member it is assigned to.       *)
(* Native code is one thread here: an operation is one step.               *)
(***************************************************************************)
EXTENDS Integers, SequencesExt

CONSTANTS
  UserName,      \* names that programs use for members and properties
  Value,         \* plain values; NULL is one, where an expression has none
  Function,      \* getters and setters of programs
  NullFunctions, \* those of them that return NULL
  SN_NIL, NULL, Trap,
  NoEntry,       \* the name of a class without one, the property that is not there
  MaxExisting,   \* bound: objects in all
  Programs       \* programs: the prototypes of their objects to begin with, some
                 \* operations, some names, and a length (the bound on their steps)

VARIABLES
  program,
  objects, \* the objects, by the order of their creation
  answer,  \* of the last operation: a value, and the functions called for it
  created, \* ghost: the class of each instance, the superclass of each class
  steps

object_vars == <<program, objects, answer, created, steps>>

NameOf == "__name__"
Name == UserName \cup {NameOf}
GetName == "class_get_name"
SetName == "class_set_name"

\* NULL is no object, and the objects there are at the start have older prototypes.
ProgramsAreOrdered ==
  /\ NULL \notin Nat
  /\ \A p \in Programs :
       /\ p.prototypes \in Seq(Nat \cup {NULL})
       /\ \A k \in DOMAIN p.prototypes : p.prototypes[k] \in (1 .. 3 + k) \cup {NULL}

Functions == Function \cup {GetName, SetName}

\* NULL, nil, the getter and setter of classes' names, and what programs define are
\* different things; a program uses names, and may use "member_missing".
NamesDiffer ==
  /\ NullFunctions \subseteq Function
  /\ GetName \notin Function /\ SetName \notin Function
  /\ \A f \in Functions : f # NULL /\ f # SN_NIL /\ f # NoEntry
  /\ NoEntry # NULL /\ Trap # NULL
  /\ "member_missing" \in UserName
  /\ \A p \in Programs : p.names \subseteq Name

ASSUME ObjectsAssumption == ProgramsAreOrdered /\ NamesDiffer

EvalTruth(v) == v \notin {NULL, SN_NIL}

Existing == DOMAIN objects
Classes == {o \in Existing : objects[o].type = "class"}

\* struct array_t, with indices from 0 (array-intern.h).
ArrayGet(a, idx) == IF idx < Len(a) THEN a[idx + 1] ELSE NULL
ArrayGrow(a, size) == [i \in 1 .. size |-> IF i <= Len(a) THEN a[i] ELSE SN_NIL]
ArraySet(a, idx, val) ==
  [(IF idx >= Len(a) THEN ArrayGrow(a, idx + 1) ELSE a) EXCEPT ![idx + 1] = val]
ArrayFind(a, val) ==
  IF \E i \in DOMAIN a : a[i] = val
  THEN (CHOOSE i \in DOMAIN a : a[i] = val /\ \A j \in 1 .. i - 1 : a[j] # val) - 1
  ELSE 0 - 1
ArrayErase(a, idx) == RemoveAt(a, idx + 1)

MapGet(map, key) == IF key \in DOMAIN map THEN map[key] ELSE NULL
MapSet(map, key, val) == [k \in DOMAIN map \cup {key} |-> IF k = key THEN val ELSE map[k]]

(***************************************************************************)
(* Reading. What a lookup has so far: NULL while it goes on, and the calls *)
(* it made. A getter that returns NULL does not end it.                    *)
(***************************************************************************)
Nothing == [value |-> NULL, calls |-> <<>>]
HasAnswer(s) == s.value # NULL
Returned(f) == IF f \in NullFunctions THEN NULL ELSE f
Called(s, f) == [value |-> Returned(f), calls |-> Append(s.calls, f)]

\* The first objects there are (snow_init).
Class == 1
ClassPrototype == 2
Object == 3
ObjectPrototype == 4
Basic == 1 .. 4

TypePrototype(type) == IF type = "class" THEN ClassPrototype ELSE ObjectPrototype

\* What s has so far, and what t finds after it.
Then(s, t) == IF HasAnswer(s) THEN s ELSE [value |-> t.value, calls |-> s.calls \o t.calls]

\* Those of a sequence, one after the other.
FirstAnswer(answers) ==
  LET first[i \in 0 .. Len(answers)] == IF i = 0 THEN Nothing ELSE Then(first[i - 1], answers[i])
  IN first[Len(answers)]

NextPrototype(o) ==
  IF objects[o].prototype # NULL THEN objects[o].prototype ELSE TypePrototype(objects[o].type)

\* Mutant: included modules are asked before the members.
GetModulesFirst(o, n) ==
  LET get[p \in Existing] ==
        LET idx == ArrayFind(objects[p].property_names, n)
            getter == ArrayGet(objects[p].property_data, 2 * idx)
        IN IF idx >= 0
           THEN IF EvalTruth(getter) THEN Called(Nothing, getter) ELSE [Nothing EXCEPT !.value = Trap]
           ELSE Then(FirstAnswer([i \in DOMAIN objects[p].included_modules |->
                                    get[objects[p].included_modules[i]]]),
                     [Nothing EXCEPT !.value = MapGet(objects[p].members, n)])
  IN get[o]

\* object_get_member_without_prototype_but_with_modules
GetWithoutPrototype(o, n) ==
  LET get[p \in Existing] ==
        LET idx == ArrayFind(objects[p].property_names, n)
            getter == ArrayGet(objects[p].property_data, 2 * idx)
            member == MapGet(objects[p].members, n)
        IN IF idx >= 0
           THEN IF EvalTruth(getter) THEN Called(Nothing, getter) ELSE [Nothing EXCEPT !.value = Trap]
           ELSE IF member # NULL THEN [Nothing EXCEPT !.value = member]
           ELSE FirstAnswer([i \in DOMAIN objects[p].included_modules |->
                               get[objects[p].included_modules[i]]])
  IN get[o]

GetMember(o, n) ==
  LET get[p \in Existing] ==
        LET here == GetWithoutPrototype(p, n)
        IN IF HasAnswer(here) \/ NextPrototype(p) = p THEN here
           ELSE Then(here, get[NextPrototype(p)])
  IN get[o]

(***************************************************************************)
(* Writing                                                                 *)
(***************************************************************************)
\* object_set_with_property: the setter of the explicit prototypes, or NULL.
SetWithProperty(o, n) ==
  LET set[p \in Existing] ==
        LET idx == ArrayFind(objects[p].property_names, n)
            setter == ArrayGet(objects[p].property_data, 2 * idx + 1)
        IN IF idx >= 0
           THEN IF EvalTruth(setter) THEN Called(Nothing, setter) ELSE [Nothing EXCEPT !.value = Trap]
           ELSE IF objects[p].prototype # NULL THEN set[objects[p].prototype]
           ELSE Nothing
  IN set[o]

\* The objects after a write: class_set_name is the one setter known here.
AfterSet(o, n, val) ==
  LET set == SetWithProperty(o, n)
  IN IF set.calls = <<SetName>> THEN [objects EXCEPT ![o].name = val]
     ELSE IF HasAnswer(set) THEN objects
     ELSE [objects EXCEPT ![o].members = MapSet(@, n, val)]

SetAnswer(o, n, val) ==
  LET set == SetWithProperty(o, n) IN IF HasAnswer(set) THEN set ELSE [set EXCEPT !.value = val]

(***************************************************************************)
(* Properties                                                              *)
(***************************************************************************)
\* snow_object_set_property_getter (half 0) and _setter (half 1)
PropertyData(o, n, half, f) ==
  LET known == ArrayFind(objects[o].property_names, n)
      idx == IF known >= 0 THEN known ELSE Len(objects[o].property_names)
  IN [objects EXCEPT ![o].property_names = IF known >= 0 THEN @ ELSE Append(@, n),
                     ![o].property_data = ArraySet(@, 2 * idx + half, f)]

(***************************************************************************)
(* Modules                                                                 *)
(***************************************************************************)
IsIncluded(o, included) ==
  LET is[m \in Existing] ==
        \/ m = included
        \/ \E i \in DOMAIN objects[m].included_modules : is[objects[m].included_modules[i]]
  IN is[o]

\* snow_prototype_chain_contains: explicit prototypes only.
ChainContains(o, proto) ==
  LET contains[p \in Existing] ==
        \/ p = proto
        \/ IsIncluded(p, proto)
        \/ objects[p].prototype # NULL /\ contains[objects[p].prototype]
  IN contains[o]

IsA(o, k) ==
  \/ k \in Classes /\ ChainContains(o, objects[k].instance_prototype)
  \/ ChainContains(o, k)
  \/ IsIncluded(o, k)

(***************************************************************************)
(* The operations                                                          *)
(***************************************************************************)
NewObject(prototype) ==
  [type |-> "object", prototype |-> prototype, members |-> <<>>,
   property_names |-> <<>>, property_data |-> <<>>, included_modules |-> <<>>,
   assigned |-> TRUE, name |-> NoEntry, instance_prototype |-> NULL]

NewClass(name, instances) ==
  [NewObject(ClassPrototype) EXCEPT
     !.type = "class", !.name = name, !.instance_prototype = instances]

InstancesOf(class, superclass) == [NewObject(superclass) EXCEPT !.members = "class" :> class]

ObjectsInit ==
  /\ program \in Programs
  /\ objects = <<NewClass("Class", ClassPrototype),
                 [InstancesOf(Class, NULL) EXCEPT
                    !.property_names = <<NameOf>>, !.property_data = <<GetName, SetName>>],
                 NewClass("Object", ObjectPrototype),
                 InstancesOf(Object, NULL)>>
               \o [i \in DOMAIN program.prototypes |-> NewObject(program.prototypes[i])]
  /\ answer = Nothing
  /\ created = <<>>
  /\ steps = 0

\* The process is not stopped by a TRAP, and the bounds leave a step.
Step(operation) ==
  /\ operation \in program.operations
  /\ steps < program.length /\ steps' = steps + 1
  /\ answer.value # Trap
  /\ UNCHANGED program

Targets == Existing \ Basic
Room(n) == Len(objects) + n <= MaxExisting

Create(prototype) ==
  /\ Step("create") /\ Room(1)
  /\ objects' = Append(objects, NewObject(prototype))
  /\ answer' = Nothing
  /\ UNCHANGED created

Get(o, n) ==
  /\ Step("get")
  /\ answer' = GetMember(o, n)
  /\ UNCHANGED <<objects, created>>

\* snow_get_member_with_fallback: nil from member_missing is no member.
GetWithFallback(o, n) ==
  LET member == GetMember(o, n)
      missing == Then(member, GetMember(o, "member_missing"))
  IN /\ Step("fallback")
     /\ answer' = IF HasAnswer(member) \/ ~HasAnswer(missing) \/ missing.value = Trap
                  THEN [missing EXCEPT !.value = IF HasAnswer(member) THEN member.value ELSE @]
                  ELSE Called(missing, missing.value)
     /\ UNCHANGED <<objects, created>>

SetMember(o, n, val) ==
  /\ Step("set")
  /\ answer' = SetAnswer(o, n, val)
  /\ objects' = AfterSet(o, n, val)
  /\ UNCHANGED created

Define(o, n, half, f) ==
  /\ Step("define")
  /\ objects' = PropertyData(o, n, half, f)
  /\ answer' = Nothing
  /\ UNCHANGED created

\* Mutant: only a module that includes this one itself is refused.
IncludeDirect(o, module) ==
  /\ Step("include")
  /\ ArrayFind(objects[o].included_modules, module) < 0
  /\ o # module /\ ArrayFind(objects[module].included_modules, o) < 0
  /\ objects' = [objects EXCEPT ![o].included_modules = Append(@, module)]
  /\ answer' = Nothing
  /\ UNCHANGED created

\* A circular include throws, a second one does nothing.
Include(o, module) ==
  /\ Step("include")
  /\ ArrayFind(objects[o].included_modules, module) < 0
  /\ ~IsIncluded(module, o)
  /\ objects' = [objects EXCEPT ![o].included_modules = Append(@, module)]
  /\ answer' = Nothing
  /\ UNCHANGED created

Uninclude(o, module) ==
  LET idx == ArrayFind(objects[o].included_modules, module)
  IN /\ Step("include")
     /\ idx >= 0
     /\ objects' = [objects EXCEPT ![o].included_modules = ArrayErase(@, idx)]
     /\ answer' = Nothing
     /\ UNCHANGED created

\* Mutant: the superclass becomes the prototype of the class.
CreateClassWithSuper(superclass) ==
  LET class == Len(objects) + 1
  IN /\ Step("class") /\ Room(2)
     /\ objects' = objects \o
          <<[NewClass(NoEntry, class + 1) EXCEPT
               !.prototype = IF superclass = NULL THEN @ ELSE superclass],
            InstancesOf(class, NULL)>>
     /\ created' = MapSet(created, class, superclass)
     /\ answer' = Nothing

InstancePrototype(c) == IF c = NULL THEN NULL ELSE objects[c].instance_prototype

\* class_new_class
CreateClass(superclass) ==
  LET class == Len(objects) + 1
  IN /\ Step("class") /\ Room(2)
     /\ objects' = objects \o
          <<NewClass(NoEntry, class + 1),
            InstancesOf(class, InstancePrototype(superclass))>>
     /\ created' = MapSet(created, class, superclass)
     /\ answer' = Nothing

\* class_new, without the call of initialize
CreateInstance(class) ==
  /\ Step("class") /\ Room(1)
  /\ objects' = Append(objects, NewObject(objects[class].instance_prototype))
  /\ created' = MapSet(created, Len(objects) + 1, class)
  /\ answer' = Nothing

ResetAssignedName(o) ==
  /\ Step("assign")
  /\ objects' = [objects EXCEPT ![o].assigned = FALSE]
  /\ answer' = Nothing
  /\ UNCHANGED created

\* snow_set_object_assigned and object_on_assign
Assign(o, n) ==
  /\ Step("assign")
  /\ ~objects[o].assigned
  /\ objects' = [AfterSet(o, NameOf, n) EXCEPT ![o].assigned = TRUE]
  /\ answer' = SetAnswer(o, NameOf, n)
  /\ UNCHANGED created

ObjectsNext ==
  \/ \E p \in Targets \cup {NULL} : Create(p)
  \/ \E o \in Targets, n \in program.names : Get(o, n) \/ GetWithFallback(o, n)
  \/ \E o \in Targets, n \in program.names \cap UserName :
       \E val \in IF n = "member_missing" THEN Function ELSE Value : SetMember(o, n, val)
  \/ \E o \in Targets, n \in program.names \cap UserName, half \in {0, 1}, f \in Function \cup {NULL} :
       Define(o, n, half, f)
  \/ \E o, m \in Targets : Include(o, m) \/ Uninclude(o, m)
  \/ \E c \in (Classes \ {Class}) \cup {NULL} : CreateClass(c)
  \/ \E c \in Classes \ {Class} : CreateInstance(c)
  \/ \E o \in Targets : ResetAssignedName(o)
  \/ \E o \in Targets, n \in program.names \cap UserName : Assign(o, n)

ObjectsSpec == ObjectsInit /\ [][ObjectsNext]_object_vars

(***************************************************************************)
(* Properties                                                              *)
(***************************************************************************)
\* No object includes itself, directly or through what it includes, whatever
\* was included and unincluded before: lookup and is_a? end
\* (snow_object_include).
IncludesAreAcyclic ==
  \A o \in Existing : \A i \in DOMAIN objects[o].included_modules :
    ~IsIncluded(objects[o].included_modules[i], o)

\* An instance is an instance of the class that made it and of each class
\* that one was derived from, for as long as it lives (class_new,
\* class_new_class, object_is_a). Object is not one of them, unless it was named
\* as the superclass: is_a? does not look at the prototype that NULL stands for.
Superclasses(c) ==
  LET classes[d \in Classes] ==
        {d} \cup (IF d \in DOMAIN created /\ created[d] # NULL THEN classes[created[d]] ELSE {})
  IN classes[c]

InstancesAreOfTheirClasses ==
  \A o \in DOMAIN created : o \notin Classes => \A c \in Superclasses(created[o]) : IsA(o, c)

\* Objects keep what ObjectModel promises: the answer to the lookup that was
\* asked for and the functions that are called for it, who is asked when a
\* member is written, and what the other operations change, although
\* properties are two entries of one array and every lookup walks the
\* objects anew (object.c, snow.c).
Of(o, n) == ArrayFind(objects[o].property_names, n)
Half(o, n, half) ==
  IF Of(o, n) < 0 THEN NoEntry
  ELSE LET entry == ArrayGet(objects[o].property_data, 2 * Of(o, n) + half)
       IN IF EvalTruth(entry) THEN entry ELSE NULL

Model == INSTANCE ObjectModel WITH
  Null <- NULL, None <- NoEntry, Function <- Function \cup {GetName, SetName},
  prototype <- [o \in Existing |-> objects[o].prototype],
  ancestor <- [o \in Existing |-> NextPrototype(o)],
  modules <- [o \in Existing |-> objects[o].included_modules],
  getter <- [o \in Existing |-> [n \in Name |-> Half(o, n, 0)]],
  setter <- [o \in Existing |-> [n \in Name |-> Half(o, n, 1)]],
  member <- [o \in Existing |-> [n \in Name |-> MapGet(objects[o].members, n)]]

\* Each operation is that of the model on the same object, name and value.
OperationsAreOfTheModel ==
  /\ \A o \in Targets, n \in program.names :
       /\ Get(o, n) => Model!Read(o, n)
       /\ GetWithFallback(o, n) => Model!ReadOrMissing(o, n)
  /\ \A o \in Targets, n \in program.names \cap UserName :
       /\ \A val \in Value \cup Function : SetMember(o, n, val) => Model!Write(o, n, val)
       /\ \A half \in {0, 1}, f \in Function \cup {NULL} :
            Define(o, n, half, f) => Model!Define(o, n, half, f)
       /\ Assign(o, n) => Model!Write(o, NameOf, n)
  /\ \A o, m \in Targets :
       (Include(o, m) => Model!Include(o, m)) /\ (Uninclude(o, m) => Model!Uninclude(o, m))
  /\ \A p \in Targets \cup {NULL} : Create(p) => Model!Create(<<p>>)
  /\ \A c \in (Classes \ {Class}) \cup {NULL} :
       CreateClass(c) => Model!Create(<<ClassPrototype, InstancePrototype(c)>>)
  /\ \A c \in Classes \ {Class} : CreateInstance(c) => Model!Create(<<InstancePrototype(c)>>)
  /\ \A o \in Targets : ResetAssignedName(o) => Model!Other

ImplementsObjectModel == [][OperationsAreOfTheModel]_object_vars
=============================================================================
