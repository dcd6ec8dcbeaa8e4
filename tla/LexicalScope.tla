---------------------------- MODULE LexicalScope ----------------------------
(***************************************************************************)
(* What names mean in a program: a name stands for the variable of the     *)
(* innermost enclosing function that declares it above that place in the   *)
(* text, in the activation that created the closure; parameters receive    *)
(* the arguments with their name and then the unnamed ones in order.       *)
(***************************************************************************)
EXTENDS Integers, Sequences, FiniteSets

CONSTANTS
  Names, Values, Objects,
  Parameters,      \* the parameter lists functions are declared with
  ArgumentLists,   \* the argument lists they are called with
  It, First,       \* the implicit parameter; a name that is global at first,
  Class,           \* with this value
  Nil, Null, Garbage, Member, Missing, Trap, Unset, None

VARIABLES
  functions, \* the functions of the program, each after what encloses it
  writing,   \* the function whose text is being read, 0 after the last line
  made,      \* closures: a function and the scope it was created in
  scopes,    \* activations; the first is that of the program
  globals,
  result     \* the value of the last expression

Members == [o \in Objects |-> {First}]

\* The functions around f, f included: a function comes after what encloses it.
Around(f) ==
  LET around[g \in 0..Len(functions)] ==
        IF g = 0 THEN {} ELSE {g} \cup around[functions[g].enclosing]
  IN around[f]

Latest(S) == CHOOSE g \in S : \A h \in S : h <= g

Home(name) ==
  LET declaring == {g \in Around(writing) : name \in functions[g].declared}
  IN IF declaring = {} THEN 0 ELSE Latest(declaring)

\* The activation of function "home" that scope s lies in.
Lies(s, home) ==
  LET up[t \in 1..Len(scopes)] ==
        IF scopes[t].function = home THEN t ELSE up[scopes[t].up]
  IN up[s]

Function(enclosing, params, parallel) ==
  [enclosing |-> enclosing, params |-> params, parallel |-> parallel,
   declared |-> {It} \cup {params[i] : i \in DOMAIN params},
   occurrences |-> {}]

NoVariables == [n \in Names |-> Unset]

Init ==
  /\ functions = <<Function(0, <<>>, FALSE)>>
  /\ writing = 1
  /\ made = <<>>
  /\ scopes = <<>>
  /\ globals = [NoVariables EXCEPT ![First] = Class]
  /\ result = Nil

Occurs(f, op, name, home) ==
  [functions EXCEPT ![f].occurrences = @ \cup {[op |-> op, name |-> name, home |-> home]}]

Mention(name) ==
  /\ functions' = Occurs(writing, "get", name, Home(name))
  /\ UNCHANGED writing

\* An assignment outside of the top level declares a name that nobody declares.
Assignment(name) ==
  LET home == IF Home(name) = 0 /\ functions[writing].enclosing # 0
              THEN writing ELSE Home(name)
  IN /\ functions' =
          [Occurs(writing, "set", name, home) EXCEPT
             ![writing].declared = @ \cup (IF home = writing THEN {name} ELSE {})]
     /\ UNCHANGED writing

Open(params, parallel) ==
  /\ functions' =
       Append(functions, Function(writing, IF parallel THEN <<>> ELSE params, parallel))
  /\ writing' = Len(functions) + 1

Close == writing' = functions[writing].enclosing /\ UNCHANGED functions

Text ==
  /\ writing # 0
  /\ UNCHANGED <<made, scopes, globals, result>>
  /\ \/ \E name \in Names : Mention(name) \/ Assignment(name)
     \/ \E params \in Parameters, parallel \in BOOLEAN : Open(params, parallel)
     \/ Close

Scope(f, up, self, first, var) ==
  [function |-> f, up |-> up, self |-> self, first |-> first, var |-> var]

Start ==
  /\ scopes = <<>>
  /\ scopes' = <<Scope(1, 0, None, Nil, [NoVariables EXCEPT ![It] = Nil])>>
  /\ UNCHANGED <<made, globals, result>>

CloseOver(s, f) ==
  /\ functions[f].enclosing = scopes[s].function /\ ~functions[f].parallel
  /\ made' = Append(made, [function |-> f, up |-> s])
  /\ UNCHANGED <<scopes, globals, result>>

(***************************************************************************)
(* Arguments are a sequence of values with or without a name (Nil); a      *)
(* value given twice under one name is the last one.                       *)
(***************************************************************************)
Given(args, name) == {i \in DOMAIN args : args[i].name = name}
ValueOf(args, i) ==
  args[IF args[i].name = Nil THEN i ELSE Latest(Given(args, args[i].name))].value

ParameterValue(params, args, name) ==
  LET position == CHOOSE i \in DOMAIN params :
                    params[i] = name /\ \A j \in 1..(i - 1) : params[j] # name
      earlier == {params[j] : j \in 1..(position - 1)}
      rank == Cardinality({n \in earlier : Given(args, n) = {}})
      unnamed == {i \in Given(args, Nil) :
                    Cardinality({j \in Given(args, Nil) : j < i}) = rank}
  IN IF Given(args, name) # {} THEN ValueOf(args, Latest(Given(args, name)))
     ELSE IF unnamed # {} THEN args[Latest(unnamed)].value
     ELSE Nil

FirstOf(args) == IF args = None \/ args = <<>> THEN Nil ELSE ValueOf(args, 1)

Entered(f, args, first) ==
  [n \in Names |->
     IF n \in {functions[f].params[i] : i \in DOMAIN functions[f].params}
     THEN ParameterValue(functions[f].params, args, n)
     ELSE IF n = It THEN first ELSE Unset]

Self(self, up) == IF self = None THEN scopes[up].self ELSE self

Callable(f, args) == args # None \/ functions[f].params = <<>>

Call(k, self, args) ==
  LET f == made[k].function
  IN /\ Callable(f, args)
     /\ scopes' = Append(scopes,
          Scope(f, made[k].up, Self(self, made[k].up), FirstOf(args),
                Entered(f, args, FirstOf(args))))
     /\ UNCHANGED <<made, globals>>

\* An operator without operands passes no arguments at all; a function with
\* parameters cannot be called that way.
CallFails(k) ==
  ~Callable(made[k].function, None) /\ UNCHANGED <<made, scopes, globals>>

\* A part of a parallel expression is a function that its enclosing scope
\* creates and calls with its own self and arguments.
Parallel(s, f) ==
  /\ functions[f].enclosing = scopes[s].function /\ functions[f].parallel
  /\ made' = Append(made, [function |-> f, up |-> s])
  /\ scopes' = Append(scopes, Scope(f, s, scopes[s].self, scopes[s].first,
                                    Entered(f, None, scopes[s].first)))
  /\ UNCHANGED <<globals, result>>

(***************************************************************************)
(* A variable that was not assigned yet has no value to speak of, and the  *)
(* program ends where a function reads one of an enclosing function.       *)
(***************************************************************************)
Outcomes(s, home, value) ==
  IF value # Unset THEN {value}
  ELSE IF scopes[s].function = home THEN {Null, Garbage}
  ELSE {Trap}

Unspecified(s, name) ==
  IF scopes[s].self # None /\ name \in Members[scopes[s].self] THEN Member
  ELSE IF globals[name] # Unset THEN globals[name]
  ELSE Missing

Read(s, o) ==
  /\ o.op = "get"
  /\ result' \in IF o.home = 0 THEN {Unspecified(s, o.name)}
                 ELSE Outcomes(s, o.home, scopes[Lies(s, o.home)].var[o.name])
  /\ UNCHANGED <<made, scopes, globals>>

\* An assignment may turn other variables of the scope from unset to nil.
Write(s, o) ==
  /\ o.op = "set" /\ result' \in Values
  /\ IF o.home = 0
     THEN globals' = [globals EXCEPT ![o.name] = result'] /\ UNCHANGED scopes
     ELSE LET t == Lies(s, o.home)
              var == scopes[t].var
              unset == {n \in functions[o.home].declared : var[n] = Unset}
          IN /\ \E settled \in SUBSET unset :
                  scopes' = [scopes EXCEPT ![t].var =
                    [n \in Names |-> IF n = o.name THEN result'
                                     ELSE IF n \in settled THEN Nil ELSE var[n]]]
             /\ UNCHANGED globals
  /\ UNCHANGED made

Run ==
  /\ writing = 0 /\ result # Trap
  /\ UNCHANGED <<functions, writing>>
  /\ \/ Start
     \/ \E s \in DOMAIN scopes, f \in DOMAIN functions : CloseOver(s, f) \/ Parallel(s, f)
     \/ result' = result /\ \E k \in DOMAIN made, self \in Objects \cup {None},
                               args \in ArgumentLists \cup {None} : Call(k, self, args)
     \/ result' = Trap /\ \E k \in DOMAIN made : CallFails(k)
     \/ \E s \in DOMAIN scopes :
          \E o \in functions[scopes[s].function].occurrences : Read(s, o) \/ Write(s, o)

Next == Text \/ Run

scopeVars == <<functions, writing, made, scopes, globals, result>>

Spec == Init /\ [][Next]_scopeVars
=============================================================================
