------------------------------ MODULE Contexts ------------------------------
(***************************************************************************)
(* Functions, contexts and arguments: what the code generator writes into  *)
(* a function description while it compiles a program, and what happens to *)
(* closures, contexts and their locals when the program runs. The order in *)
(* which a function executes its instructions is left open (conditions and *)
(* loops), and contexts live on as closures do.                            *)
(***************************************************************************)
EXTENDS Integers, Sequences, FiniteSets

CONSTANTS
  Names, Values, Objects, Parameters, ArgumentLists,
  Assigned,       \* the values that assignments store
  It, First,      \* the names "it", and of the first class (a global)
  Class,          \* that class
  Nil,            \* SN_NIL
  Null, Unwritten, \* NULL, and a word of memory that was never written
  Member, Missing, Trap, Unset,
  NotGiven,       \* NULL, as self or arguments of a call
  TopLevelIt,     \* the text outside of all functions mentions "it"
  ContextPrograms \* the bounds of a program, and the calls it makes

ContextsAssumption ==
  /\ {It, First} \subseteq Names /\ It # First
  /\ Assigned \subseteq Values
  /\ Parameters \subseteq Seq(Names)
  /\ ArgumentLists \subseteq Seq([name : Names \cup {Nil}, value : Values])
  /\ ContextPrograms \subseteq
       [functions : Nat, occurrences : Nat, closures : Nat, contexts : Nat,
        parameters : SUBSET Parameters, arguments : SUBSET ArgumentLists,
        selves : SUBSET Objects]

VARIABLES
  cg,           \* the codegen at work, 0 when none is
  desc,         \* SnFunctionDescription, with what its codegen knew
  closures,     \* SnFunction
  contexts,     \* SnContext; the first one is the global context
  global_names, \* local_names of the global context
  result,       \* what the last instruction left in RAX
  context_program \* which bounds and calls; never changes

context_vars == <<cg, desc, closures, contexts, global_names, result, context_program>>

(***************************************************************************)
(* struct array_t: data and size, indices from 0 (a negative index counts  *)
(* from the end; no store here has one)                                    *)
(***************************************************************************)
ArrayGet(a, idx) ==
  LET i == IF idx < 0 THEN idx + Len(a) ELSE idx
  IN IF i \in 0..(Len(a) - 1) THEN a[i + 1] ELSE Null

ArrayGrow(a, size) == [i \in 1..size |-> IF i <= Len(a) THEN a[i] ELSE Nil]

ArraySet(a, idx, val) ==
  [(IF idx >= Len(a) THEN ArrayGrow(a, idx + 1) ELSE a) EXCEPT ![idx + 1] = val]

ArrayFind(a, val) ==
  IF \E i \in DOMAIN a : a[i] = val
  THEN (CHOOSE i \in DOMAIN a : a[i] = val /\ \A j \in 1..(i - 1) : a[j] # val) - 1
  ELSE -1

Added(a, val) == IF ArrayFind(a, val) >= 0 THEN a ELSE Append(a, val)

\* The array_get that compiled code has inlined, without its check of bounds.
InlinedArrayGet(a, idx) == IF idx < Len(a) THEN {a[idx + 1]} ELSE {Null, Unwritten}

(***************************************************************************)
(* SnArguments: names and data side by side                                *)
(***************************************************************************)
NoArguments == [names |-> <<>>, data |-> <<>>]

PushUnnamed(args, val) ==
  [names |-> Append(args.names, Nil), data |-> Append(args.data, val)]

PushNamed(args, sym, val) ==
  LET names == Added(args.names, sym)
  IN [names |-> names, data |-> ArraySet(args.data, ArrayFind(names, sym), val)]

\* Mutant: a parameter does not take over an unnamed argument.
AddNameAtEnd(names, sym) == Added(names, sym)

AddName(names, sym) ==
  IF ArrayFind(names, sym) >= 0 \/ ArrayFind(names, Nil) < 0
  THEN Added(names, sym)
  ELSE ArraySet(names, ArrayFind(names, Nil), sym)

\* The calls that SN_AST_CALL emits for the arguments of a call.
Compiled(list) ==
  LET args[i \in 0..Len(list)] ==
        IF i = 0 THEN NoArguments
        ELSE IF list[i].name = Nil THEN PushUnnamed(args[i - 1], list[i].value)
        ELSE PushNamed(args[i - 1], list[i].name, list[i].value)
  IN args[Len(list)]

(***************************************************************************)
(* Compilation                                                             *)
(***************************************************************************)
\* Mutant: "it" is not the first local of every function.
DescriptionWithoutIt(parent, argument_names, parallel) ==
  LET locals[i \in 0..Len(argument_names)] ==
        IF i = 0 THEN <<>> ELSE Added(locals[i - 1], argument_names[i])
  IN [parent |-> parent, argument_names |-> argument_names, parallel |-> parallel,
      defined_locals |-> locals[Len(argument_names)],
      variable_references |-> <<>>, variable_reference_names |-> <<>>,
      code |-> {}]

Description(parent, argument_names, parallel) ==
  LET locals[i \in 0..Len(argument_names)] ==
        IF i = 0 THEN <<It>> ELSE Added(locals[i - 1], argument_names[i])
  IN [parent |-> parent, argument_names |-> argument_names, parallel |-> parallel,
      defined_locals |-> locals[Len(argument_names)],
      variable_references |-> <<>>, variable_reference_names |-> <<>>,
      code |-> {}]

\* The codegens from f outwards, by level.
Codegen(f, level) ==
  LET parent[l \in 0..level] ==
        IF l = 0 THEN f
        ELSE IF parent[l - 1] = 0 THEN 0 ELSE desc[parent[l - 1]].parent
  IN parent[level]

VariableReference(f, name) ==
  LET known == ArrayFind(desc[f].variable_reference_names, name)
      levels == {l \in 0..Len(desc) :
                   /\ Codegen(f, l) # 0
                   /\ ArrayFind(desc[Codegen(f, l)].defined_locals, name) >= 0}
      level == CHOOSE l \in levels : \A k \in levels : l <= k
      found == [context_level |-> level,
                variable_index |->
                  ArrayFind(desc[Codegen(f, level)].defined_locals, name)]
  IN IF known >= 0 THEN [index |-> known, desc |-> desc[f]]
     ELSE IF levels = {} THEN [index |-> -1, desc |-> desc[f]]
     ELSE [index |-> Len(desc[f].variable_references),
           desc |-> [desc[f] EXCEPT !.variable_references = Append(@, found),
                                    !.variable_reference_names = Append(@, name)]]

Instruction(op, how, index, name) ==
  [op |-> op, how |-> how, index |-> index, name |-> name]

Emit(d, instruction) ==
  desc' = [desc EXCEPT ![cg] = [d EXCEPT !.code = @ \cup {instruction}]]

Occurrences ==
  LET total[f \in 0..Len(desc)] ==
        IF f = 0 THEN 0 ELSE total[f - 1] + Cardinality(desc[f].code)
  IN total[Len(desc)]

Compiling == cg # 0 /\ UNCHANGED <<closures, contexts, global_names, result, context_program>>

Mentionable(name) ==
  Occurrences < context_program.occurrences /\ (cg = 1 /\ name = It => TopLevelIt)

CompileLocal(name) ==
  LET own == ArrayFind(desc[cg].defined_locals, name)
      reference == VariableReference(cg, name)
  IN /\ Compiling /\ Mentionable(name)
     /\ \/ own >= 0
             /\ Emit(desc[cg], Instruction("get", "own", own, name))
        \/ own < 0 /\ reference.index >= 0
             /\ Emit(reference.desc, Instruction("get", "reference", reference.index, name))
        \/ own < 0 /\ reference.index < 0
             /\ Emit(desc[cg], Instruction("get", "unspecified", 0, name))
     /\ UNCHANGED cg

CompileLocalAssignment(name) ==
  LET own == ArrayFind(desc[cg].defined_locals, name)
      reference == VariableReference(cg, name)
      defined == [desc[cg] EXCEPT !.defined_locals = Added(@, name)]
  IN /\ Compiling /\ Mentionable(name)
     /\ \/ own >= 0
             /\ Emit(desc[cg], Instruction("set", "own", own, name))
        \/ own < 0 /\ reference.index >= 0
             /\ Emit(reference.desc, Instruction("set", "reference", reference.index, name))
        \/ own < 0 /\ reference.index < 0 /\ desc[cg].parent # 0
             /\ Emit(defined, Instruction("set", "own",
                                ArrayFind(defined.defined_locals, name), name))
        \/ own < 0 /\ reference.index < 0 /\ desc[cg].parent = 0
             /\ Emit(desc[cg], Instruction("set", "unspecified", 0, name))
     /\ UNCHANGED cg

CompileFunction(argument_names, parallel) ==
  /\ Compiling /\ Len(desc) < context_program.functions
  /\ desc' = Append(desc, Description(cg, argument_names, parallel))
  /\ cg' = Len(desc) + 1

\* Bound: programs whose functions all mention a name or enclose a function.
NotEmpty(f) == desc[f].code # {} \/ \E d \in DOMAIN desc : desc[d].parent = f

EndFunction ==
  /\ Compiling /\ NotEmpty(cg)
  /\ cg' = desc[cg].parent
  /\ UNCHANGED desc

(***************************************************************************)
(* Closures and contexts                                                   *)
(***************************************************************************)
Running == closures # <<>> /\ result # Trap /\ UNCHANGED <<cg, desc, context_program>>

\* The description of the code that runs in context c.
Runs(c) == IF c = 1 THEN 1 ELSE closures[contexts[c].function].desc
LocalNames(c) == IF c = 1 THEN global_names ELSE desc[Runs(c)].defined_locals

\* Mutant: every level is the nearest one.
ContextAtLevelNearest(level1, level) == level1

ContextAtLevel(level1, level) ==
  LET ctx[i \in 1..level] ==
        IF i = 1 THEN level1
        ELSE closures[contexts[ctx[i - 1]].function].declaration_context
  IN ctx[level]

DeclaredInContext(d, context) ==
  [desc |-> d, declaration_context |-> context,
   variable_references |->
     [i \in DOMAIN desc[d].variable_references |->
        [context |-> ContextAtLevel(context, desc[d].variable_references[i].context_level),
         variable_index |-> desc[d].variable_references[i].variable_index]]]

\* function_setup_context, for a context with the given self and arguments. Of
\* the arguments the context keeps the data: nothing here reads the names again.
SetUp(function, d, context, self, args) ==
  LET first == IF args = NotGiven \/ args.data = <<>> THEN Nil ELSE args.data[1]
      named[i \in 0..Len(desc[d].argument_names)] ==
        IF i = 0
        THEN [names |-> IF args = NotGiven THEN <<>> ELSE args.names,
              locals |-> ArraySet(<<>>, 0, first)]
        ELSE LET sym == desc[d].argument_names[i]
                 names == AddName(named[i - 1].names, sym)
                 arg == ArrayGet(args.data, ArrayFind(names, sym))
             IN [names |-> names,
                 locals |-> ArraySet(named[i - 1].locals,
                                     ArrayFind(desc[d].defined_locals, sym),
                                     IF arg = Null THEN Nil ELSE arg)]
      done == named[Len(desc[d].argument_names)]
  IN [function |-> function, locals |-> done.locals,
      self |-> IF self = NotGiven THEN contexts[context].self ELSE self,
      args |-> IF args = NotGiven THEN NotGiven ELSE args.data]

\* snow_eval: the program is called in the global context.
Eval ==
  /\ cg = 0 /\ closures = <<>>
  /\ closures' = <<DeclaredInContext(1, NotGiven)>>
  /\ global_names' = Added(global_names, It)
  /\ contexts' = [contexts EXCEPT ![1].locals =
                    ArraySet(@, ArrayFind(global_names', It), Nil)]
  /\ UNCHANGED <<cg, desc, result, context_program>>

CreateClosure(c, d) ==
  /\ Running /\ Len(closures) < context_program.closures
  /\ desc[d].parent = Runs(c) /\ ~desc[d].parallel
  /\ closures' = Append(closures, DeclaredInContext(d, c))
  /\ UNCHANGED <<contexts, global_names, result>>

\* snow_arguments_add_name has no check for a call without arguments.
CallWithArgs(f, self, args) ==
  LET d == closures[f].desc
  IN /\ Running /\ Len(contexts) < context_program.contexts
     /\ f # 1
     /\ IF args = NotGiven /\ desc[d].argument_names # <<>>
        THEN result' = Trap /\ UNCHANGED contexts
        ELSE /\ contexts' = Append(contexts,
                  SetUp(f, d, closures[f].declaration_context, self, args))
             /\ UNCHANGED result
     /\ UNCHANGED <<closures, global_names>>

\* One part of a parallel expression: its closure is used once.
InvokeParallelThread(c, d) ==
  /\ Running /\ Len(closures) < context_program.closures /\ Len(contexts) < context_program.contexts
  /\ desc[d].parent = Runs(c) /\ desc[d].parallel
  /\ closures' = Append(closures, DeclaredInContext(d, c))
  /\ contexts' = Append(contexts,
       SetUp(Len(closures) + 1, d, c, contexts[c].self,
             IF contexts[c].args = NotGiven THEN NotGiven
             ELSE [names |-> <<>>, data |-> contexts[c].args]))
  /\ UNCHANGED <<global_names, result>>

(***************************************************************************)
(* Instructions                                                            *)
(***************************************************************************)
Members == [o \in Objects |-> {First}]

Reference(c, i) == closures[contexts[c].function].variable_references[i.index + 1]

GetReferencedVariable(c, i) ==
  LET var == ArrayGet(contexts[Reference(c, i).context].locals,
                      Reference(c, i).variable_index)
  IN IF var = Null THEN Trap ELSE var

GetUnspecifiedLocal(c, name) ==
  LET global == ArrayFind(global_names, name)
  IN IF contexts[c].self # NotGiven /\ name \in Members[contexts[c].self] THEN Member
     ELSE IF global >= 0 THEN ArrayGet(contexts[1].locals, global)
     ELSE Missing

Get(c, i) ==
  /\ Running /\ i.op = "get"
  /\ \/ i.how = "own" /\ result' \in InlinedArrayGet(contexts[c].locals, i.index)
     \/ i.how = "reference" /\ result' = GetReferencedVariable(c, i)
     \/ i.how = "unspecified" /\ result' = GetUnspecifiedLocal(c, i.name)
  /\ UNCHANGED <<closures, contexts, global_names>>

Store(c, idx, val) == [contexts EXCEPT ![c].locals = ArraySet(@, idx, val)]

Set(c, i, val) ==
  /\ Running /\ i.op = "set"
  /\ \/ i.how = "own"
          /\ contexts' = Store(c, i.index, val)
          /\ UNCHANGED global_names
     \/ i.how = "reference"
          /\ contexts' = Store(Reference(c, i).context, Reference(c, i).variable_index, val)
          /\ UNCHANGED global_names
     \/ i.how = "unspecified"
          /\ global_names' = Added(global_names, i.name)
          /\ contexts' = Store(1, ArrayFind(global_names', i.name), val)
  /\ result' = val
  /\ UNCHANGED closures

ContextsInit ==
  /\ context_program \in ContextPrograms
  /\ cg = 1
  /\ desc = <<Description(0, <<>>, FALSE)>>
  /\ closures = <<>>
  /\ contexts = <<[function |-> 0, locals |-> <<Class>>, self |-> NotGiven, args |-> NotGiven]>>
  /\ global_names = <<First>>
  /\ result = Nil

ContextsNext ==
  \/ \E name \in Names : CompileLocal(name) \/ CompileLocalAssignment(name)
  \/ \E argument_names \in context_program.parameters : CompileFunction(argument_names, FALSE)
  \/ CompileFunction(<<>>, TRUE)
  \/ EndFunction
  \/ Eval
  \/ \E c \in DOMAIN contexts, d \in DOMAIN desc :
       CreateClosure(c, d) \/ InvokeParallelThread(c, d)
  \/ \E f \in DOMAIN closures, self \in context_program.selves \cup {NotGiven} :
       \/ CallWithArgs(f, self, NotGiven)
       \/ \E list \in context_program.arguments : CallWithArgs(f, self, Compiled(list))
  \/ \E c \in DOMAIN contexts : \E i \in desc[Runs(c)].code :
       Get(c, i) \/ \E val \in Assigned : Set(c, i, val)

ContextsSpec == ContextsInit /\ [][ContextsNext]_context_vars

(***************************************************************************)
(* Properties                                                              *)
(***************************************************************************)
NoDuplicates(a) == \A i, j \in DOMAIN a : a[i] = a[j] => i = j

\* Every index is one of an array it is used on: a local has one index
\* (snow_function_description_define_local), contexts have no more locals
\* than names.
ContextsTypeOK ==
  /\ cg \in 0..Len(desc)
  /\ \A f \in DOMAIN desc :
       /\ desc[f].parent \in 0..(f - 1)
       /\ desc[f].defined_locals \in Seq(Names) /\ NoDuplicates(desc[f].defined_locals)
       /\ Len(desc[f].variable_references) = Len(desc[f].variable_reference_names)
       /\ \A i \in desc[f].code : i.how = "own" =>
            desc[f].defined_locals[i.index + 1] = i.name
  /\ \A k \in DOMAIN closures : closures[k].desc \in DOMAIN desc
  /\ \A c \in DOMAIN contexts :
       /\ c # 1 => contexts[c].function \in DOMAIN closures
       /\ Len(contexts[c].locals) <= Len(LocalNames(c))
  /\ result \in Values \cup {Nil, Null, Unwritten, Member, Missing, Trap, Class}

(***************************************************************************)
(* The level and index that the code generator wrote down lead, through    *)
(* the contexts of the run, to the variable that has the name the text     *)
(* mentioned (codegen_variable_reference against                           *)
(* snow_function_declared_in_context).                                     *)
(***************************************************************************)
ReferencesNameTheirVariable ==
  \A k \in DOMAIN closures : \A i \in DOMAIN closures[k].variable_references :
    LET reference == closures[k].variable_references[i]
        names == LocalNames(reference.context)
    IN /\ reference.variable_index < Len(names)
       /\ names[reference.variable_index + 1] =
            desc[closures[k].desc].variable_reference_names[i]

(***************************************************************************)
(* Implementation: indices, levels and arrays give each name the meaning   *)
(* that LexicalScope states, and each parameter its argument (codegen.c,   *)
(* context.c, function.c, arguments.c).                                    *)
(***************************************************************************)
HomeOf(f, i) ==
  CASE i.how = "own" -> f
    [] i.how = "reference" ->
         Codegen(f, desc[f].variable_references[i.index + 1].context_level)
    [] i.how = "unspecified" -> 0

Variables(names, locals) ==
  [n \in Names |-> LET idx == ArrayFind(names, n)
                   IN IF idx >= 0 /\ idx < Len(locals) THEN locals[idx + 1] ELSE Unset]

GlobalVariables == Variables(global_names, contexts[1].locals)

ScopeOf(c) ==
  [function |-> Runs(c),
   up |-> IF c = 1 THEN 0 ELSE closures[contexts[c].function].declaration_context,
   self |-> contexts[c].self,
   first |-> IF contexts[c].args \in {NotGiven, <<>>} THEN Nil ELSE contexts[c].args[1],
   var |-> IF c = 1 THEN [n \in Names |-> IF n = It THEN GlobalVariables[It] ELSE Unset]
           ELSE Variables(LocalNames(c), contexts[c].locals)]

Meaning == INSTANCE LexicalScope WITH
  None <- NotGiven, Garbage <- Unwritten,
  functions <- [f \in DOMAIN desc |->
    [enclosing |-> desc[f].parent, params |-> desc[f].argument_names,
     parallel |-> desc[f].parallel,
     declared |-> {desc[f].defined_locals[i] : i \in DOMAIN desc[f].defined_locals},
     occurrences |-> {[op |-> i.op, name |-> i.name, home |-> HomeOf(f, i)] :
                        i \in desc[f].code}]],
  writing <- cg,
  made <- [k \in 1..(Len(closures) - 1) |->
             [function |-> closures[k + 1].desc, up |-> closures[k + 1].declaration_context]],
  scopes <- IF closures = <<>> THEN <<>>
            ELSE [c \in DOMAIN contexts |-> ScopeOf(c)],
  globals <- [n \in Names |-> IF n = It THEN Unset ELSE GlobalVariables[n]]

\* Each name means what lexical scope says, and each parameter gets its argument
\* (codegen.c, context.c, function.c, arguments.c): this is Meaning!Spec, where a
\* step that changes nothing of the state needs no step of Meaning.
ImplementsLexicalScope ==
  /\ Meaning!Init
  /\ [][context_vars' # context_vars => [Meaning!Next]_(Meaning!scopeVars)]_context_vars
=============================================================================
