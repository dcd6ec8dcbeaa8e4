------------------------------ MODULE MCLanguage ------------------------------
(***************************************************************************)
(* The language, for TLC: symbols, contexts and their variables, compiled  *)
(* code, exceptions, the methods of arrays, and require.  They share no    *)
(* state: a behaviour is one of one of them ("part"), while the others     *)
(* stay as they started.                                                   *)
(***************************************************************************)
EXTENDS Symbols, Contexts, Exceptions, Loading, FiniteSets, SequencesExt

CONSTANTS x, y, v, w, o1

(***************************************************************************)
(* Contexts: programs with every kind of argument; with objects as self;   *)
(* and deep ones, with one function more and one place that mentions a     *)
(* name.                                                                   *)
(***************************************************************************)
Argument(n, value) == [name |-> n, value |-> value]

ParameterLists == {<<>>, <<x>>, <<y, x>>}
Unnamed == <<Argument(Nil, v), Argument(Nil, w)>>
Named == <<Argument(x, v), Argument(Nil, w)>>
Lists == {Unnamed, Named}

WideAndDeep == {
  [functions |-> 3, occurrences |-> 2, closures |-> 3, contexts |-> 3,
   parameters |-> {<<>>, <<y, x>>}, arguments |-> Lists, selves |-> {}],
  [functions |-> 3, occurrences |-> 2, closures |-> 3, contexts |-> 3,
   parameters |-> {<<>>}, arguments |-> {}, selves |-> {o1}],
  [functions |-> 4, occurrences |-> 1, closures |-> 4, contexts |-> 4,
   parameters |-> {<<>>, <<x>>}, arguments |-> {Named}, selves |-> {}]}

(***************************************************************************)
(* Exceptions: without "nested" beside "condition", without "task" and     *)
(* without "return": see the README for what each of them does.            *)
(***************************************************************************)
TriesToCheck == {{"nested"}, {"condition"}, {"loops"}}

(***************************************************************************)
(* Compiled code: every form of expression, with every form in place of    *)
(* each of its parts.                                                      *)
(***************************************************************************)
Local(n) == [type |-> "local", name |-> n]
Assign(n, value) == [type |-> "local_assignment", name |-> n, value |-> value]
MemberOf(self) == [type |-> "member", name |-> "m", self |-> self]
CallOf(func, args) == [type |-> "call", func |-> func, args |-> args]
IfElse(cond, body, else) == [type |-> "if_else", cond |-> cond, body |-> body, else |-> else]
Binary(type, left, right) == [type |-> type, left |-> left, right |-> right]
Unary(type, value) == [type |-> type, value |-> value]
Literal(word) == [type |-> "literal", word |-> word]

\* The forms that reserve no temporary, those with one part first.
Light(p, q, r) ==
  {Unary("not", p), Unary("return", p), Assign("x", p), MemberOf(p),
   [type |-> "sequence", nodes |-> <<p, q>>],
   [type |-> "loop", cond |-> p, body |-> q],
   IfElse(p, q, r), IfElse(p, q, None)}

Heavy(p, q, r) ==
  {Binary("and", p, q), Binary("or", p, q),
   [type |-> "member_assignment", name |-> "m", self |-> p, value |-> q],
   CallOf(p, None), CallOf(p, <<q, Assign("x", r)>>), CallOf(MemberOf(p), <<Assign("x", q), r>>)}

Forms(p, q, r) == Light(p, q, r) \cup Heavy(p, q, r)

Leaves == {Literal(2), Literal(9), [type |-> "self"], [type |-> "function"],
           Unary("return", None), [type |-> "sequence", nodes |-> <<>>]}

a == Local("a")
b == Local("b")
c == Local("c")

Inner == Forms(Local("d"), Local("e"), Local("f")) \cup {Local("d"), [type |-> "function"]}

Nested == UNION {Forms(t, b, c) \cup Forms(a, t, c) \cup Forms(a, b, t) : t \in Inner}

\* No temporaries beside those of the xor: it does not free them. Among the
\* words, SN_TRUE, and one that the truth test takes for another.
Xors ==
  Light(Binary("xor", a, b), c, Literal(9))
  \cup {Binary("xor", left, right) : left, right \in {a, b, Literal(6), Literal(15)}}

AllForms == Leaves \cup Nested \cup Xors

(***************************************************************************)
(* Arrays of up to three elements, with and without room for one more.     *)
(***************************************************************************)
SmallArrays ==
  {[data |-> elements \o [k \in 1 .. room |-> Unwritten], size |-> Len(elements)] :
     elements \in BoundedSeq({v, w}, 3), room \in {0, 1}}

(***************************************************************************)
(* Require: names with and without suffix, and sets of up to four files.   *)
(***************************************************************************)
RequiredName(base, suffix, absolute) ==
  [base |-> base, suffix |-> suffix, absolute |-> absolute]
FileNames ==
  {RequiredName("a", "", FALSE), RequiredName("a", "sn", FALSE), RequiredName("b", "", FALSE),
   RequiredName("a", "sn", TRUE)}

Files == {File("cwd", "a", "sn"), File("lib", "a", "sn"), File("cwd", "b", "sn"),
          File("more", "b", "sn"), File("lib", "b", "so"), File("/", "a", "sn")}

SmallFileSystems == {fs \in SUBSET Files : Cardinality(fs) \in 2 .. 4}

(***************************************************************************)
(* The parts                                                               *)
(***************************************************************************)
VARIABLES
  part,
  text, code, code_pc, regs, zero, temps, arguments, events, results,
  method, array, position, len, new_array, carry, place, got, before, answers, changes

Code == INSTANCE CompiledText WITH
  Programs <- AllForms, Words <- {4, 9, 17}, MaxCalls <- 6, program <- text, pc <- code_pc

INSTANCE ArrayMethods WITH
  Value <- {v, w}, Truthy <- {v}, Garbage <- Unwritten,
  Methods <- {"each", "map", "select", "reject", "inject", "detect"},
  Initial <- SmallArrays, MaxChanges <- 2, MaxAlloc <- 4, i <- position

ASSUME LanguageAssumption == ContextsAssumption /\ ExceptionsAssumption

symbol_vars == vars
code_vars == <<text, code, code_pc, regs, zero, temps, arguments, events, results>>
walk_vars == <<method, array, position, len, new_array, carry, place, got, before, answers,
               changes>>

\* The parts that do not run make the first of their choices.
SymbolsStay == name = [t \in Thread |-> CHOOSE n \in Name : TRUE]
ContextsStay == context_program = CHOOSE p \in WideAndDeep : TRUE
TryStays == try_program = {"nested"}
WalkStays == method = "each" /\ array = [data |-> <<>>, size |-> 0]
LoadStays == existing = {File("cwd", "a", "sn"), File("lib", "a", "sn")}
NoCode ==
  /\ text = None /\ code = None /\ code_pc = None /\ regs = None /\ zero = None
  /\ temps = None /\ arguments = None /\ events = None /\ results = None

LanguageInit ==
  /\ part \in {"symbols", "contexts", "try", "code", "walk", "load"}
  /\ part # "symbols" => SymbolsStay
  /\ part # "contexts" => ContextsStay
  /\ part # "try" => TryStays
  /\ part # "walk" => WalkStays
  /\ part # "load" => LoadStays
  /\ Init /\ ContextsInit /\ ExceptionsInit /\ LoadingInit /\ MethodsInit
  /\ IF part = "code" THEN Code!Init ELSE NoCode

LanguageNext ==
  \/ /\ part = "symbols" /\ Next
     /\ UNCHANGED <<part, context_vars, try_vars, code_vars, walk_vars, load_vars>>
  \/ /\ part = "contexts" /\ ContextsNext
     /\ UNCHANGED <<part, symbol_vars, try_vars, code_vars, walk_vars, load_vars>>
  \/ /\ part = "try" /\ ExceptionsNext
     /\ UNCHANGED <<part, symbol_vars, context_vars, code_vars, walk_vars, load_vars>>
  \/ /\ part = "code" /\ Code!Next
     /\ UNCHANGED <<part, symbol_vars, context_vars, try_vars, walk_vars, load_vars>>
  \/ /\ part = "walk" /\ MethodsNext
     /\ UNCHANGED <<part, symbol_vars, context_vars, try_vars, code_vars, load_vars>>
  \/ /\ part = "load" /\ LoadingNext
     /\ UNCHANGED <<part, symbol_vars, context_vars, try_vars, code_vars, walk_vars>>

LanguageSpec ==
  LanguageInit
  /\ [][LanguageNext]_<<part, symbol_vars, context_vars, try_vars, code_vars, walk_vars, load_vars>>

\* Compiled code makes the calls that a walk of its text makes, in their order
\* and with the same operands, and ends with the same value
\* (codegen-x86_64.c:201-583, 721-832). The other properties are in the modules.
CompiledCodeMeansItsText == part = "code" => Code!CompiledCodeMeansItsText
=============================================================================
