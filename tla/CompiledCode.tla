----------------------------- MODULE CompiledCode -----------------------------
(***************************************************************************)
(* What codegen-x86_64.c makes of the control flow and the calls of a      *)
(* function, and the run of that code: Compile emits instructions node by  *)
(* node, with temporaries on the stack and labels that are linked when     *)
(* they are known; Step and Call execute them. Where variables live is the *)
(* business of Contexts, try statements that of Exceptions.                *)
(***************************************************************************)
EXTENDS Integers, SequencesExt

CONSTANTS
  Programs, \* the syntax trees that are compiled
  Words,    \* what the functions that the code calls return
  None,     \* no subtree, no name
  MaxCalls  \* bound: calls with a result in a run

VARIABLES program, code, pc, regs, zero, temps, arguments, events, results

vars == <<program, code, pc, regs, zero, temps, arguments, events, results>>

\* enum SnValueType; integers are odd, objects are multiples of 16.
NULL == 0
SN_NIL == 2
SN_FALSE == 4
SN_TRUE == 6
Garbage == 7777
EvalTruth(w) == w \notin {NULL, SN_NIL, SN_FALSE}

(***************************************************************************)
(* The assembler, at the grain of instructions: a jump is linked to the    *)
(* distance from its end to its label.                                     *)
(***************************************************************************)
Instruction(op, a, b) == [op |-> op, a |-> a, b |-> b]
Imm(w, reg) == Instruction("imm", w, reg)
Mov(source, reg) == Instruction("mov", source, reg)
Save(reg, tmp) == Instruction("save", reg, tmp)
Load(reg, tmp) == Instruction("load", reg, tmp)
Truth == Instruction("truth", None, None)
CmpZero(reg) == Instruction("cmp_zero", reg, None)
Cmp(a, b) == Instruction("cmp", a, b)
J(cc, label) == Instruction(cc, None, label)
CallTo(function) == Instruction("call", function, None)

Jumps == {"j_zero", "j_not_zero", "jmp"}

\* SnCodegenX: temporaries reserved so far, the free ones (a stack) and
\* whether that list was ever made; labels, 0 while not bound.
NewCodegen ==
  [code |-> <<>>, labels |-> <<>>, num_temporaries |-> 0, free |-> <<>>, listed |-> FALSE]

Emit(cg, instructions) == [cg EXCEPT !.code = @ \o instructions]

NextLabel(cg) == Len(cg.labels) + 1
WithLabels(cg, n) == [cg EXCEPT !.labels = @ \o [i \in 1..n |-> 0]]
Bind(cg, label) == [cg EXCEPT !.labels[label] = Len(cg.code) + 1]

Link(cg) ==
  [i \in DOMAIN cg.code |->
     IF cg.code[i].op \in Jumps
     THEN [cg.code[i] EXCEPT !.b = cg.labels[@] - (i + 1)]
     ELSE cg.code[i]]

Tmp(cg) == IF cg.free # <<>> THEN Last(cg.free) ELSE cg.num_temporaries

Reserved(cg) ==
  IF cg.free # <<>> THEN [cg EXCEPT !.free = Front(@)]
  ELSE [cg EXCEPT !.num_temporaries = @ + 1]

Freed(cg, tmp) == [cg EXCEPT !.free = Append(@, tmp), !.listed = TRUE]

(***************************************************************************)
(* codegen_compile_node                                                    *)
(***************************************************************************)
RECURSIVE Compile(_, _)

\* The self of the context, one object here.
Self == 32

CompileFunction(cg) ==
  Emit(cg, <<CallTo("create_function"), Mov("rax", "rbx"), Mov("rax", "rdi"),
             CallTo("declared_in_context"), Mov("rbx", "rax")>>)

ReturnLabel == 1

CompileReturn(cg, node) ==
  Emit(IF node.value = None THEN Emit(cg, <<Imm(SN_NIL, "rax")>>) ELSE Compile(cg, node.value),
       <<J("jmp", ReturnLabel)>>)

CompileLocalAssignment(cg, node) ==
  Emit(Compile(cg, node.value),
       <<Mov("rax", "rdx"), Imm(node.name, "rsi"), CallTo("set_local"),
         Mov("rax", "rdi"), Imm(node.name, "rsi"), Imm(NULL, "rdx"),
         CallTo("set_object_assigned")>>)

CompileMember(cg, node) ==
  Emit(Compile(cg, node.self),
       <<Mov("rax", "rdi"), Imm(node.name, "rsi"), CallTo("get_member_with_fallback")>>)

CompileMemberAssignment(cg, node) ==
  LET self == Tmp(cg)
      left == Emit(Compile(Reserved(cg), node.self), <<Save("rax", self)>>)
  IN Freed(Emit(Compile(left, node.value),
                <<Mov("rax", "rdx"), Load("rdi", self), Imm(node.name, "rsi"),
                  CallTo("set_member"),
                  Mov("rax", "rdi"), Imm(node.name, "rsi"), Load("rdx", self),
                  CallTo("set_object_assigned")>>), self)

Branch == <<Mov("rax", "rdi"), Truth, CmpZero("rax")>>

CompileIfElse(cg, node) ==
  LET if_false == NextLabel(cg)
      after == if_false + 1
      cond == Emit(Compile(WithLabels(cg, 2), node.cond), Branch \o <<J("j_zero", if_false)>>)
      truth == Bind(Emit(Compile(cond, node.body), <<J("jmp", after)>>), if_false)
  IN Bind(IF node.else = None THEN truth ELSE Compile(truth, node.else), after)

CompileLoop(cg, node) ==
  LET start == NextLabel(cg)
      after == start + 1
      cond == Emit(Compile(Bind(WithLabels(cg, 2), start), node.cond),
                   Branch \o <<J("j_zero", after)>>)
  IN Bind(Emit(Compile(cond, node.body), <<J("jmp", start)>>), after)

\* The function and, for a method, the object it is called on.
CompileCallee(cg, func, tmp_self, tmp_function) ==
  Emit(IF func.type = "member"
       THEN Emit(Compile(cg, func.self),
                 <<Save("rax", tmp_self), Mov("rax", "rdi"), Imm(func.name, "rsi"),
                   CallTo("get_member_for_method_call")>>)
       ELSE Compile(Emit(cg, <<Imm(NULL, "rax"), Save("rax", tmp_self)>>), func),
       <<Save("rax", tmp_function)>>)

CompileArgument(cg, arg, tmp_args) ==
  IF arg.type = "local_assignment"
  THEN Emit(Compile(cg, arg.value),
            <<Imm(arg.name, "rsi"), Mov("rax", "rdx"), Load("rdi", tmp_args),
              CallTo("arguments_push_named")>>)
  ELSE Emit(Compile(cg, arg),
            <<Mov("rax", "rsi"), Load("rdi", tmp_args), CallTo("arguments_push")>>)

CompileArguments(cg, args, tmp_args) ==
  IF args = None
  THEN Emit(cg, <<Imm(NULL, "rdx"), Save("rax", tmp_args)>>)
  ELSE Emit(FoldLeft(LAMBDA acc, arg : CompileArgument(acc, arg, tmp_args),
                     Emit(cg, <<CallTo("create_arguments"), Save("rax", tmp_args)>>), args),
            <<Load("rdx", tmp_args)>>)

CompileCall(cg, node) ==
  LET tmp_self == Tmp(cg)
      one == Reserved(cg)
      tmp_function == Tmp(one)
      callee == CompileCallee(Reserved(one), node.func, tmp_self, tmp_function)
      tmp_args == Tmp(callee)
      called == Emit(CompileArguments(Reserved(callee), node.args, tmp_args),
                     <<Load("rdi", tmp_self), Load("rsi", tmp_function),
                       CallTo("call_with_args")>>)
  IN Freed(Freed(Freed(called, tmp_args), tmp_self), tmp_function)

\* Mutant: the right operand is compiled for its effect only where the left
\* one decides (and, or swapped).
CompileShortcutSwapped(cg, node, cc) ==
  LET left_save == Tmp(cg)
      known == NextLabel(cg)
      left == Emit(Compile(WithLabels(Reserved(cg), 1), node.left),
                   <<Save("rax", left_save), Mov("rax", "rdi"), Truth, CmpZero("rax"),
                     Load("rax", left_save),
                     J(IF cc = "j_zero" THEN "j_not_zero" ELSE "j_zero", known)>>)
  IN Bind(Compile(Freed(left, left_save), node.right), known)

CompileShortcut(cg, node, cc) ==
  LET left_save == Tmp(cg)
      known == NextLabel(cg)
      left == Emit(Compile(WithLabels(Reserved(cg), 1), node.left),
                   <<Save("rax", left_save), Mov("rax", "rdi"), Truth, CmpZero("rax"),
                     Load("rax", left_save), J(cc, known)>>)
  IN Bind(Compile(Freed(left, left_save), node.right), known)

\* Its two temporaries are not freed.
CompileXor(cg, node) ==
  LET both == NextLabel(cg)
      left_true == both + 1
      done == both + 2
      left_save == Tmp(cg)
      one == Reserved(WithLabels(cg, 3))
      right_save == Tmp(one)
      left == Emit(Compile(Reserved(one), node.left), <<Save("rax", left_save)>>)
      tested == Emit(Compile(left, node.right),
                     <<Save("rax", right_save), Mov("rax", "rdi"), Truth, Mov("rax", "rbx"),
                       Load("rdi", left_save), Truth, Cmp("rax", "rbx"), J("j_zero", both),
                       CmpZero("rax"), J("j_not_zero", left_true),
                       Load("rax", right_save), J("jmp", done)>>)
      found == Emit(Bind(tested, left_true), <<Load("rax", left_save), J("jmp", done)>>)
  IN Bind(Emit(Bind(found, both), <<Imm(SN_FALSE, "rax")>>), done)

CompileNot(cg, node) ==
  LET if_false == NextLabel(cg)
      after == if_false + 1
      cond == Emit(Compile(WithLabels(cg, 2), node.value),
                   Branch \o <<J("j_zero", if_false), Imm(SN_FALSE, "rax"), J("jmp", after)>>)
  IN Bind(Emit(Bind(cond, if_false), <<Imm(SN_TRUE, "rax")>>), after)

Compile(cg, node) ==
  CASE node.type = "literal" -> Emit(cg, <<Imm(node.word, "rax")>>)
    [] node.type = "self" -> Emit(cg, <<Imm(Self, "rax")>>)
    [] node.type = "sequence" -> FoldLeft(Compile, cg, node.nodes)
    [] node.type = "function" -> CompileFunction(cg)
    [] node.type = "return" -> CompileReturn(cg, node)
    [] node.type = "local" -> Emit(cg, <<Imm(node.name, "rdi"), CallTo("get_local")>>)
    [] node.type = "local_assignment" -> CompileLocalAssignment(cg, node)
    [] node.type = "member" -> CompileMember(cg, node)
    [] node.type = "member_assignment" -> CompileMemberAssignment(cg, node)
    [] node.type = "if_else" -> CompileIfElse(cg, node)
    [] node.type = "call" -> CompileCall(cg, node)
    [] node.type = "loop" -> CompileLoop(cg, node)
    [] node.type = "and" -> CompileShortcut(cg, node, "j_zero")
    [] node.type = "or" -> CompileShortcut(cg, node, "j_not_zero")
    [] node.type = "xor" -> CompileXor(cg, node)
    [] node.type = "not" -> CompileNot(cg, node)

\* Stops at the assertion "Unfreed temporaries!".
CompileRoot(body) ==
  LET cg == Compile(Emit(WithLabels(NewCodegen, 1), <<Imm(NULL, "rax")>>), body)
  IN IF cg.listed /\ Len(cg.free) # cg.num_temporaries
     THEN [code |-> <<>>, temps |-> 0]
     ELSE [code |-> Link(Bind(cg, ReturnLabel)), temps |-> cg.num_temporaries]

(***************************************************************************)
(* The machine. What a function that is called keeps: rax is its result,   *)
(* the other registers of the caller are lost, and rbx with them where     *)
(* compiled code may run, which uses it without saving it.                 *)
(***************************************************************************)
Registers == {"rax", "rbx", "rdi", "rsi", "rdx"}

Init ==
  /\ program \in Programs
  /\ LET compiled == CompileRoot(program)
     IN /\ code = compiled.code
        /\ temps = [t \in 0 .. compiled.temps - 1 |-> Garbage]
  /\ pc = 1
  /\ regs = [r \in Registers |-> IF r = "rax" THEN NULL ELSE Garbage]
  /\ zero = FALSE
  /\ arguments = <<>> /\ events = <<>> /\ results = <<>>

Running(ops) == pc \in DOMAIN code /\ code[pc].op \in ops
Halted == pc = Len(code) + 1

\* The inlined snow_eval_truth: w & ~6, then SN_TRUE itself, then zero.
TruthWord(w) ==
  LET masked == 8 * (w \div 8) + (w % 2)
  IN IF masked # 0 THEN masked ELSE IF w = SN_TRUE THEN w ELSE 0

MoveOps == {"imm", "mov", "load", "truth"}

Move ==
  /\ Running(MoveOps)
  /\ LET i == code[pc]
     IN regs' = CASE i.op = "imm" -> [regs EXCEPT ![i.b] = i.a]
                  [] i.op = "mov" -> [regs EXCEPT ![i.b] = regs[i.a]]
                  [] i.op = "load" -> [regs EXCEPT ![i.a] = temps[i.b]]
                  [] i.op = "truth" -> [regs EXCEPT !["rax"] = TruthWord(regs["rdi"])]
  /\ pc' = pc + 1
  /\ UNCHANGED <<program, code, zero, temps, arguments, events, results>>

SaveTemporary ==
  /\ Running({"save"})
  /\ temps' = [temps EXCEPT ![code[pc].b] = regs[code[pc].a]]
  /\ pc' = pc + 1
  /\ UNCHANGED <<program, code, regs, zero, arguments, events, results>>

Compare ==
  /\ Running({"cmp", "cmp_zero"})
  /\ LET i == code[pc]
     IN zero' = (regs[i.a] = IF i.op = "cmp" THEN regs[i.b] ELSE 0)
  /\ pc' = pc + 1
  /\ UNCHANGED <<program, code, regs, temps, arguments, events, results>>

Jump ==
  /\ Running(Jumps)
  /\ LET i == code[pc]
         taken == i.op = "jmp" \/ (i.op = "j_zero") = zero
     IN pc' = pc + 1 + (IF taken THEN i.b ELSE 0)
  /\ UNCHANGED <<program, code, regs, zero, temps, arguments, events, results>>

(***************************************************************************)
(* Calls into the runtime. An event is what the rest of the runtime sees   *)
(* of one: the function and its arguments.                                 *)
(***************************************************************************)
Asking == {"get_local", "get_member_with_fallback", "get_member_for_method_call",
           "set_member", "call_with_args", "create_function"}
Telling == {"set_local", "set_object_assigned", "declared_in_context"}
Collecting == {"create_arguments", "arguments_push", "arguments_push_named"}

Calling(functions) == Running({"call"}) /\ code[pc].a \in functions

ArgumentsAt(w) == w - 1000

EventOf(function) ==
  CASE function = "get_local" -> <<function, regs["rdi"]>>
    [] function = "create_function" -> <<function>>
    [] function = "declared_in_context" -> <<function, regs["rdi"]>>
    [] function \in {"get_member_with_fallback", "get_member_for_method_call"} ->
         <<function, regs["rdi"], regs["rsi"]>>
    [] function = "set_local" -> <<function, regs["rsi"], regs["rdx"]>>
    [] function \in {"set_member", "set_object_assigned"} ->
         <<function, regs["rdi"], regs["rsi"], regs["rdx"]>>
    [] function = "call_with_args" ->
         <<function, regs["rdi"], regs["rsi"],
           IF regs["rdx"] = NULL THEN <<>> ELSE arguments[ArgumentsAt(regs["rdx"])]>>

After(rax, rbx) ==
  [r \in Registers |-> IF r = "rax" THEN rax ELSE IF r = "rbx" THEN rbx ELSE Garbage]

\* A call whose result only the rest of the program knows.
CallAsking ==
  /\ Calling(Asking)
  /\ Len(results) < MaxCalls
  /\ events' = Append(events, EventOf(code[pc].a))
  /\ \E w \in Words :
       /\ results' = Append(results, w)
       /\ regs' = After(w, Garbage)
  /\ pc' = pc + 1
  /\ UNCHANGED <<program, code, zero, temps, arguments>>

\* snow_array_set, snow_set_global and snow_set_object_assigned return the value.
CallTelling ==
  /\ Calling(Telling)
  /\ LET function == code[pc].a
     IN /\ events' = Append(events, EventOf(function))
        /\ regs' = CASE function = "set_local" -> After(regs["rdx"], regs["rbx"])
                     [] function = "set_object_assigned" -> After(regs["rdi"], Garbage)
                     [] function = "declared_in_context" -> After(Garbage, regs["rbx"])
  /\ pc' = pc + 1
  /\ UNCHANGED <<program, code, zero, temps, arguments, results>>

\* Each SnArguments is an address of its own.
CallCollecting ==
  /\ Calling(Collecting)
  /\ LET function == code[pc].a
         index == ArgumentsAt(regs["rdi"])
     IN CASE function = "create_arguments" ->
               /\ arguments' = Append(arguments, <<>>)
               /\ regs' = After(1000 + Len(arguments) + 1, regs["rbx"])
          [] function = "arguments_push" ->
               /\ arguments' = [arguments EXCEPT ![index] = Append(@, <<None, regs["rsi"]>>)]
               /\ regs' = After(Garbage, regs["rbx"])
          [] function = "arguments_push_named" ->
               /\ arguments' = [arguments EXCEPT
                                  ![index] = Append(@, <<regs["rsi"], regs["rdx"]>>)]
               /\ regs' = After(Garbage, regs["rbx"])
  /\ pc' = pc + 1
  /\ UNCHANGED <<program, code, zero, temps, events, results>>

Next ==
  \/ Move
  \/ SaveTemporary
  \/ Compare
  \/ Jump
  \/ CallAsking
  \/ CallTelling
  \/ CallCollecting

Spec == Init /\ [][Next]_vars
====
