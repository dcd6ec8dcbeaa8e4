---------------------------- MODULE CompiledText ----------------------------
(***************************************************************************)
(* What the text of a function means: its tree walked from left to right,  *)
(* each subtree evaluated once and in its place, without registers,        *)
(* temporaries or labels. CompiledCode is held against it.                 *)
(***************************************************************************)
EXTENDS CompiledCode

\* A walk: the results not yet used, what it asked and told, where it stands.
Start == [left |-> results, events |-> <<>>, status |-> "going", value |-> NULL]

Tell(s, event) == [s EXCEPT !.events = Append(@, event)]
With(s, value) == [s EXCEPT !.value = value]
Going(s) == s.status = "going"

Ask(s, event) ==
  IF s.left = <<>> THEN [Tell(s, event) EXCEPT !.status = "waiting"]
  ELSE [Tell(s, event) EXCEPT !.left = Tail(@), !.value = Head(s.left)]

RECURSIVE Walk(_, _), WalkLoop(_, _)

\* The value of an expression, then what F makes of it.
Then(s, F(_)) == IF Going(s) THEN F(s) ELSE s

WalkLoop(s, node) ==
  Then(Walk(s, node.cond),
       LAMBDA c : IF EvalTruth(c.value)
                  THEN Then(Walk(c, node.body), LAMBDA b : WalkLoop(b, node))
                  ELSE With(c, NULL))

WalkArgument(acc, arg) ==
  LET named == arg.type = "local_assignment"
      s == Walk(acc.s, IF named THEN arg.value ELSE arg)
  IN IF ~Going(acc.s) THEN acc
     ELSE [s |-> s, list |-> Append(acc.list, <<IF named THEN arg.name ELSE None, s.value>>)]

\* The object a function is called on and the function, then the call.
WalkCall(s, node) ==
  LET method == node.func.type = "member"
      self == IF method THEN Walk(s, node.func.self) ELSE With(s, NULL)
      callee == Then(self, LAMBDA t :
                  IF method THEN Ask(t, <<"get_member_for_method_call", t.value, node.func.name>>)
                  ELSE Walk(t, node.func))
      args == IF node.args = None THEN <<>> ELSE node.args
      walked == FoldLeft(WalkArgument, [s |-> callee, list |-> <<>>], args)
  IN Then(walked.s, LAMBDA t :
       Ask(t, <<"call_with_args", self.value, callee.value, walked.list>>))

\* What an xor compares: not whether two words are true, as the comment in the
\* code says, but what the truth test leaves of them. Of two true words that
\* differ in more than the bits it masks, the xor is the left one.
SameTruth(l, r) == TruthWord(l) = TruthWord(r)

WalkMemberAssignment(s, node) ==
  LET self == Walk(s, node.self)
      value == Then(self, LAMBDA t : Walk(t, node.value))
      set == Then(value, LAMBDA t : Ask(t, <<"set_member", self.value, node.name, t.value>>))
  IN Then(set, LAMBDA t :
       Tell(t, <<"set_object_assigned", t.value, node.name, self.value>>))

Walk(s, node) ==
  IF ~Going(s) THEN s
  ELSE CASE node.type = "literal" -> With(s, node.word)
         [] node.type = "self" -> With(s, Self)
         [] node.type = "sequence" -> FoldLeft(Walk, s, node.nodes)
         [] node.type = "function" ->
              Then(Ask(s, <<"create_function">>),
                   LAMBDA t : Tell(t, <<"declared_in_context", t.value>>))
         [] node.type = "return" ->
              Then(IF node.value = None THEN With(s, SN_NIL) ELSE Walk(s, node.value),
                   LAMBDA t : [t EXCEPT !.status = "returned"])
         [] node.type = "local" -> Ask(s, <<"get_local", node.name>>)
         [] node.type = "local_assignment" ->
              Then(Walk(s, node.value), LAMBDA t :
                Tell(Tell(t, <<"set_local", node.name, t.value>>),
                     <<"set_object_assigned", t.value, node.name, NULL>>))
         [] node.type = "member" ->
              Then(Walk(s, node.self), LAMBDA t :
                Ask(t, <<"get_member_with_fallback", t.value, node.name>>))
         [] node.type = "member_assignment" -> WalkMemberAssignment(s, node)
         [] node.type = "call" -> WalkCall(s, node)
         [] node.type = "loop" -> WalkLoop(s, node)
         [] node.type = "if_else" ->
              Then(Walk(s, node.cond), LAMBDA c :
                IF EvalTruth(c.value) THEN Walk(c, node.body)
                ELSE IF node.else = None THEN With(c, NULL) ELSE Walk(c, node.else))
         [] node.type = "and" ->
              Then(Walk(s, node.left), LAMBDA l :
                IF EvalTruth(l.value) THEN Walk(l, node.right) ELSE l)
         [] node.type = "or" ->
              Then(Walk(s, node.left), LAMBDA l :
                IF EvalTruth(l.value) THEN l ELSE Walk(l, node.right))
         [] node.type = "xor" ->
              LET left == Walk(s, node.left)
              IN Then(Then(left, LAMBDA l : Walk(l, node.right)), LAMBDA r :
                   CASE SameTruth(left.value, r.value) -> With(r, SN_FALSE)
                     [] ~SameTruth(left.value, r.value) /\ EvalTruth(left.value) ->
                          With(r, left.value)
                     [] OTHER -> r)
         [] node.type = "not" ->
              Then(Walk(s, node.value), LAMBDA t :
                With(t, IF EvalTruth(t.value) THEN SN_FALSE ELSE SN_TRUE))

(***************************************************************************)
(* At every call the code makes into the runtime, and at its end, the walk *)
(* has made the same calls with the same arguments in the same order, and  *)
(* waits for, or ends with, the same result: no temporary is taken twice,  *)
(* no label is linked to the wrong place, no operand is evaluated too      *)
(* often or too late, and no register is expected to survive a call.       *)
(***************************************************************************)
CompiledCodeMeansItsText ==
  /\ code # <<>>
  /\ Calling(Asking) =>
       LET s == Walk(Start, program)
       IN s.status = "waiting" /\ s.events = Append(events, EventOf(code[pc].a))
  /\ Halted =>
       LET s == Walk(Start, program)
       IN s.status # "waiting" /\ s.events = events /\ s.value = regs["rax"]
=============================================================================
