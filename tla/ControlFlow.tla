---------------------------- MODULE ControlFlow ----------------------------
(***************************************************************************)
(* Jumps, scopes and errors in the tree-walking evaluator                  *)
(* (src/metel-interpreter/src/evaluator/mod.rs and call.rs).               *)
(*                                                                         *)
(* eval_expr and its relatives call each other along the syntax tree, and  *)
(* every call returns a Signal: a value, or a return, break or continue    *)
(* on its way to the construct it belongs to.  `frames` makes that         *)
(* recursion explicit: one frame per construct in progress, with the       *)
(* position in it that is being evaluated.  What a position does with a    *)
(* signal that is not a value is the subject: it may pass it on, handle    *)
(* it, drop it, or unwrap it with Signal::into_value, which panics.        *)
(*                                                                         *)
(* Values are left out: which branch is taken, whether a loop goes on and  *)
(* whether an operation fails are choices.  Bodies of generic functions    *)
(* are run by a second copy of the evaluator on the untyped tree; a frame  *)
(* says which copy runs it.  Only errors that end a program with a stack   *)
(* trace are raised (MetelError::panic).                                   *)
(***************************************************************************)
EXTENDS Naturals, Sequences, FiniteSets, SequencesExt

CONSTANT MaxFrames  \* bound: constructs in progress at a time

ASSUME MaxFramesAssumption == MaxFrames \in Nat \ {0}

VARIABLES
  frames,      \* constructs in progress, innermost last
  signal,      \* what the innermost one just got, or that it evaluates
  depth,       \* scopes pushed on the environment of the running function
  call_stack,  \* CALL_STACK: which frames are calls
  error_stack, \* the stack attached to the error
  outcome,     \* how the program ended
  jump         \* history: where the jump or error in progress was raised

vars == <<frames, signal, depth, call_stack, error_stack, outcome, jump>>

Jumps == {"return", "break", "continue"}
Signals == Jumps \cup {"eval", "value", "error"}

----------------------------------------------------------------------------
(* What each position of a construct does with a jump: the typed           *)
(* evaluator, in the order of its match.                                   *)

Join(f, g) ==
  [p \in DOMAIN f \cup DOMAIN g |-> IF p \in DOMAIN f THEN f[p] ELSE g[p]]

typed_statements ==
  [return_value |-> "unwrap", break_value |-> "unwrap",
   while_condition |-> "pass", while_body |-> "loop",
   for_init |-> "unwrap", for_init_expr |-> "drop",
   for_condition |-> "pass", for_body |-> "loop", for_step |-> "drop",
   iterable |-> "unwrap"]

typed_for_in ==
  [forin_body |-> "loop", next |-> "unwrap", iterator_body |-> "loop"]

typed_operators == [operand |-> "unwrap", right_operand |-> "pass"]

typed_branches ==
  [if_condition |-> "pass", branch |-> "pass", loop_body |-> "loop",
   scrutinee |-> "unwrap", guard |-> "unwrap", arm |-> "pass"]

typed_stores == [stored |-> "unwrap"]

typed_calls == [argument |-> "unwrap"]

typed ==
  Join(Join(typed_statements, Join(typed_for_in, typed_operators)),
       Join(typed_branches, Join(typed_stores, typed_calls)))

(* The untyped evaluator; for-in has no user iterators there.              *)

untyped_statements ==
  [return_value |-> "unwrap", break_value |-> "unwrap",
   while_condition |-> "pass", while_body |-> "loop",
   for_init |-> "unwrap", for_init_expr |-> "drop",
   for_condition |-> "pass", for_body |-> "loop", for_step |-> "drop",
   iterable |-> "unwrap", forin_body |-> "loop"]

untyped_operators == [operand |-> "unwrap", right_operand |-> "pass"]

\* Fault: a jump of an arm is unwrapped.
untyped_branches_unwrap ==
  [if_condition |-> "pass", branch |-> "pass", loop_body |-> "loop",
   scrutinee |-> "unwrap", guard |-> "unwrap", arm |-> "unwrap"]

untyped_branches ==
  [if_condition |-> "pass", branch |-> "pass", loop_body |-> "loop",
   scrutinee |-> "unwrap", guard |-> "unwrap", arm |-> "pass"]

untyped_stores == [stored |-> "unwrap"]

untyped_calls == [argument |-> "unwrap"]

untyped ==
  Join(Join(untyped_statements, untyped_operators),
       Join(untyped_branches, Join(untyped_stores, untyped_calls)))

Calls == {"call", "next_call"}
Functions == Calls \cup {"main"}
LoopBodies == {"loop_body", "while_body", "for_body", "forin_body",
               "iterator_body"}
\* positions whose evaluation is an eval_block
Blocks == LoopBodies \cup Functions \cup {"branch", "arm"}
\* positions where a statement may stand
StatementLists == Blocks \cup {"global"}
Positions == DOMAIN typed \cup StatementLists

Modes == {"typed", "untyped"}

(* handling is only asked of positions that their evaluator has.           *)
handling(f) == IF f.mode = "typed" THEN typed[f.at] ELSE untyped[f.at]

----------------------------------------------------------------------------
(* Frames.  A call keeps the depth of its caller, whose environment is     *)
(* another one; in the other frames `saved` is history: the depth at which *)
(* the construct was begun.                                                *)

Frame == [at : Positions, mode : Modes, saved : Nat]

Top == Last(frames)
Within(p) == [at |-> p, mode |-> Top.mode, saved |-> depth]
AtTop(p) == Append(Front(frames), [Top EXCEPT !.at = p])
CalleeFrame(p, mode) == [at |-> p, mode |-> mode, saved |-> depth]

Running == outcome = "running" /\ frames # <<>>
Evaluates(ps) == Running /\ signal = "eval" /\ Top.at \in ps
Gets(ps, signals) == Running /\ Top.at \in ps /\ signal \in signals
Room == Len(frames) < MaxFrames

(* The history variable: where a jump belongs to, which is the innermost   *)
(* function for return and the innermost loop body of this function for    *)
(* break and continue (0 if there is none), and whether its way there is   *)
(* clear of the positions where docs/evaluator.md has no jump come from;   *)
(* and the calls in progress at an error.                                  *)

NeedsValue == {"operand", "stored", "argument", "scrutinee", "guard",
               "return_value", "break_value", "for_init", "for_init_expr",
               "for_step", "iterable", "next"}

NoJump == [home |-> 0, clear |-> FALSE, calls |-> {}]

CallsIn(fs) == {i \in DOMAIN fs : fs[i].at \in Calls}

Home(kind, fs) ==
  LET homes == {i \in DOMAIN fs :
                  IF kind = "return" THEN fs[i].at \in Functions
                  ELSE /\ fs[i].at \in LoopBodies
                       /\ \A j \in i..Len(fs) : fs[j].at \notin Functions}
  IN CHOOSE i \in homes \cup {0} : \A j \in homes : j <= i

Raised(kind, fs) ==
  IF kind = "error" THEN [NoJump EXCEPT !.calls = CallsIn(frames)]
  ELSE LET home == Home(kind, fs)
       IN [NoJump EXCEPT
             !.home = home,
             !.clear = home > 0 /\ \A i \in home + 1..Len(fs) :
                                     fs[i].at \notin NeedsValue]

(* Every step sets the frames, the signal they get and the depth.          *)
Becomes(fs, sig, d) ==
  /\ frames' = fs
  /\ signal' = sig
  /\ depth' = d
  /\ jump' = IF sig \in {"eval", "value"} THEN NoJump
             ELSE IF sig = signal THEN jump ELSE Raised(sig, fs)

Keep == UNCHANGED <<call_stack, error_stack, outcome>>

Enter(p, pushed) ==
  Room /\ Becomes(Append(frames, Within(p)), "eval", depth + pushed) /\ Keep
MoveTo(p, d) == Becomes(AtTop(p), "eval", d) /\ Keep
Leave(sig, popped) == Becomes(Front(frames), sig, depth - popped) /\ Keep

----------------------------------------------------------------------------
(* A program: the declarations of the module, then the body of main, which *)
(* is not entered by a call.                                               *)

Global == [at |-> "global", mode |-> "typed", saved |-> 0]

Init ==
  /\ frames = <<Global>>
  /\ signal = "eval"
  /\ depth = 0
  /\ call_stack = <<>>
  /\ error_stack = <<>>
  /\ outcome = "running"
  /\ jump = NoJump

\* run_passes: `eval_decl(decl, env)?;` looks at errors only
GlobalDropsJump ==
  Gets({"global"}, Jumps) /\ Becomes(frames, "value", depth) /\ Keep

RunMain(mode) ==
  /\ Gets({"global"}, {"value"})
  /\ Becomes(<<[at |-> "main", mode |-> mode, saved |-> 0]>>, "eval", 1)
  /\ Keep

MainEnds ==
  /\ Gets({"main"}, Signals \ {"eval"})
  /\ frames' = <<>>
  /\ depth' = 0
  /\ outcome' = CASE signal \in {"value", "return"} -> "ok"
                  [] signal \in {"break", "continue"} -> "internal"
                  [] OTHER -> "error"
  /\ jump' = IF outcome' = "ok" THEN NoJump ELSE jump
  /\ UNCHANGED <<signal, call_stack, error_stack>>

GlobalFails ==
  /\ Gets({"global"}, {"error"})
  /\ outcome' = "error"
  /\ UNCHANGED <<frames, signal, depth, call_stack, error_stack, jump>>

(* Blocks and leaves.                                                      *)

\* literals, names, closures, declarations without a value
Produce == Evaluates(Positions) /\ Becomes(frames, "value", depth) /\ Keep

\* an undefined variable, an index out of bounds
Fail == Evaluates(Positions) /\ Becomes(frames, "error", depth) /\ Keep

NextStatement ==
  Gets(StatementLists, {"value"}) /\ Becomes(frames, "eval", depth) /\ Keep

Jump ==
  /\ Evaluates(StatementLists)
  /\ \E kind \in Jumps : Becomes(frames, kind, depth) /\ Keep

JumpWithValue ==
  \/ Evaluates(StatementLists) /\ Enter("return_value", 0)
  \/ Evaluates(StatementLists) /\ Enter("break_value", 0)
  \/ Gets({"return_value"}, {"value"}) /\ Leave("return", 0)
  \/ Gets({"break_value"}, {"value"}) /\ Leave("break", 0)

(* Operators, literals of compound values, assignments.                    *)

Operate ==
  \/ \E p \in {"operand", "stored"} :
       \/ Evaluates(Positions) /\ Enter(p, 0)
       \/ Gets({p}, {"value"}) /\ Leave("value", 0)
  \/ Gets({"operand", "stored", "argument"}, {"value"})
       /\ Becomes(frames, "eval", depth) /\ Keep

ShortCircuit ==
  \/ Gets({"operand"}, {"value"}) /\ MoveTo("right_operand", depth)
  \/ Gets({"right_operand"}, {"value"}) /\ Leave("value", 0)

(* if, loop and match.                                                     *)

If ==
  \/ Evaluates(Positions) /\ Enter("if_condition", 0)
  \/ Gets({"if_condition"}, {"value"}) /\ MoveTo("branch", depth + 1)
  \/ Gets({"if_condition"}, {"value"}) /\ Leave("value", 0)
  \/ Gets({"branch"}, {"value"}) /\ Leave("value", 1)

\* eval_block pops the scope of an iteration, the next one pushes its own
Loop ==
  \/ Evaluates(Positions) /\ Enter("loop_body", 1)
  \/ Gets({"loop_body"}, {"value", "continue"}) /\ MoveTo("loop_body", depth)

Match ==
  \/ Evaluates(Positions) /\ Enter("scrutinee", 0)
  \/ Gets({"scrutinee"}, {"value"}) /\ MoveTo("guard", depth + 1)
  \/ Gets({"scrutinee"}, {"value"}) /\ MoveTo("arm", depth + 2)
  \/ Gets({"guard"}, {"value"}) /\ MoveTo("guard", depth)
  \/ Gets({"guard"}, {"value"}) /\ MoveTo("arm", depth - 1 + 2)
  \/ Gets({"arm"}, {"value"}) /\ Leave("value", 2)

NoArmMatches ==
  \/ Gets({"scrutinee"}, {"value"}) /\ Leave("error", 0)
  \/ Gets({"guard"}, {"value"}) /\ Leave("error", 1)

(* e? is a match on e whose second arm returns the error.                  *)
PropagateError ==
  /\ Gets({"scrutinee"}, {"value"})
  /\ Becomes(AtTop("arm"), "return", depth + 2)
  /\ Keep

----------------------------------------------------------------------------
(* Loops that are statements.                                              *)

While ==
  \/ Evaluates(StatementLists) /\ Enter("while_condition", 0)
  \/ Gets({"while_condition"}, {"value"}) /\ MoveTo("while_body", depth + 1)
  \/ Gets({"while_condition"}, {"value"}) /\ Leave("value", 0)
  \/ Gets({"while_body"}, {"value", "continue"})
       /\ MoveTo("while_condition", depth - 1)

\* one scope for the initialiser's variable, one for the body
For ==
  \/ /\ Evaluates(StatementLists)
     /\ \/ \E p \in {"for_init", "for_init_expr", "for_condition"} :
             Enter(p, 1)
        \/ Enter("for_body", 2)
  \/ /\ Gets({"for_init", "for_init_expr", "for_step"}, {"value"})
     /\ MoveTo("for_condition", depth) \/ MoveTo("for_body", depth + 1)
  \/ Gets({"for_condition"}, {"value"}) /\ MoveTo("for_body", depth + 1)
  \/ Gets({"for_condition"}, {"value"}) /\ Leave("value", 1)
  \/ /\ Gets({"for_body"}, {"value", "continue"})
     /\ \/ \E p \in {"for_step", "for_condition"} : MoveTo(p, depth - 1)
        \/ MoveTo("for_body", depth)

\* one scope for the loop variable, one for the body, in every iteration
ForIn ==
  \/ Evaluates(StatementLists) /\ Enter("iterable", 0)
  \/ Gets({"iterable"}, {"value"}) /\ MoveTo("forin_body", depth + 2)
  \/ Gets({"iterable"}, {"value"}) /\ Leave("value", 0)
  \/ Gets({"forin_body"}, {"value", "continue"}) /\ MoveTo("forin_body", depth)
  \/ Gets({"forin_body"}, {"value", "continue"}) /\ Leave("value", 2)

UntypedIterator ==
  /\ Gets({"iterable"}, {"value"})
  /\ Top.mode = "untyped"
  /\ Leave("error", 0)

CallNext(popped, mode) ==
  /\ Room
  /\ Becomes(Append(AtTop("next"),
                    [CalleeFrame("next_call", mode) EXCEPT
                       !.saved = depth - popped]), "eval", 2)
  /\ call_stack' = Append(call_stack, Len(frames) + 1)
  /\ UNCHANGED <<error_stack, outcome>>

Iterate(mode) ==
  \/ Gets({"iterable"}, {"value"}) /\ Top.mode = "typed" /\ CallNext(0, mode)
  \/ Gets({"next"}, {"value"}) /\ MoveTo("iterator_body", depth + 2)
  \/ Gets({"next"}, {"value"}) /\ Leave("value", 0)
  \/ Gets({"iterator_body"}, {"value", "continue"}) /\ CallNext(2, mode)

(* Calls.  The callee's environment starts with the scope of the           *)
(* parameters and that of the body.                                        *)

Call(mode) ==
  \/ Evaluates(Positions) /\ Enter("argument", 0)
  \/ /\ Gets({"argument"}, {"value"})
     /\ Becomes(Append(Front(frames), CalleeFrame("call", mode)), "eval", 2)
     /\ call_stack' = Append(call_stack, Len(frames))
     /\ UNCHANGED <<error_stack, outcome>>

\* Fault: every call on the way out takes the stack anew.
with_last_stack(stack) == stack

with_stack(stack) == IF error_stack = <<>> THEN stack ELSE error_stack

\* a builtin, or a callee that is not a function
CallBuiltin ==
  \/ Gets({"argument"}, {"value"}) /\ Leave("value", 0)
  \/ /\ Gets({"argument"}, {"value"})
     /\ Becomes(Front(frames), "error", depth)
     /\ error_stack' = with_stack(call_stack)
     /\ UNCHANGED <<call_stack, outcome>>

\* Fault: `result?` comes before pop_frame.
EndsEarly ==
  /\ Becomes(Front(frames), IF signal = "return" THEN "value" ELSE signal,
             Top.saved)
  /\ error_stack' = IF signal = "error" THEN with_stack(call_stack)
                    ELSE error_stack
  /\ call_stack' = IF signal = "error" THEN call_stack ELSE Front(call_stack)
  /\ UNCHANGED outcome

Ends ==
  /\ Becomes(Front(frames), IF signal = "return" THEN "value" ELSE signal,
             Top.saved)
  /\ error_stack' = IF signal = "error" THEN with_stack(call_stack)
                    ELSE error_stack
  /\ call_stack' = Front(call_stack)
  /\ UNCHANGED outcome

call_function == Gets({"call"}, Signals \ {"eval"}) /\ Ends

call_function_mut_self == Gets({"next_call"}, Signals \ {"eval"}) /\ Ends

----------------------------------------------------------------------------
(* What becomes of jumps and errors elsewhere.                             *)

Handles(how) ==
  Running /\ signal \in Jumps /\ Top.at \in DOMAIN typed /\ handling(Top) = how

\* Fault: the scope around the position of a loop is forgotten.
scopes_of_bodies(p) ==
  IF p \in {"branch", "arm", "for_condition"} \cup LoopBodies THEN 1 ELSE 0

\* scopes of a construct whose position passes a jump on or is a loop body
scopes_of(p) ==
  CASE p \in {"branch", "for_condition", "loop_body", "while_body"} -> 1
    [] p \in {"arm", "for_body", "forin_body", "iterator_body"} -> 2
    [] OTHER -> 0

into_value ==
  /\ Handles("unwrap")
  /\ outcome' = "crash"
  /\ UNCHANGED <<frames, signal, depth, call_stack, error_stack, jump>>

DropJump == Handles("drop") /\ Becomes(frames, "value", depth) /\ Keep

PassJump == Handles("pass") /\ Leave(signal, scopes_of(Top.at))

LoopPassesReturn ==
  Handles("loop") /\ signal = "return" /\ Leave("return", scopes_of(Top.at))

\* Fault: a loop passes break on.
BreakPasses ==
  Handles("loop") /\ signal = "break" /\ Leave("break", scopes_of(Top.at))

BreakLoop ==
  Handles("loop") /\ signal = "break" /\ Leave("value", scopes_of(Top.at))

\* `?` on a result skips the pops that follow it; a tail of a block and the
\* body of an arm are looked at after the pop
unwound(p) == IF p = "arm" THEN 1..2 ELSE IF p \in Blocks THEN 0..1 ELSE {0}

PassError ==
  /\ Running /\ signal = "error" /\ Top.at \in DOMAIN typed
  /\ \E popped \in unwound(Top.at) : Leave("error", popped)

Ended == outcome # "running" /\ UNCHANGED vars

Next ==
  \/ GlobalDropsJump \/ GlobalFails \/ MainEnds
  \/ Produce \/ Fail \/ NextStatement \/ Jump \/ JumpWithValue
  \/ Operate \/ ShortCircuit
  \/ If \/ Loop \/ Match \/ NoArmMatches \/ PropagateError
  \/ While \/ For \/ ForIn \/ UntypedIterator
  \/ \E mode \in Modes : RunMain(mode) \/ Iterate(mode) \/ Call(mode)
  \/ CallBuiltin \/ call_function \/ call_function_mut_self
  \/ into_value \/ DropJump \/ PassJump \/ LoopPassesReturn \/ BreakLoop
  \/ PassError \/ Ended

Spec == Init /\ [][Next]_vars

----------------------------------------------------------------------------
(* Types of the variables.                                                 *)
TypeOK ==
  /\ frames \in Seq(Frame) /\ Len(frames) <= MaxFrames
  /\ signal \in Signals
  /\ depth \in Nat
  /\ call_stack \in Seq(1..MaxFrames) /\ error_stack \in Seq(1..MaxFrames)
  /\ outcome \in {"running", "ok", "error", "internal", "crash"}
  /\ jump \in [home : 0..MaxFrames, clear : BOOLEAN, calls : SUBSET (1..MaxFrames)]

(* Scopes are balanced on every way out of a block, a loop, an arm and a   *)
(* call, jumps included: the environment of the running function has as    *)
(* many scopes as its constructs in progress own.  A missing pop_scope     *)
(* would let later code see, or shadow, the variables of a finished block; *)
(* one too many would lose live ones (eval_block, eval_stmt, eval_for_in). *)
Owned(p) ==
  CASE p \in {"guard", "branch", "loop_body", "while_body", "for_init",
              "for_init_expr", "for_condition", "for_step", "main"} -> 1
    [] p \in Calls \cup {"arm", "for_body", "forin_body", "iterator_body"} -> 2
    [] OTHER -> 0

\* the scopes of a function after the construct in frame i has pushed its own
ScopesUpTo(fs, i) ==
  IF i = 0 THEN 0
  ELSE IF fs[i].at \in Functions THEN Owned(fs[i].at)
  ELSE fs[i].saved + Owned(fs[i].at)

ScopesBalanced ==
  /\ signal # "error" => depth = ScopesUpTo(frames, Len(frames))
  /\ \A i \in DOMAIN frames : frames[i].saved = ScopesUpTo(frames, i - 1)

(* CALL_STACK lists the calls in progress, whatever ended the others:      *)
(* push_frame and pop_frame pair up on every way out of a call.            *)
Lists(stack, calls) ==
  /\ Range(stack) = calls
  /\ \A j, k \in DOMAIN stack : j < k => stack[j] < stack[k]

StackMatchesCalls == Lists(call_stack, CallsIn(frames))

(* The stack trace of an error is the calls that were in progress where it *)
(* was raised, however many calls it passed since (attach_stack before     *)
(* pop_frame, with_stack keeps the first).                                 *)
ErrorNamesItsCalls ==
  outcome = "error" => Lists(error_stack, jump.calls)

(* A jump with a clear way ends in its own construct: a return ends the    *)
(* innermost function, a break its loop, a continue only the iteration,    *)
(* and the constructs around are as they were when it was raised           *)
(* (eval_block, the loops, call_function).                                 *)
JumpsLand ==
  [][jump.clear /\ ~jump'.clear =>
       /\ Len(frames) = jump.home
       /\ Len(frames') >= jump.home - 1
       /\ SubSeq(frames', 1, jump.home - 1) = Front(frames)
       /\ signal \in {"return", "break"} => Len(frames') = jump.home - 1
       /\ signal = "continue" =>
            Len(frames') >= jump.home \/ Top.at = "forin_body"]_vars

(* Jumps break a program only where they are unwrapped, or where there is  *)
(* nothing they belong to: never on a clear way home.                      *)
OnlyBlockedJumpsFail ==
  outcome \in {"crash", "internal"} => signal \in Jumps /\ ~jump.clear

(* docs/evaluator.md:84 says that into_value "is used at call sites where  *)
(* the typechecker guarantees the expression cannot diverge (e.g.,         *)
(* function arguments, struct field expressions)"; the checker accepts     *)
(* f(g()?) and Pair { a: if c { return 0; } else { 2 } }.                  *)
ArgumentsDoNotDiverge ==
  outcome = "crash" => Top.at \notin {"argument", "stored"}

(* ADR-0006:84 says that illegal signals such as a break outside a loop    *)
(* are "already rejected by the type checker": a break would never leave   *)
(* its function.  infer_stmt accepts it anywhere.                          *)
JumpsStayInTheirFunction ==
  [][Len(call_stack') < Len(call_stack) => signal' \notin Jumps]_vars

(* docs/public/spec/functions.md:70 has e? return from the function; the   *)
(* init and step expressions of a for loop drop the return.                *)
ReturnsAreNotDropped ==
  [][signal = "return" /\ signal' = "value" => Len(frames') < Len(frames)]_vars
============================================================================
