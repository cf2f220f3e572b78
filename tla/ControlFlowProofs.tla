-------------------------- MODULE ControlFlowProofs --------------------------
(***************************************************************************)
(* What holds of jumps, scopes and the call stack however deep a program   *)
(* nests: the invariants of ControlFlow for every MaxFrames.               *)
(*                                                                         *)
(* The thirty actions of the evaluator change its stack of constructs in   *)
(* few ways: a step stays in the innermost construct, begins one in it,    *)
(* moves on to its next position, leaves it, or begins or ends a call.     *)
(* StepKinds says so, with all that a step of each kind may do to the      *)
(* signal and the scopes; the invariants are proved of these kinds.        *)
(***************************************************************************)
EXTENDS ControlFlow, SequenceFacts

------------------------------------------------------------------------------
(* The tables.                                                             *)

Inner == DOMAIN typed

\* The positions of the typed evaluator.
LEMMA TypedPositions ==
  Inner =
    {"return_value", "break_value", "while_condition", "while_body", "for_init",
     "for_init_expr", "for_condition", "for_body", "for_step", "iterable",
     "forin_body", "next", "iterator_body", "operand", "right_operand",
     "if_condition", "branch", "loop_body", "scrutinee", "guard", "arm",
     "stored", "argument"}
BY DEF Inner, typed, Join, typed_statements, typed_for_in, typed_operators, typed_branches,
       typed_stores, typed_calls

\* What is unwrapped or dropped needs a value; what handles loops is a loop.
LEMMA TypedHandling ==
  ASSUME NEW p \in Inner
  PROVE  /\ typed[p] \in {"unwrap", "drop"} => p \in NeedsValue
         /\ typed[p] = "loop" => p \in LoopBodies
         /\ typed[p] = "pass" => p \notin LoopBodies
BY TypedPositions DEF Inner, typed, Join, typed_statements, typed_for_in, typed_operators,
       typed_branches, typed_stores, typed_calls, NeedsValue, LoopBodies

\* The untyped evaluator has no position for user iterators.
LEMMA UntypedHandling ==
  ASSUME NEW p \in Inner, p \notin {"next", "iterator_body"}
  PROVE  /\ untyped[p] \in {"unwrap", "drop"} => p \in NeedsValue
         /\ untyped[p] = "loop" => p \in LoopBodies
         /\ untyped[p] = "pass" => p \notin LoopBodies
BY TypedPositions DEF untyped, Join, untyped_statements, untyped_operators, untyped_branches,
       untyped_stores, untyped_calls, NeedsValue, LoopBodies

\* Every position is one of a construct, of a function, or the module.
LEMMA PositionFacts ==
  /\ Positions = Inner \cup Functions \cup {"global"}
  /\ Inner \cap (Functions \cup {"global"}) = {}
  /\ LoopBodies \subseteq Inner /\ NeedsValue \subseteq Inner
  /\ NeedsValue \cap LoopBodies = {}
  /\ StatementLists \subseteq Positions
BY TypedPositions DEF Inner, Positions, Functions, Calls, LoopBodies, NeedsValue, StatementLists,
       Blocks

\* The scopes of a position, and how many of them its errors may skip.
LEMMA OwnedFacts ==
  /\ \A p \in Positions : Owned(p) \in 0..2
  /\ \A p \in Calls : Owned(p) = 2
  /\ Owned("global") = 0 /\ Owned("main") = 1
  /\ \A p \in Inner : unwound(p) \subseteq 0..Owned(p)
BY TypedPositions, PositionFacts
   DEF Owned, Calls, LoopBodies, unwound, Blocks, Functions

\* A position whose jumps are passed on, or that is a loop, pops its scopes.
LEMMA PassingOwned ==
  /\ \A p \in LoopBodies : scopes_of(p) = Owned(p)
  /\ \A p \in Inner \ {"next", "iterator_body"} :
       typed[p] = "pass" \/ untyped[p] = "pass" => scopes_of(p) = Owned(p)
  /\ \A p \in {"next", "iterator_body"} : typed[p] # "pass"
BY TypedPositions
   DEF Inner, typed, Join, typed_statements, typed_for_in, typed_operators, typed_branches,
       typed_stores, typed_calls, untyped, untyped_statements, untyped_operators,
       untyped_branches, untyped_stores, untyped_calls, LoopBodies, Owned, scopes_of, Calls

------------------------------------------------------------------------------
(* Types.                                                                  *)

\* The module and main are outermost, and user iterators are typed.
Placed ==
  \A i \in DOMAIN frames :
    /\ (frames[i].at \in {"global", "main"}) <=> (i = 1)
    /\ frames[i].at \in {"next", "iterator_body"} => frames[i].mode = "typed"

\* Where a jump belongs to is a position of the frames it was raised in.
LEMMA HomeFacts ==
  ASSUME NEW S, NEW fs \in Seq(S), NEW kind
  PROVE  LET homes == {i \in DOMAIN fs :
                         IF kind = "return" THEN fs[i].at \in Functions
                         ELSE /\ fs[i].at \in LoopBodies
                              /\ \A j \in i..Len(fs) : fs[j].at \notin Functions}
         IN  /\ Home(kind, fs) \in homes \cup {0}
             /\ \A i \in homes : i <= Home(kind, fs)
<1> DEFINE homes == {i \in DOMAIN fs :
                       IF kind = "return" THEN fs[i].at \in Functions
                       ELSE /\ fs[i].at \in LoopBodies
                            /\ \A j \in i..Len(fs) : fs[j].at \notin Functions}
<1>1. DOMAIN fs = 1..Len(fs) /\ Len(fs) \in Nat
  BY LenProperties
<1>2. homes \subseteq 1..Len(fs)
  BY <1>1
<1>3. \E i \in homes \cup {0} : \A j \in homes : j <= i
  <2>1. CASE homes = {}
    BY <2>1
  <2>2. CASE homes # {}
    <3> HIDE DEF homes
    <3> QED BY <1>1, <1>2, <2>2, NonEmptyHasMax
  <2> QED BY <2>1, <2>2
<1>4. Home(kind, fs) = CHOOSE i \in homes \cup {0} : \A j \in homes : j <= i
  BY DEF Home
<1> HIDE DEF homes
<1>5. Home(kind, fs) \in homes \cup {0} /\ \A i \in homes : i <= Home(kind, fs)
  BY <1>3, <1>4
<1> QED BY <1>5 DEF homes

\* The innermost construct of a program that runs.
LEMMA TopFacts ==
  ASSUME TypeOK, frames # <<>>
  PROVE  /\ Len(frames) \in Nat \ {0} /\ DOMAIN frames = 1..Len(frames)
         /\ Top = frames[Len(frames)]
         /\ \A i \in 1..Len(frames) : frames[i] \in Frame
         /\ Top \in Frame /\ Top.at \in Positions
<1>1. frames \in Seq(Frame)
  BY DEF TypeOK
<1>2. Len(frames) \in Nat \ {0} /\ DOMAIN frames = 1..Len(frames)
  <2>1. frames # <<>> => Len(frames) \in Nat \ {0}
    BY <1>1, EmptySeq
  <2> QED BY <1>1, <2>1, LenProperties
<1>3. \A i \in 1..Len(frames) : frames[i] \in Frame
  BY <1>1, ElementOfSeq
<1>4. Top = frames[Len(frames)]
  BY DEF Top, Last
<1>5. Top \in Frame
  BY <1>2, <1>3, <1>4
<1> QED BY <1>2, <1>3, <1>4, <1>5 DEF Frame

------------------------------------------------------------------------------
(* The kinds of steps.                                                     *)

\* The history variable, in all steps that get a signal.
JumpStep ==
  jump' = IF signal' \in {"eval", "value"} THEN NoJump
          ELSE IF signal' = signal THEN jump ELSE Raised(signal', frames')

\* The innermost construct gets another signal.
Stays ==
  /\ frames' = frames /\ depth' = depth
  /\ \/ signal \in {"eval", "value"}
     \/ signal \in Jumps /\ signal' = "value" /\ Top.at \in NeedsValue \cup {"global"}
  /\ signal' \in Signals
  /\ JumpStep /\ Keep

\* It begins a construct.
Begins(p) ==
  /\ p \in Inner \ {"next", "iterator_body"} /\ Room
  /\ frames' = Append(frames, Within(p)) /\ depth' = depth + Owned(p)
  /\ signal = "eval" /\ signal' = "eval"
  /\ JumpStep /\ Keep

\* It moves on to another position.
Moves(p) ==
  /\ p \in Inner /\ Top.at \in Inner
  /\ p = "iterator_body" => Top.at = "next"
  /\ p # "next"
  /\ frames' = AtTop(p) /\ depth' = depth - Owned(Top.at) + Owned(p)
  /\ signal = "value" \/ (signal = "continue" /\ Top.at \in LoopBodies)
  /\ signal' \in {"eval", "return"}
  /\ JumpStep /\ Keep

\* It ends, with `popped` scopes.
EndsWith(popped) ==
  /\ Top.at \in Inner
  /\ popped \in 0..Owned(Top.at) /\ (signal' # "error" => popped = Owned(Top.at))
  /\ frames' = Front(frames) /\ depth' = depth - popped
  /\ \/ signal = "value" /\ signal' \in {"value", "return", "break", "error"}
     \/ signal = "error" /\ signal' = "error"
     \/ signal \in Jumps /\ signal' = signal /\ (Top.at \in LoopBodies => signal = "return")
     \/ signal = "break" /\ signal' = "value" /\ Top.at \in LoopBodies
     \/ signal = "continue" /\ signal' = "value" /\ Top.at = "forin_body"
  /\ \/ UNCHANGED error_stack
     \/ signal = "value" /\ signal' = "error" /\ error_stack' = with_stack(call_stack)
  /\ JumpStep /\ UNCHANGED <<call_stack, outcome>>

\* Its operands are there: a function is called.
StartsCall(mode) ==
  /\ mode \in Modes /\ Top.at = "argument" /\ signal = "value"
  /\ frames' = Append(Front(frames), CalleeFrame("call", mode))
  /\ signal' = "eval" /\ depth' = 2
  /\ call_stack' = Append(call_stack, Len(frames))
  /\ JumpStep /\ UNCHANGED <<error_stack, outcome>>

\* It asks a user iterator for the next item.
StartsNext(mode) ==
  /\ mode \in Modes /\ Room
  /\ \/ Top.at = "iterable" /\ Top.mode = "typed" /\ signal = "value"
     \/ Top.at = "iterator_body" /\ signal \in {"value", "continue"}
  /\ frames' = Append(AtTop("next"),
                      [CalleeFrame("next_call", mode) EXCEPT !.saved = depth - Owned(Top.at)])
  /\ signal' = "eval" /\ depth' = 2
  /\ call_stack' = Append(call_stack, Len(frames) + 1)
  /\ JumpStep /\ UNCHANGED <<error_stack, outcome>>

EndsCall == Top.at \in Calls /\ signal \in Signals \ {"eval"} /\ Ends

Crashes ==
  /\ signal \in Jumps /\ Top.at \in NeedsValue /\ outcome' = "crash"
  /\ UNCHANGED <<frames, signal, depth, call_stack, error_stack, jump>>

Step ==
  \/ Stays \/ (\E p \in Inner : Begins(p) \/ Moves(p)) \/ (\E popped \in 0..2 : EndsWith(popped))
  \/ (\E mode \in Modes : StartsCall(mode) \/ StartsNext(mode)) \/ EndsCall
  \/ (\E mode \in Modes : RunMain(mode)) \/ MainEnds \/ GlobalFails \/ Crashes

\* Every step of the evaluator is of one of these kinds.
LEMMA StepKinds ==
  ASSUME TypeOK, Placed, Next
  PROVE  (Running /\ Step) \/ UNCHANGED vars
<1> USE TypedPositions, PositionFacts, OwnedFacts
<1> DEFINE Goal == Running /\ Step
<1>0. Running => Top.at \in Positions /\ Top.mode \in Modes
  BY TopFacts DEF Running, Frame
<1>stay. ASSUME NEW sig \in Signals, Running, Becomes(frames, sig, depth), Keep,
              signal \in {"eval", "value"}
              \/ (signal \in Jumps /\ sig = "value" /\ Top.at \in NeedsValue \cup {"global"})
       PROVE  Goal
  BY <1>stay DEF Becomes, Step, Stays, JumpStep
<1>begin. ASSUME NEW p \in Inner \ {"next", "iterator_body"}, Running, signal = "eval",
                 Enter(p, Owned(p))
          PROVE  Goal
  BY <1>begin DEF Enter, Becomes, Step, Begins, JumpStep
<1>move. ASSUME NEW p \in Inner, NEW d, Running, Top.at \in Inner, p # "next",
                p = "iterator_body" => Top.at = "next",
                signal = "value" \/ (signal = "continue" /\ Top.at \in LoopBodies),
                MoveTo(p, d), d = depth - Owned(Top.at) + Owned(p)
         PROVE  Goal
  BY <1>move DEF MoveTo, Becomes, Step, Moves, JumpStep
<1>leave. ASSUME NEW sig \in Signals, NEW popped \in 0..Owned(Top.at), Running, Top.at \in Inner,
                 Leave(sig, popped), sig # "error" => popped = Owned(Top.at),
                 \/ signal = "value" /\ sig \in {"value", "return", "break", "error"}
                 \/ signal = "error" /\ sig = "error"
                 \/ signal \in Jumps /\ sig = signal /\ (Top.at \in LoopBodies => signal = "return")
                 \/ signal = "break" /\ sig = "value" /\ Top.at \in LoopBodies
                 \/ signal = "continue" /\ sig = "value" /\ Top.at = "forin_body"
          PROVE  Goal
  <2>1. EndsWith(popped)
    BY <1>leave DEF Leave, Becomes, EndsWith, JumpStep, Keep
  <2>2. popped \in 0..2
    BY <1>leave
  <2> QED BY <1>leave, <2>1, <2>2 DEF Step
<1> HIDE DEF Goal
<1>run. ASSUME NEW ps, NEW signals, Gets(ps, signals) \/ Evaluates(ps)
        PROVE  Running
  BY <1>run DEF Gets, Evaluates
<1> SUFFICES ASSUME ~UNCHANGED vars PROVE Goal
  BY DEF Goal
<1>1. CASE GlobalDropsJump
  BY <1>1, <1>stay DEF GlobalDropsJump, Gets, Signals
<1>2. CASE \E mode \in Modes : RunMain(mode)
  BY <1>2 DEF RunMain, Gets, Goal, Step
<1>3. CASE MainEnds \/ GlobalFails
  BY <1>3 DEF MainEnds, GlobalFails, Gets, Goal, Step
<1>4. CASE Produce \/ Fail \/ Jump \/ NextStatement
  BY <1>4, <1>stay DEF Produce, Fail, Jump, NextStatement, Gets, Evaluates, Signals, Jumps
<1>5. CASE JumpWithValue
  <2>1. Owned("return_value") = 0 /\ Owned("break_value") = 0
    BY DEF Owned, Calls
  <2>2. CASE Evaluates(StatementLists) /\ (Enter("return_value", 0) \/ Enter("break_value", 0))
    BY <2>1, <2>2, <1>begin DEF Evaluates
  <2>3. CASE Gets({"return_value"}, {"value"}) /\ Leave("return", 0)
    BY <2>1, <2>3, <1>leave DEF Gets, Signals, Jumps
  <2>4. CASE Gets({"break_value"}, {"value"}) /\ Leave("break", 0)
    BY <2>1, <2>4, <1>leave DEF Gets, Signals, Jumps
  <2> QED BY <1>5, <2>2, <2>3, <2>4 DEF JumpWithValue
<1>6. CASE Operate
  <2>1. Owned("operand") = 0 /\ Owned("stored") = 0
    BY DEF Owned, Calls
  <2>2. ASSUME NEW p \in {"operand", "stored"}, Evaluates(Positions), Enter(p, 0)
        PROVE  Goal
    BY <2>1, <2>2, <1>begin DEF Evaluates
  <2>3. ASSUME NEW p \in {"operand", "stored"}, Gets({p}, {"value"}), Leave("value", 0)
        PROVE  Goal
    BY <2>1, <2>3, <1>leave DEF Gets, Signals
  <2>4. CASE /\ Gets({"operand", "stored", "argument"}, {"value"})
             /\ Becomes(frames, "eval", depth) /\ Keep
    BY <2>4, <1>stay DEF Gets, Signals
  <2> QED BY <1>6, <2>2, <2>3, <2>4 DEF Operate
<1>7. CASE ShortCircuit
  <2>1. Owned("operand") = 0 /\ Owned("right_operand") = 0
    BY DEF Owned, Calls
  <2>2. depth = depth - 0 + 0
    BY DEF TypeOK
  <2>3. CASE Gets({"operand"}, {"value"}) /\ MoveTo("right_operand", depth)
    BY <2>1, <2>2, <2>3, <1>move DEF Gets
  <2>4. CASE Gets({"right_operand"}, {"value"}) /\ Leave("value", 0)
    BY <2>1, <2>4, <1>leave DEF Gets, Signals
  <2> QED BY <1>7, <2>3, <2>4 DEF ShortCircuit
<1>d. depth \in Nat
  BY DEF TypeOK
<1>8. CASE If
  <2>1. Owned("if_condition") = 0 /\ Owned("branch") = 1
    BY DEF Owned, Calls
  <2>2. CASE Evaluates(Positions) /\ Enter("if_condition", 0)
    BY <2>1, <2>2, <1>begin DEF Evaluates
  <2>3. CASE Gets({"if_condition"}, {"value"}) /\ MoveTo("branch", depth + 1)
    BY <1>d, <2>1, <2>3, <1>move DEF Gets
  <2>4. CASE Gets({"if_condition"}, {"value"}) /\ Leave("value", 0)
    BY <2>1, <2>4, <1>leave DEF Gets, Signals
  <2>5. CASE Gets({"branch"}, {"value"}) /\ Leave("value", 1)
    BY <2>1, <2>5, <1>leave DEF Gets, Signals
  <2> QED BY <1>8, <2>2, <2>3, <2>4, <2>5 DEF If
<1>9. CASE Loop
  <2>1. Owned("loop_body") = 1
    BY DEF Owned, Calls
  <2>2. CASE Evaluates(Positions) /\ Enter("loop_body", 1)
    BY <2>1, <2>2, <1>begin DEF Evaluates
  <2>3. CASE Gets({"loop_body"}, {"value", "continue"}) /\ MoveTo("loop_body", depth)
    BY <1>d, <2>1, <2>3, <1>move DEF Gets, LoopBodies
  <2> QED BY <1>9, <2>2, <2>3 DEF Loop
<1>10. CASE Match \/ NoArmMatches
  <2>1. Owned("scrutinee") = 0 /\ Owned("guard") = 1 /\ Owned("arm") = 2
    BY DEF Owned, Calls
  <2>2. CASE Evaluates(Positions) /\ Enter("scrutinee", 0)
    BY <2>1, <2>2, <1>begin DEF Evaluates
  <2>3. CASE /\ Gets({"scrutinee"}, {"value"})
             /\ MoveTo("guard", depth + 1) \/ MoveTo("arm", depth + 2)
    BY <1>d, <2>1, <2>3, <1>move DEF Gets
  <2>4. CASE /\ Gets({"guard"}, {"value"})
             /\ MoveTo("guard", depth) \/ MoveTo("arm", depth - 1 + 2)
    BY <1>d, <2>1, <2>4, <1>move DEF Gets
  <2>5. CASE Gets({"arm"}, {"value"}) /\ Leave("value", 2)
    BY <2>1, <2>5, <1>leave DEF Gets, Signals
  <2>6. CASE Gets({"scrutinee"}, {"value"}) /\ Leave("error", 0)
    BY <2>1, <2>6, <1>leave DEF Gets, Signals
  <2>7. CASE Gets({"guard"}, {"value"}) /\ Leave("error", 1)
    BY <2>1, <2>7, <1>leave DEF Gets, Signals
  <2> QED BY <1>10, <2>2, <2>3, <2>4, <2>5, <2>6, <2>7 DEF Match, NoArmMatches
<1>11. CASE PropagateError
  <2>1. Owned("scrutinee") = 0 /\ Owned("arm") = 2
    BY DEF Owned, Calls
  <2>2. Moves("arm")
    BY <1>11, <1>d, <2>1 DEF PropagateError, Gets, Becomes, Moves, JumpStep
  <2> QED BY <1>11, <2>2 DEF Goal, Step, PropagateError, Gets
<1>12. CASE While
  <2>1. Owned("while_condition") = 0 /\ Owned("while_body") = 1
    BY DEF Owned, Calls
  <2>2. CASE Evaluates(StatementLists) /\ Enter("while_condition", 0)
    BY <2>1, <2>2, <1>begin DEF Evaluates
  <2>3. CASE Gets({"while_condition"}, {"value"}) /\ MoveTo("while_body", depth + 1)
    BY <1>d, <2>1, <2>3, <1>move DEF Gets
  <2>4. CASE Gets({"while_condition"}, {"value"}) /\ Leave("value", 0)
    BY <2>1, <2>4, <1>leave DEF Gets, Signals
  <2>5. CASE /\ Gets({"while_body"}, {"value", "continue"})
             /\ MoveTo("while_condition", depth - 1)
    BY <1>d, <2>1, <2>5, <1>move DEF Gets, LoopBodies
  <2> QED BY <1>12, <2>2, <2>3, <2>4, <2>5 DEF While
<1>13. CASE For
  <2>1. /\ \A p \in {"for_init", "for_init_expr", "for_condition", "for_step"} : Owned(p) = 1
        /\ Owned("for_body") = 2
    BY DEF Owned, Calls
  <2>2. CASE /\ Evaluates(StatementLists)
             /\ \/ \E p \in {"for_init", "for_init_expr", "for_condition"} : Enter(p, 1)
                \/ Enter("for_body", 2)
    BY <2>1, <2>2, <1>begin DEF Evaluates
  <2>3. CASE /\ Gets({"for_init", "for_init_expr", "for_step"}, {"value"})
             /\ MoveTo("for_condition", depth) \/ MoveTo("for_body", depth + 1)
    BY <1>d, <2>1, <2>3, <1>move DEF Gets
  <2>4. CASE Gets({"for_condition"}, {"value"}) /\ MoveTo("for_body", depth + 1)
    BY <1>d, <2>1, <2>4, <1>move DEF Gets
  <2>5. CASE Gets({"for_condition"}, {"value"}) /\ Leave("value", 1)
    BY <2>1, <2>5, <1>leave DEF Gets, Signals
  <2>6. CASE /\ Gets({"for_body"}, {"value", "continue"})
             /\ \/ \E p \in {"for_step", "for_condition"} : MoveTo(p, depth - 1)
                \/ MoveTo("for_body", depth)
    BY <1>d, <2>1, <2>6, <1>move DEF Gets, LoopBodies
  <2> QED BY <1>13, <2>2, <2>3, <2>4, <2>5, <2>6 DEF For
<1>14. CASE ForIn \/ UntypedIterator
  <2>1. Owned("iterable") = 0 /\ Owned("forin_body") = 2
    BY DEF Owned, Calls
  <2>2. CASE Evaluates(StatementLists) /\ Enter("iterable", 0)
    BY <2>1, <2>2, <1>begin DEF Evaluates
  <2>3. CASE Gets({"iterable"}, {"value"}) /\ MoveTo("forin_body", depth + 2)
    BY <1>d, <2>1, <2>3, <1>move DEF Gets
  <2>4. CASE Gets({"iterable"}, {"value"}) /\ (Leave("value", 0) \/ Leave("error", 0))
    BY <2>1, <2>4, <1>leave DEF Gets, Signals
  <2>5. CASE Gets({"forin_body"}, {"value", "continue"}) /\ MoveTo("forin_body", depth)
    BY <1>d, <2>1, <2>5, <1>move DEF Gets, LoopBodies
  <2>6. CASE Gets({"forin_body"}, {"value", "continue"}) /\ Leave("value", 2)
    BY <2>1, <2>6, <1>leave DEF Gets, Signals
  <2> QED BY <1>14, <2>2, <2>3, <2>4, <2>5, <2>6 DEF ForIn, UntypedIterator
<1>15. ASSUME NEW mode \in Modes, Iterate(mode)
       PROVE  Goal
  <2>1. Owned("iterable") = 0 /\ Owned("next") = 0 /\ Owned("iterator_body") = 2
    BY DEF Owned, Calls
  <2>2. CASE Gets({"iterable"}, {"value"}) /\ Top.mode = "typed" /\ CallNext(0, mode)
    <3>1. StartsNext(mode)
      BY <2>1, <2>2 DEF Gets, CallNext, Becomes, StartsNext, JumpStep
    <3> QED BY <2>2, <3>1 DEF Goal, Step, Gets
  <2>3. CASE Gets({"next"}, {"value"}) /\ MoveTo("iterator_body", depth + 2)
    BY <1>d, <2>1, <2>3, <1>move DEF Gets
  <2>4. CASE Gets({"next"}, {"value"}) /\ Leave("value", 0)
    BY <2>1, <2>4, <1>leave DEF Gets, Signals
  <2>5. CASE Gets({"iterator_body"}, {"value", "continue"}) /\ CallNext(2, mode)
    <3>1. StartsNext(mode)
      BY <2>1, <2>5 DEF Gets, CallNext, Becomes, StartsNext, JumpStep
    <3> QED BY <2>5, <3>1 DEF Goal, Step, Gets
  <2> QED BY <1>15, <2>2, <2>3, <2>4, <2>5 DEF Iterate
<1>16. Owned("argument") = 0
  BY DEF Owned, Calls
<1>17. ASSUME NEW mode \in Modes, Call(mode)
       PROVE  Goal
  <2>1. CASE Evaluates(Positions) /\ Enter("argument", 0)
    BY <1>16, <2>1, <1>begin DEF Evaluates
  <2>2. CASE ~(Evaluates(Positions) /\ Enter("argument", 0))
    <3>1. StartsCall(mode) /\ Running
      BY <1>17, <2>2 DEF Call, Gets, Becomes, StartsCall, JumpStep
    <3> QED BY <3>1 DEF Goal, Step
  <2> QED BY <2>1, <2>2
<1>18. CASE CallBuiltin
  <2>1. CASE Gets({"argument"}, {"value"}) /\ Leave("value", 0)
    BY <1>16, <2>1, <1>leave DEF Gets, Signals
  <2>2. CASE ~(Gets({"argument"}, {"value"}) /\ Leave("value", 0))
    <3>1. EndsWith(0) /\ Running
      BY <1>16, <1>18, <1>d, <2>2 DEF CallBuiltin, Gets, Becomes, EndsWith, JumpStep
    <3> QED BY <3>1 DEF Goal, Step
  <2> QED BY <2>1, <2>2
<1>19. CASE call_function \/ call_function_mut_self
  BY <1>19 DEF call_function, call_function_mut_self, EndsCall, Gets, Calls, Goal, Step
<1>20. ASSUME NEW how, Handles(how)
       PROVE  /\ Running /\ signal \in Jumps /\ Top.at \in Inner
              /\ how \in {"unwrap", "drop"} => Top.at \in NeedsValue
              /\ how = "loop" => Top.at \in LoopBodies
              /\ how = "pass" => Top.at \notin LoopBodies
              /\ how \in {"loop", "pass"} => scopes_of(Top.at) = Owned(Top.at)
  <2>1. Running /\ signal \in Jumps /\ Top.at \in Inner /\ handling(Top) = how
    BY <1>20 DEF Handles, Inner
  <2>2. Top.at \in {"next", "iterator_body"} => Top.mode = "typed"
    BY <2>1, TopFacts DEF Placed, Running
  <2>3. Top.mode = "typed" \/ Top.mode = "untyped"
    BY <1>0, <2>1 DEF Modes
  <2>4. CASE Top.mode = "typed"
    BY <2>1, <2>4, TypedHandling, PassingOwned DEF handling
  <2>5. CASE Top.mode = "untyped" /\ Top.at \notin {"next", "iterator_body"}
    BY <2>1, <2>5, UntypedHandling, PassingOwned DEF handling
  <2> QED BY <2>2, <2>3, <2>4, <2>5
<1>21. CASE into_value
  BY <1>20, <1>21 DEF into_value, Crashes, Goal, Step
<1>22. CASE DropJump
  BY <1>20, <1>22, <1>stay DEF DropJump, Signals
<1>23. CASE PassJump
  <2>1. scopes_of(Top.at) \in 0..Owned(Top.at) /\ signal \in Signals
    BY <1>20, <1>23 DEF PassJump, Signals
  <2> QED BY <1>20, <1>23, <2>1, <1>leave DEF PassJump, Jumps
<1>24. CASE LoopPassesReturn \/ BreakLoop
  <2>1. scopes_of(Top.at) \in 0..Owned(Top.at)
    BY <1>20, <1>24 DEF LoopPassesReturn, BreakLoop
  <2> QED BY <1>20, <1>24, <2>1, <1>leave DEF LoopPassesReturn, BreakLoop, Jumps, Signals
<1>25. CASE PassError
  <2>1. PICK popped \in unwound(Top.at) : Leave("error", popped)
    BY <1>25 DEF PassError
  <2>2. Running /\ signal = "error" /\ Top.at \in Inner
    BY <1>25 DEF PassError, Inner
  <2>3. popped \in 0..Owned(Top.at)
    BY <2>1, <2>2
  <2> QED BY <2>1, <2>2, <2>3, <1>leave DEF Signals
<1>26. ~Ended
  BY DEF Ended
<1> HIDE DEF Goal
<1> QED
  BY <1>1, <1>2, <1>3, <1>4, <1>5, <1>6, <1>7, <1>8, <1>9, <1>10, <1>11, <1>12, <1>13, <1>14,
     <1>15, <1>17, <1>18, <1>19, <1>21, <1>22, <1>23, <1>24, <1>25, <1>26
  DEF Next

------------------------------------------------------------------------------
(* The frames after a step of each kind.                                   *)

Keeps(k) == \A i \in 1..k : frames'[i] = frames[i]

\* A construct is begun on top of the others.
LEMMA BeginsFrames ==
  ASSUME TypeOK, Running, NEW p, Begins(p)
  PROVE  /\ frames' \in Seq(Frame) /\ Len(frames') = Len(frames) + 1 /\ Keeps(Len(frames))
         /\ frames'[Len(frames')] = Within(p)
<1>1. frames \in Seq(Frame) /\ Len(frames) \in Nat
  BY TopFacts DEF TypeOK, Running
<1>2. Within(p) \in Frame
  BY TopFacts, PositionFacts DEF Begins, Within, Frame, TypeOK, Running
<1>3. frames' = Append(frames, Within(p))
  BY DEF Begins
<1> QED BY <1>1, <1>2, <1>3, AppendFacts DEF Keeps

\* The innermost construct is replaced by the same in another position.
LEMMA AtTopFrames ==
  ASSUME TypeOK, Running, NEW p \in Positions
  PROVE  /\ AtTop(p) \in Seq(Frame) /\ Len(AtTop(p)) = Len(frames)
         /\ \A i \in 1..(Len(frames) - 1) : AtTop(p)[i] = frames[i]
         /\ AtTop(p)[Len(frames)] = [Top EXCEPT !.at = p]
<1>1. frames \in Seq(Frame) /\ frames # <<>>
  BY DEF TypeOK, Running
<1>2. [Top EXCEPT !.at = p] \in Frame
  BY TopFacts DEF Frame, Running
<1> QED BY <1>1, <1>2, ReplaceFacts DEF AtTop

\* The innermost construct moves on.
LEMMA MovesFrames ==
  ASSUME TypeOK, Running, NEW p, Moves(p)
  PROVE  /\ frames' \in Seq(Frame) /\ Len(frames') = Len(frames) /\ Keeps(Len(frames) - 1)
         /\ frames'[Len(frames')] = [Top EXCEPT !.at = p]
BY AtTopFrames, PositionFacts DEF Moves, Keeps

\* The innermost construct is left.
LEMMA LeavesFrames ==
  ASSUME TypeOK, Running, frames' = Front(frames)
  PROVE  /\ frames' \in Seq(Frame) /\ Len(frames') = Len(frames) - 1 /\ Keeps(Len(frames'))
BY FrontTypes DEF TypeOK, Running, Keeps

\* A call takes the place of its operands.
LEMMA StartsCallFrames ==
  ASSUME TypeOK, Running, NEW mode, StartsCall(mode)
  PROVE  /\ frames' \in Seq(Frame) /\ Len(frames') = Len(frames) /\ Keeps(Len(frames) - 1)
         /\ frames'[Len(frames')] = CalleeFrame("call", mode)
<1>1. frames \in Seq(Frame) /\ frames # <<>>
  BY DEF TypeOK, Running
<1>2. CalleeFrame("call", mode) \in Frame
  BY PositionFacts DEF StartsCall, CalleeFrame, Frame, TypeOK, Functions, Calls
<1> QED BY <1>1, <1>2, ReplaceFacts DEF StartsCall, Keeps

\* A call of a user iterator is on top of its loop.
LEMMA StartsNextFrames ==
  ASSUME TypeOK, Running, NEW mode, StartsNext(mode), Owned(Top.at) <= depth
  PROVE  /\ frames' \in Seq(Frame) /\ Len(frames') = Len(frames) + 1 /\ Keeps(Len(frames) - 1)
         /\ frames'[Len(frames)] = [Top EXCEPT !.at = "next"]
         /\ frames'[Len(frames')] =
              [at |-> "next_call", mode |-> mode, saved |-> depth - Owned(Top.at)]
<1> DEFINE e == [at |-> "next_call", mode |-> mode, saved |-> depth - Owned(Top.at)]
           fs == AtTop("next")
<1>1. /\ fs \in Seq(Frame) /\ Len(fs) = Len(frames)
      /\ \A i \in 1..(Len(frames) - 1) : fs[i] = frames[i]
      /\ fs[Len(frames)] = [Top EXCEPT !.at = "next"]
  BY AtTopFrames, PositionFacts, TypedPositions
<1>2. Top.at \in Positions /\ Len(frames) \in Nat \ {0}
  BY TopFacts DEF Running
<1>3. depth - Owned(Top.at) \in Nat
  BY <1>2, OwnedFacts DEF TypeOK
<1>4. e \in Frame
  BY <1>3, PositionFacts DEF StartsNext, Frame, Functions, Calls
<1>5. frames' = Append(fs, e)
  BY DEF StartsNext, CalleeFrame
<1> HIDE DEF fs, e
<1>6. /\ Append(fs, e) \in Seq(Frame) /\ Len(Append(fs, e)) = Len(fs) + 1
      /\ Append(fs, e)[Len(fs) + 1] = e
      /\ \A i \in 1..Len(fs) : Append(fs, e)[i] = fs[i]
  BY <1>1, <1>4, AppendFacts
<1> QED BY <1>1, <1>2, <1>5, <1>6 DEF Keeps, e

\* main is the only construct when it is begun.
LEMMA RunMainFrames ==
  ASSUME NEW mode \in Modes, RunMain(mode)
  PROVE  /\ frames' \in Seq(Frame) /\ Len(frames') = 1
         /\ frames'[1] = [at |-> "main", mode |-> mode, saved |-> 0]
<1>1. [at |-> "main", mode |-> mode, saved |-> 0] \in Frame
  BY PositionFacts DEF Frame, Functions
<1>2. frames' = <<[at |-> "main", mode |-> mode, saved |-> 0]>>
  BY DEF RunMain, Becomes
<1> QED BY <1>1, <1>2

------------------------------------------------------------------------------
(* Scopes.                                                                 *)

\* An error may leave scopes behind, and never pops one too many.
ScopesThere == ScopesUpTo(frames, Len(frames)) <= depth

Scoped ==
  /\ frames \in Seq(Frame) /\ Len(frames) <= MaxFrames /\ depth \in Nat
  /\ Placed /\ ScopesBalanced /\ ScopesThere

\* What frames below have pushed is what it was.
LEMMA ScopesKept ==
  ASSUME NEW k \in Nat, Keeps(k)
  PROVE  \A i \in 0..k : ScopesUpTo(frames', i) = ScopesUpTo(frames, i)
<1> TAKE i \in 0..k
<1>1. CASE i = 0
  BY <1>1 DEF ScopesUpTo
<1>2. CASE i \in 1..k
  BY <1>2 DEF ScopesUpTo, Keeps
<1> QED BY <1>1, <1>2

\* The innermost construct has its scopes on top of those around it.
LEMMA TopScopes ==
  ASSUME TypeOK, Scoped, Running
  PROVE  /\ Top.saved = ScopesUpTo(frames, Len(frames) - 1) /\ Top.saved \in Nat
         /\ ScopesUpTo(frames, Len(frames)) =
              IF Top.at \in Functions THEN Owned(Top.at) ELSE Top.saved + Owned(Top.at)
         /\ Top.at \in Inner => Top.saved + Owned(Top.at) <= depth
         /\ Top.at \in Inner /\ signal # "error" => depth = Top.saved + Owned(Top.at)
         /\ Top.at \in Inner => Len(frames) > 1
         /\ Owned(Top.at) \in 0..2
<1>1. /\ Len(frames) \in Nat \ {0} /\ DOMAIN frames = 1..Len(frames)
      /\ Top = frames[Len(frames)] /\ Top \in Frame /\ Top.at \in Positions
  BY TopFacts DEF Running
<1>2. Top.saved = ScopesUpTo(frames, Len(frames) - 1) /\ Top.saved \in Nat
  BY <1>1 DEF Scoped, ScopesBalanced, Frame
<1>3. Top.at \in Inner => Top.at \notin Functions /\ Len(frames) > 1
  BY <1>1, PositionFacts DEF Scoped, Placed, Functions
<1>4. Owned(Top.at) \in 0..2
  BY <1>1, OwnedFacts
<1>5. ScopesUpTo(frames, Len(frames)) =
        IF Top.at \in Functions THEN Owned(Top.at) ELSE Top.saved + Owned(Top.at)
  BY <1>1 DEF ScopesUpTo
<1> QED BY <1>2, <1>3, <1>4, <1>5 DEF Scoped, ScopesBalanced, ScopesThere

\* How the scopes of the frames after a step follow from those kept.
LEMMA ScopedIf ==
  ASSUME Scoped, frames' \in Seq(Frame), Len(frames') <= MaxFrames, depth' \in Nat,
         NEW k \in 0..Len(frames), Keeps(k), k <= Len(frames'), Len(frames') <= k + 2,
         \A i \in k + 1..Len(frames') :
            /\ frames'[i].saved = ScopesUpTo(frames', i - 1)
            /\ (frames'[i].at \in {"global", "main"}) <=> (i = 1)
            /\ frames'[i].at \in {"next", "iterator_body"} => frames'[i].mode = "typed",
         ScopesUpTo(frames', Len(frames')) <= depth',
         signal' # "error" => depth' = ScopesUpTo(frames', Len(frames'))
  PROVE  Scoped'
<1>1. frames \in Seq(Frame)
  BY DEF Scoped
<1>2. /\ Len(frames) \in Nat /\ DOMAIN frames = 1..Len(frames)
      /\ Len(frames') \in Nat /\ DOMAIN frames' = 1..Len(frames')
  BY <1>1, LenProperties
<1>3. \A i \in 0..k : ScopesUpTo(frames', i) = ScopesUpTo(frames, i)
  BY <1>2, ScopesKept
<1>4. \A i \in 1..Len(frames') : frames'[i].saved = ScopesUpTo(frames', i - 1)
  <2> TAKE i \in 1..Len(frames')
  <2>1. CASE i \in 1..k
    <3>1. frames'[i] = frames[i] /\ i - 1 \in 0..k /\ i \in DOMAIN frames
      BY <1>2, <2>1 DEF Keeps
    <3>2. frames[i].saved = ScopesUpTo(frames, i - 1)
      BY <3>1 DEF Scoped, ScopesBalanced
    <3>3. ScopesUpTo(frames', i - 1) = ScopesUpTo(frames, i - 1)
      BY <1>3, <3>1
    <3> QED BY <3>1, <3>2, <3>3
  <2>2. CASE i \in k + 1..Len(frames')
    BY <2>2
  <2> QED BY <1>2, <2>1, <2>2
<1>5. Placed'
  BY <1>2 DEF Scoped, Placed, Keeps
<1> QED BY <1>2, <1>4, <1>5 DEF Scoped, ScopesBalanced, ScopesThere

\* No step unbalances the scopes.
LEMMA ScopesStep ==
  ASSUME TypeOK, Scoped, Running, Step
  PROVE  Scoped'
<1> DEFINE n == Len(frames)
<1> USE TypedPositions, PositionFacts, OwnedFacts
<1>1. /\ n \in Nat \ {0} /\ n <= MaxFrames
      /\ Top = frames[n] /\ Top \in Frame /\ Top.at \in Positions /\ depth \in Nat
  BY TopFacts DEF Running, TypeOK
<1>2. /\ Top.saved = ScopesUpTo(frames, n - 1) /\ Top.saved \in Nat
      /\ ScopesUpTo(frames, n) =
           IF Top.at \in Functions THEN Owned(Top.at) ELSE Top.saved + Owned(Top.at)
      /\ Top.at \in Inner => Top.saved + Owned(Top.at) <= depth
      /\ Top.at \in Inner /\ signal # "error" => depth = Top.saved + Owned(Top.at)
      /\ Top.at \in Inner => n > 1
      /\ Owned(Top.at) \in 0..2
  BY TopScopes
<1>3. MaxFrames \in Nat \ {0}
  BY MaxFramesAssumption
<1>4. CASE frames' = frames /\ depth' = depth /\ (signal' = signal \/ signal # "error")
  BY <1>4 DEF Scoped, Placed, ScopesBalanced, ScopesThere
<1>5. CASE Stays
  BY <1>4, <1>5 DEF Stays, Jumps
<1>6. ASSUME NEW p \in Inner, Begins(p)
      PROVE  Scoped'
  <2>1. /\ frames' \in Seq(Frame) /\ Len(frames') = n + 1 /\ Keeps(n)
        /\ frames'[n + 1] = Within(p)
    BY <1>1, <1>6, BeginsFrames
  <2>2. depth' = depth + Owned(p) /\ Owned(p) \in 0..2 /\ n + 1 <= MaxFrames /\ signal = "eval"
    BY <1>1, <1>3, <1>6 DEF Begins, Room
  <2>3. depth = ScopesUpTo(frames, n) /\ ScopesUpTo(frames', n) = ScopesUpTo(frames, n)
    BY <1>1, <2>1, <2>2, ScopesKept DEF Scoped, ScopesBalanced
  <2>4. frames'[n + 1].saved = depth /\ frames'[n + 1].at = p
    BY <2>1 DEF Within
  <2>5. ScopesUpTo(frames', n + 1) = depth + Owned(p)
    BY <1>1, <2>4 DEF ScopesUpTo
  <2>6. p \notin {"next", "iterator_body", "global", "main"}
    BY <1>6 DEF Begins
  <2> HIDE DEF n
  <2> QED BY <1>1, <2>1, <2>2, <2>3, <2>4, <2>5, <2>6, ScopedIf DEF n
<1>7. ASSUME NEW p \in Inner, Moves(p)
      PROVE  Scoped'
  <2>1. /\ frames' \in Seq(Frame) /\ Len(frames') = n /\ Keeps(n - 1)
        /\ frames'[n] = [Top EXCEPT !.at = p]
    BY <1>7, MovesFrames
  <2>2. /\ Top.at \in Inner /\ Owned(p) \in 0..2 /\ n > 1 /\ signal # "error"
        /\ depth' = Top.saved + Owned(p)
    BY <1>1, <1>2, <1>7 DEF Moves, Jumps
  <2>3. ScopesUpTo(frames', n - 1) = ScopesUpTo(frames, n - 1)
    BY <1>1, <2>1, ScopesKept
  <2>4. frames'[n].saved = Top.saved /\ frames'[n].at = p /\ frames'[n].mode = Top.mode
    BY <1>1, <2>1 DEF Frame
  <2>5. ScopesUpTo(frames', n) = depth'
    BY <1>1, <2>2, <2>4 DEF ScopesUpTo
  <2>6. p \notin {"global", "main"} /\ (p \in {"next", "iterator_body"} => Top.mode = "typed")
    <3>1. p \in {"next", "iterator_body"} => Top.at = "next"
      BY <1>7 DEF Moves
    <3> QED BY <1>1, <3>1, TopFacts DEF Scoped, Placed, Running
  <2>7. \A i \in (n - 1) + 1..n :
          /\ frames'[i].saved = ScopesUpTo(frames', i - 1)
          /\ (frames'[i].at \in {"global", "main"}) <=> (i = 1)
          /\ frames'[i].at \in {"next", "iterator_body"} => frames'[i].mode = "typed"
    <3>1. \A i \in (n - 1) + 1..n : i = n
      BY <1>1
    <3>2. frames'[n].saved = ScopesUpTo(frames', n - 1)
      BY <1>2, <2>3, <2>4
    <3>3. n # 1
      BY <1>1, <2>2
    <3> HIDE DEF n
    <3> QED BY <2>4, <2>6, <3>1, <3>2, <3>3
  <2>8. depth' \in Nat /\ n - 1 \in 0..n /\ n <= (n - 1) + 2
    BY <1>1, <1>2, <2>2
  <2>9. ScopesUpTo(frames', n) <= depth'
    BY <2>5, <2>8
  <2> HIDE DEF n
  <2> QED BY <1>1, <2>1, <2>5, <2>7, <2>8, <2>9, ScopedIf DEF n
<1>8. ASSUME frames' = Front(frames), depth' \in Nat, Top.saved <= depth',
             signal' # "error" => depth' = Top.saved
      PROVE  Scoped'
  <2>1. /\ frames' \in Seq(Frame) /\ Len(frames') = n - 1 /\ Keeps(n - 1)
    BY <1>8, LeavesFrames
  <2>2. ScopesUpTo(frames', n - 1) = ScopesUpTo(frames, n - 1)
    BY <1>1, <2>1, ScopesKept
  <2> HIDE DEF n
  <2> QED BY <1>1, <1>2, <1>3, <1>8, <2>1, <2>2, ScopedIf DEF n
<1>9. ASSUME NEW popped \in 0..2, EndsWith(popped)
      PROVE  Scoped'
  <2>1. /\ Top.at \in Inner /\ popped \in 0..Owned(Top.at) /\ frames' = Front(frames)
        /\ depth' = depth - popped /\ (signal' # "error" => popped = Owned(Top.at))
        /\ signal' # "error" => signal # "error"
    BY <1>9 DEF EndsWith, Jumps
  <2>2. /\ depth' \in Nat /\ Top.saved <= depth' /\ (signal' # "error" => depth' = Top.saved)
    BY <1>1, <1>2, <2>1
  <2> QED BY <1>8, <2>1, <2>2
<1>10. CASE EndsCall
  BY <1>2, <1>8, <1>10 DEF EndsCall, Ends, Becomes
<1>11. ASSUME NEW mode \in Modes, StartsCall(mode)
       PROVE  Scoped'
  <2>1. /\ frames' \in Seq(Frame) /\ Len(frames') = n /\ Keeps(n - 1)
        /\ frames'[n] = CalleeFrame("call", mode)
    BY <1>11, StartsCallFrames
  <2>2. /\ Top.at = "argument" /\ Owned(Top.at) = 0 /\ signal = "value" /\ depth' = 2 /\ n > 1
    BY <1>2, <1>11 DEF StartsCall, Owned, Calls
  <2>3. ScopesUpTo(frames', n - 1) = ScopesUpTo(frames, n - 1)
    BY <1>1, <2>1, ScopesKept
  <2>4. frames'[n].saved = depth /\ frames'[n].at = "call"
    BY <2>1 DEF CalleeFrame
  <2>5. ScopesUpTo(frames', n) = 2
    BY <1>1, <2>4 DEF ScopesUpTo, Functions, Calls
  <2>6. depth = Top.saved
    BY <1>1, <1>2, <2>2
  <2> HIDE DEF n
  <2> QED BY <1>1, <1>2, <1>3, <2>1, <2>2, <2>3, <2>4, <2>5, <2>6, ScopedIf DEF n
<1>12. ASSUME NEW mode \in Modes, StartsNext(mode)
       PROVE  Scoped'
  <2>1. Top.at \in {"iterable", "iterator_body"} /\ signal # "error" /\ depth' = 2
    BY <1>12 DEF StartsNext
  <2>2. Top.at \in Inner /\ n > 1 /\ depth = Top.saved + Owned(Top.at) /\ n + 1 <= MaxFrames
    BY <1>1, <1>2, <1>3, <1>12, <2>1 DEF StartsNext, Room
  <2>3. /\ frames' \in Seq(Frame) /\ Len(frames') = n + 1 /\ Keeps(n - 1)
        /\ frames'[n] = [Top EXCEPT !.at = "next"]
        /\ frames'[n + 1] =
             [at |-> "next_call", mode |-> mode, saved |-> depth - Owned(Top.at)]
    BY <1>1, <1>2, <1>12, <2>2, StartsNextFrames
  <2>4. /\ frames'[n].saved = Top.saved /\ frames'[n].at = "next" /\ frames'[n].mode = Top.mode
        /\ frames'[n + 1].saved = Top.saved /\ frames'[n + 1].at = "next_call"
    BY <1>1, <1>2, <2>2, <2>3 DEF Frame
  <2>5. ScopesUpTo(frames', n - 1) = ScopesUpTo(frames, n - 1)
    BY <1>1, <2>3, ScopesKept
  <2>6. ScopesUpTo(frames', n) = Top.saved /\ ScopesUpTo(frames', n + 1) = 2
    BY <1>1, <1>2, <2>4 DEF ScopesUpTo, Functions, Calls, Owned
  <2>7. Top.mode = "typed"
    BY <1>1, <1>12, TopFacts DEF StartsNext, Scoped, Placed, Running
  <2>8. \A i \in n..n + 1 : /\ frames'[i].saved = ScopesUpTo(frames', i - 1)
                            /\ (frames'[i].at \in {"global", "main"}) <=> (i = 1)
                            /\ frames'[i].at \in {"next", "iterator_body"} =>
                                 frames'[i].mode = "typed"
    BY <1>1, <1>2, <2>2, <2>4, <2>5, <2>6, <2>7
  <2> HIDE DEF n
  <2> QED BY <1>1, <1>3, <2>1, <2>2, <2>3, <2>6, <2>8, ScopedIf DEF n
<1>13. ASSUME NEW mode \in Modes, RunMain(mode)
       PROVE  Scoped'
  <2>1. /\ frames' \in Seq(Frame) /\ Len(frames') = 1
        /\ frames'[1] = [at |-> "main", mode |-> mode, saved |-> 0]
    BY <1>13, RunMainFrames
  <2>2. depth' = 1
    BY <1>13 DEF RunMain, Becomes
  <2>3. ScopesUpTo(frames', 0) = 0 /\ ScopesUpTo(frames', 1) = 1
    BY <2>1 DEF ScopesUpTo, Functions
  <2>4. Keeps(0)
    BY DEF Keeps
  <2> QED BY <1>1, <1>3, <2>1, <2>2, <2>3, <2>4, ScopedIf
<1>14. CASE MainEnds
  <2>1. frames' = <<>> /\ depth' = 0
    BY <1>14 DEF MainEnds
  <2>2. frames' \in Seq(Frame) /\ Len(frames') = 0 /\ Keeps(0) /\ ScopesUpTo(frames', 0) = 0
    BY <2>1 DEF Keeps, ScopesUpTo
  <2> QED BY <1>1, <1>3, <2>1, <2>2, ScopedIf
<1>15. CASE GlobalFails \/ Crashes
  BY <1>4, <1>15 DEF GlobalFails, Crashes
<1> QED BY <1>5, <1>6, <1>7, <1>9, <1>10, <1>11, <1>12, <1>13, <1>14, <1>15 DEF Step

------------------------------------------------------------------------------
(* The call stack and the stack of an error.                               *)

\* A list of calls with one more, above the others.
LEMMA ListsAppend ==
  ASSUME NEW S \in SUBSET Nat, NEW stack \in Seq(S), NEW x \in S, NEW calls,
         Lists(stack, calls), \A c \in calls : c < x
  PROVE  Append(stack, x) \in Seq(S) /\ Lists(Append(stack, x), calls \cup {x})
<1> DEFINE n == Len(stack)
           new == Append(stack, x)
<1>1. /\ n \in Nat /\ DOMAIN stack = 1..n
      /\ new \in Seq(S) /\ Len(new) = n + 1 /\ DOMAIN new = 1..n + 1
      /\ new[n + 1] = x /\ \A i \in 1..n : new[i] = stack[i]
  BY AppendFacts, LenProperties
<1>2. /\ \A i \in 1..n : stack[i] \in calls
      /\ \A c \in calls : \E i \in 1..n : c = stack[i]
      /\ \A j, k \in 1..n : j < k => stack[j] < stack[k]
  BY <1>1 DEF Lists, Range
<1> HIDE DEF n, new
<1>3. \A j \in 1..n + 1 : j \in 1..n \/ j = n + 1
  BY <1>1
<1>4. n + 1 \in 1..n + 1 /\ \A j \in 1..n : j \in 1..n + 1
  BY <1>1
<1>5. \A j \in 1..n + 1 : new[j] \in calls \cup {x}
  BY <1>1, <1>2, <1>3
<1>6. \A c \in calls \cup {x} : \E j \in 1..n + 1 : c = new[j]
  BY <1>1, <1>2, <1>4
<1>7. \A j, k \in 1..n + 1 : j < k => new[j] < new[k]
  <2> SUFFICES ASSUME NEW j \in 1..n + 1, NEW k \in 1..n + 1, j < k
               PROVE  new[j] < new[k]
    OBVIOUS
  <2>1. j \in 1..n
    BY <1>1
  <2> QED BY <1>1, <1>2, <1>3, <2>1
<1>8. Range(new) = calls \cup {x}
  BY <1>1, <1>5, <1>6 DEF Range
<1> QED BY <1>1, <1>7, <1>8 DEF Lists, new

\* A list of calls without the highest, which is the last.
LEMMA ListsFront ==
  ASSUME NEW S \in SUBSET Nat, NEW stack \in Seq(S), NEW calls, NEW x \in calls,
         Lists(stack, calls), \A c \in calls : c <= x
  PROVE  stack # <<>> /\ Front(stack) \in Seq(S) /\ Lists(Front(stack), calls \ {x})
<1> DEFINE n == Len(stack)
           new == Front(stack)
<1>1. /\ n \in Nat /\ DOMAIN stack = 1..n /\ \A i \in 1..n : stack[i] \in Nat
  BY LenProperties, ElementOfSeq
<1>2. /\ \A i \in 1..n : stack[i] \in calls
      /\ \A c \in calls : \E i \in 1..n : c = stack[i]
      /\ \A j, k \in 1..n : j < k => stack[j] < stack[k]
  BY <1>1 DEF Lists, Range
<1>3. PICK i \in 1..n : stack[i] = x
  BY <1>2
<1>4. i = n /\ n # 0
  <2>1. n \in 1..n /\ (i < n => x < stack[n]) /\ stack[n] <= x /\ stack[n] \in Nat
    BY <1>1, <1>2, <1>3
  <2>2. x \in Nat /\ i \in Nat /\ n \in Nat /\ i <= n /\ 1 <= i
    BY <1>1, <1>3
  <2>3. ~(i < n)
    BY <2>1, <2>2
  <2> QED BY <2>2, <2>3
<1>5. stack # <<>>
  BY <1>4
<1>6. /\ new \in Seq(S) /\ Len(new) = n - 1 /\ DOMAIN new = 1..n - 1
      /\ \A j \in 1..n - 1 : new[j] = stack[j]
  BY <1>5, FrontTypes, LenProperties
<1> HIDE DEF n, new
<1>7. \A j \in 1..n - 1 : j \in 1..n /\ j < n /\ n \in 1..n
  BY <1>1, <1>4
<1>8. \A j \in 1..n - 1 : new[j] \in calls \ {x}
  <2> TAKE j \in 1..n - 1
  <2>1. stack[j] < stack[n] /\ stack[n] = x /\ stack[j] \in calls /\ stack[j] \in Nat
    BY <1>1, <1>2, <1>3, <1>4, <1>7
  <2> QED BY <1>1, <1>3, <1>6, <2>1
<1>9. \A c \in calls \ {x} : \E j \in 1..n - 1 : c = new[j]
  <2> TAKE c \in calls \ {x}
  <2>1. PICK j \in 1..n : c = stack[j]
    BY <1>2
  <2>2. j \in 1..n - 1
    BY <1>1, <1>3, <1>4, <2>1
  <2> QED BY <1>6, <2>1, <2>2
<1>10. \A j, k \in 1..n - 1 : j < k => new[j] < new[k]
  BY <1>2, <1>6, <1>7
<1>11. Range(new) = calls \ {x}
  BY <1>6, <1>8, <1>9 DEF Range
<1> QED BY <1>5, <1>6, <1>10, <1>11 DEF Lists, new

\* What a step does to the calls in progress, it does to CALL_STACK.
LEMMA CallsStep ==
  ASSUME TypeOK, Scoped, Running, Step
  PROVE  \/ /\ CallsIn(frames') = CallsIn(frames) /\ UNCHANGED call_stack
            /\ ~EndsCall
         \/ \E x \in 1..MaxFrames :
              /\ CallsIn(frames') = CallsIn(frames) \cup {x}
              /\ call_stack' = Append(call_stack, x) /\ \A c \in CallsIn(frames) : c < x
              /\ UNCHANGED error_stack /\ signal # "error" /\ signal' = "eval"
         \/ /\ EndsCall /\ Len(frames) \in CallsIn(frames)
            /\ \A c \in CallsIn(frames) : c <= Len(frames)
            /\ CallsIn(frames') = CallsIn(frames) \ {Len(frames)}
<1> DEFINE n == Len(frames)
<1> USE PositionFacts DEF CallsIn
<1>1. /\ n \in Nat \ {0} /\ n <= MaxFrames /\ DOMAIN frames = 1..n
      /\ Top = frames[n] /\ Top \in Frame /\ Top.at \in Positions
  BY TopFacts DEF Running, TypeOK
<1>2. Top.at \in Inner => Top.at \notin Calls
  BY DEF Functions
<1>3. MaxFrames \in Nat
  BY MaxFramesAssumption
<1>4. frames' \in Seq(Frame) => DOMAIN frames' = 1..Len(frames') /\ Len(frames') \in Nat
  BY LenProperties
<1>6. /\ \A i \in 1..n : i \in 1..n - 1 \/ i = n
      /\ \A i \in 1..n + 1 : i \in 1..n - 1 \/ i = n \/ i = n + 1
  <2> HIDE DEF n
  <2> QED BY <1>1
<1>a. EndsCall => frames' = Front(frames)
  BY DEF EndsCall, Ends, Becomes
<1>7. CASE Stays
  <2>1. ~EndsCall
    <3>1. Len(Front(frames)) = n - 1
      BY <1>1, FrontTypes DEF TypeOK, Running
    <3> QED BY <1>1, <1>7, <1>a, <3>1 DEF Stays
  <2> QED BY <1>7, <2>1 DEF Stays, Keep
<1>8. ASSUME NEW p \in Inner, Begins(p)
      PROVE  CallsIn(frames') = CallsIn(frames) /\ UNCHANGED call_stack /\ ~EndsCall
  <2>1. /\ frames' \in Seq(Frame) /\ Len(frames') = n + 1 /\ Keeps(n)
        /\ frames'[n + 1] = Within(p)
    BY <1>1, <1>8, BeginsFrames
  <2>2. frames'[n + 1].at \notin Calls
    BY <2>1 DEF Within, Functions
  <2>3. \A i \in 1..n + 1 : i \in 1..n \/ i = n + 1
    BY <1>1
  <2>4. CallsIn(frames') = CallsIn(frames)
    BY <1>1, <1>4, <2>1, <2>2, <2>3 DEF Keeps
  <2> QED BY <1>8, <2>4 DEF Begins, Keep, EndsCall
<1>9. ASSUME NEW p \in Inner, Moves(p)
      PROVE  CallsIn(frames') = CallsIn(frames) /\ UNCHANGED call_stack /\ ~EndsCall
  <2>1. /\ frames' \in Seq(Frame) /\ Len(frames') = n /\ Keeps(n - 1)
        /\ frames'[n] = [Top EXCEPT !.at = p]
    BY <1>9, MovesFrames
  <2>2. frames'[n].at \notin Calls /\ frames[n].at \notin Calls
    BY <1>1, <1>2, <1>9, <2>1 DEF Moves, Frame, Functions
  <2>3. CallsIn(frames') = CallsIn(frames)
    BY <1>1, <1>4, <1>6, <2>1, <2>2 DEF Keeps
  <2> QED BY <1>2, <1>9, <2>3 DEF Moves, Keep, EndsCall
<1>10. ASSUME NEW popped \in 0..2, EndsWith(popped)
       PROVE  CallsIn(frames') = CallsIn(frames) /\ UNCHANGED call_stack /\ ~EndsCall
  <2>1. frames' \in Seq(Frame) /\ Len(frames') = n - 1 /\ Keeps(n - 1)
    BY <1>10, LeavesFrames DEF EndsWith
  <2>2. frames[n].at \notin Calls
    BY <1>1, <1>2, <1>10 DEF EndsWith
  <2>3. CallsIn(frames') = CallsIn(frames)
    <3> HIDE DEF n
    <3>1. DOMAIN frames' = 1..n - 1 /\ \A i \in 1..n - 1 : i \in 1..n
      BY <1>1, <1>4, <2>1
    <3> QED BY <1>1, <1>6, <2>1, <2>2, <3>1 DEF Keeps
  <2> QED BY <1>2, <1>10, <2>3 DEF EndsWith, EndsCall
<1>11. ASSUME EndsCall
       PROVE  /\ n \in CallsIn(frames) /\ \A c \in CallsIn(frames) : c <= n
              /\ CallsIn(frames') = CallsIn(frames) \ {n}
  <2>1. frames' \in Seq(Frame) /\ Len(frames') = n - 1 /\ Keeps(n - 1)
    BY <1>11, <1>a, LeavesFrames
  <2>2. frames[n].at \in Calls
    BY <1>1, <1>11 DEF EndsCall
  <2> HIDE DEF n
  <2>3. /\ DOMAIN frames' = 1..n - 1 /\ n \in 1..n
        /\ \A i \in 1..n - 1 : i \in 1..n /\ i # n
    BY <1>1, <1>4, <2>1
  <2>4. n \in CallsIn(frames) /\ \A c \in CallsIn(frames) : c <= n
    BY <1>1, <2>2, <2>3
  <2>5. CallsIn(frames') = CallsIn(frames) \ {n}
    BY <1>1, <1>6, <2>1, <2>3 DEF Keeps
  <2> QED BY <2>4, <2>5
<1>12. ASSUME NEW mode \in Modes, StartsCall(mode)
       PROVE  /\ CallsIn(frames') = CallsIn(frames) \cup {n} /\ n \in 1..MaxFrames
              /\ call_stack' = Append(call_stack, n) /\ \A c \in CallsIn(frames) : c < n
              /\ UNCHANGED error_stack /\ signal # "error" /\ signal' = "eval"
  <2>1. /\ frames' \in Seq(Frame) /\ Len(frames') = n /\ Keeps(n - 1)
        /\ frames'[n] = CalleeFrame("call", mode)
    BY <1>12, StartsCallFrames
  <2>2. frames'[n].at \in Calls /\ frames[n].at \notin Calls
    BY <1>1, <1>12, <2>1 DEF StartsCall, CalleeFrame, Calls
  <2>3. /\ CallsIn(frames') = CallsIn(frames) \cup {n}
        /\ \A c \in CallsIn(frames) : c < n
    <3> HIDE DEF n
    <3>1. DOMAIN frames' = 1..n /\ n \in 1..n /\ \A i \in 1..n : i < n \/ i = n
      BY <1>1, <1>4, <2>1
    <3>2. CallsIn(frames') = CallsIn(frames) \cup {n}
      BY <1>1, <1>6, <2>1, <2>2, <3>1 DEF Keeps
    <3> QED BY <1>1, <2>2, <3>1, <3>2
  <2> QED BY <1>1, <1>3, <1>12, <2>3 DEF StartsCall
<1>13. ASSUME NEW mode \in Modes, StartsNext(mode)
       PROVE  /\ CallsIn(frames') = CallsIn(frames) \cup {n + 1} /\ n + 1 \in 1..MaxFrames
              /\ call_stack' = Append(call_stack, n + 1) /\ \A c \in CallsIn(frames) : c < n + 1
              /\ UNCHANGED error_stack /\ signal # "error" /\ signal' = "eval"
  <2>1. Top.at \in {"iterable", "iterator_body"} /\ signal # "error"
    BY <1>13 DEF StartsNext
  <2>2. Owned(Top.at) <= depth
    BY <1>1, <2>1, TopScopes, TypedPositions, OwnedFacts DEF TypeOK
  <2>3. /\ frames' \in Seq(Frame) /\ Len(frames') = n + 1 /\ Keeps(n - 1)
        /\ frames'[n] = [Top EXCEPT !.at = "next"]
        /\ frames'[n + 1] =
             [at |-> "next_call", mode |-> mode, saved |-> depth - Owned(Top.at)]
    BY <1>1, <1>13, <2>2, StartsNextFrames
  <2>4. frames'[n].at \notin Calls /\ frames'[n + 1].at \in Calls /\ frames[n].at \notin Calls
    <3>1. Top.at \notin Calls
      BY <2>1 DEF Calls
    <3>2. frames'[n].at = "next"
      BY <1>1, <2>3 DEF Frame
    <3>3. frames'[n + 1].at = "next_call"
      BY <2>3
    <3> QED BY <1>1, <3>1, <3>2, <3>3 DEF Calls
  <2>6. \A i \in 1..n - 1 : (i \in CallsIn(frames')) <=> (i \in CallsIn(frames))
    BY <1>1, <1>4, <2>3 DEF Keeps
  <2>7. CallsIn(frames') = CallsIn(frames) \cup {n + 1}
    <3> HIDE DEF n
    <3>1. DOMAIN frames' = 1..n + 1 /\ n + 1 \in 1..n + 1 /\ n + 1 \notin 1..n
      BY <1>1, <1>4, <2>3
    <3> QED BY <1>1, <1>6, <2>4, <2>6, <3>1
  <2>8. /\ n + 1 <= MaxFrames
        /\ \A c \in CallsIn(frames) : c < n + 1
    BY <1>1, <1>3, <1>13 DEF StartsNext, Room
  <2> QED BY <1>1, <1>3, <1>13, <2>1, <2>7, <2>8 DEF StartsNext
<1>14. ASSUME NEW mode \in Modes, RunMain(mode)
       PROVE  CallsIn(frames') = CallsIn(frames) /\ UNCHANGED call_stack /\ ~EndsCall
  <2>1. /\ frames' \in Seq(Frame) /\ Len(frames') = 1
        /\ frames'[1] = [at |-> "main", mode |-> mode, saved |-> 0]
    BY <1>14, RunMainFrames
  <2>2. Top.at = "global" /\ n = 1
    BY <1>1, <1>14 DEF RunMain, Gets, Scoped, Placed
  <2>3. CallsIn(frames') = {} /\ CallsIn(frames) = {}
    BY <1>1, <1>4, <2>1, <2>2 DEF Calls
  <2> QED BY <1>14, <2>2, <2>3 DEF RunMain, Keep, EndsCall, Calls
<1>15. CASE MainEnds \/ GlobalFails
  <2>1. Top.at \in {"main", "global"} /\ n = 1
    BY <1>1, <1>15 DEF MainEnds, GlobalFails, Gets, Scoped, Placed
  <2>2. CallsIn(frames) = {} /\ CallsIn(<<>>) = {}
    BY <1>1, <2>1 DEF Calls
  <2> QED BY <1>15, <2>1, <2>2 DEF MainEnds, GlobalFails, EndsCall, Calls
<1>16. CASE Crashes
  <2>1. Top.at \in Inner
    BY <1>16 DEF Crashes
  <2> QED BY <1>2, <1>16, <2>1 DEF Crashes, EndsCall
<1> HIDE DEF n
<1> QED BY <1>7, <1>8, <1>9, <1>10, <1>11, <1>12, <1>13, <1>14, <1>15, <1>16 DEF Step, n

Stacked == call_stack \in Seq(1..MaxFrames) /\ StackMatchesCalls

\* CALL_STACK stays the list of the calls in progress.
LEMMA StackStep ==
  ASSUME TypeOK, Scoped, Stacked, Running, Step
  PROVE  Stacked'
<1>1. 1..MaxFrames \in SUBSET Nat
  BY MaxFramesAssumption
<1>2. CASE CallsIn(frames') = CallsIn(frames) /\ UNCHANGED call_stack
  BY <1>2 DEF Stacked, StackMatchesCalls, Lists
<1>3. ASSUME NEW x \in 1..MaxFrames,
             CallsIn(frames') = CallsIn(frames) \cup {x},
             call_stack' = Append(call_stack, x), \A c \in CallsIn(frames) : c < x
      PROVE  Stacked'
  BY <1>1, <1>3, ListsAppend DEF Stacked, StackMatchesCalls
<1>4. ASSUME EndsCall, Len(frames) \in CallsIn(frames),
             \A c \in CallsIn(frames) : c <= Len(frames),
             CallsIn(frames') = CallsIn(frames) \ {Len(frames)}
      PROVE  Stacked'
  <2>1. call_stack' = Front(call_stack)
    BY <1>4 DEF EndsCall, Ends
  <2>2. call_stack \in Seq(1..MaxFrames) /\ Lists(call_stack, CallsIn(frames))
    BY DEF Stacked, StackMatchesCalls
  <2>3. /\ Front(call_stack) \in Seq(1..MaxFrames)
        /\ Lists(Front(call_stack), CallsIn(frames) \ {Len(frames)})
    BY <1>1, <1>4, <2>2, ListsFront
  <2> QED BY <1>4, <2>1, <2>3 DEF Stacked, StackMatchesCalls
<1> QED BY <1>2, <1>3, <1>4, CallsStep

\* An error keeps the calls it was raised in; the first call it ends, or the
\* builtin that raised it, attaches them.
Traced ==
  /\ error_stack \in Seq(1..MaxFrames)
  /\ signal = "error" /\ error_stack = <<>> => jump.calls = CallsIn(frames)
  /\ signal = "error" /\ error_stack # <<>> => Lists(error_stack, jump.calls)
  /\ signal # "error" => error_stack = <<>>
  /\ outcome = "error" => signal = "error" /\ CallsIn(frames) = {}

\* What steps do to errors.
LEMMA ErrorSteps ==
  ASSUME TypeOK, Running, Step
  PROVE  /\ signal = "error" => signal' = "error" /\ jump'.calls = jump.calls
         /\ signal = "error" /\ ~EndsCall => UNCHANGED error_stack
         /\ signal # "error" /\ signal' # "error" => UNCHANGED error_stack
         /\ signal # "error" /\ signal' = "error" =>
              /\ ~EndsCall /\ jump'.calls = CallsIn(frames)
              /\ error_stack' \in {error_stack, with_stack(call_stack)}
         /\ EndsCall /\ signal = "error" => error_stack' = with_stack(call_stack)
         /\ outcome' = "error" => signal = "error" /\ (MainEnds \/ GlobalFails)
<1>1. Raised("error", frames').calls = CallsIn(frames)
  BY DEF Raised, NoJump
<1>2. CASE Stays
  <2>1. ~EndsCall
    <3>1. Len(Front(frames)) # Len(frames)
      BY FrontTypes, TopFacts DEF TypeOK, Running
    <3> QED BY <1>2, <3>1 DEF Stays, EndsCall, Ends, Becomes
  <2> QED BY <1>1, <1>2, <2>1 DEF Stays, JumpStep, Keep, Jumps, Running
<1>3. ASSUME NEW p \in Inner, Begins(p) \/ Moves(p)
      PROVE  /\ signal # "error" /\ signal' # "error" /\ UNCHANGED <<error_stack, outcome>>
             /\ ~(EndsCall /\ signal = "error")
  BY <1>3 DEF Begins, Moves, Keep
<1>4. ASSUME NEW popped \in 0..2, EndsWith(popped)
      PROVE  /\ ~EndsCall /\ UNCHANGED outcome
             /\ signal = "error" => signal' = "error" /\ jump' = jump /\ UNCHANGED error_stack
             /\ signal # "error" /\ signal' # "error" => UNCHANGED error_stack
             /\ signal # "error" /\ signal' = "error" =>
                  /\ jump'.calls = CallsIn(frames)
                  /\ error_stack' \in {error_stack, with_stack(call_stack)}
  <2>1. ~EndsCall
    BY <1>4, PositionFacts DEF EndsWith, EndsCall, Functions
  <2> QED BY <1>1, <1>4, <2>1 DEF EndsWith, JumpStep, Jumps
<1>5. ASSUME NEW mode \in Modes, StartsCall(mode) \/ StartsNext(mode)
      PROVE  signal # "error" /\ signal' # "error" /\ UNCHANGED <<error_stack, outcome>>
  BY <1>5 DEF StartsCall, StartsNext
<1>6. CASE EndsCall
  <2>1. /\ signal' = (IF signal = "return" THEN "value" ELSE signal) /\ UNCHANGED outcome
        /\ error_stack' = IF signal = "error" THEN with_stack(call_stack) ELSE error_stack
        /\ signal = "error" => jump' = jump
    BY <1>6 DEF EndsCall, Ends, Becomes
  <2> QED BY <1>6, <2>1 DEF Running
<1>7. ASSUME NEW mode \in Modes, RunMain(mode)
      PROVE  signal # "error" /\ signal' # "error" /\ UNCHANGED <<error_stack, outcome>>
  BY <1>7 DEF RunMain, Gets, Becomes, Keep
<1>8. CASE MainEnds
  <2>1. /\ Top.at = "main" /\ signal' = signal /\ UNCHANGED error_stack
        /\ (signal = "error" => outcome' = "error") /\ (outcome' = "error" => signal = "error")
        /\ jump' = IF outcome' = "ok" THEN NoJump ELSE jump
    BY <1>8 DEF MainEnds, Gets, Signals, Jumps
  <2> QED BY <1>8, <2>1 DEF EndsCall, Calls
<1>9. CASE GlobalFails
  BY <1>9 DEF GlobalFails, Gets, EndsCall, Calls
<1>10. CASE Crashes
  BY <1>10 DEF Crashes, Jumps
<1>11. outcome = "running"
  BY DEF Running
<1> QED BY <1>2, <1>3, <1>4, <1>5, <1>6, <1>7, <1>8, <1>9, <1>10, <1>11 DEF Step

\* The calls of an error are named as long as it is on its way.
LEMMA TracedStep ==
  ASSUME TypeOK, Scoped, Stacked, Traced, Running, Step
  PROVE  Traced'
<1>1. with_stack(call_stack) = IF error_stack = <<>> THEN call_stack ELSE error_stack
  BY DEF with_stack
<1>2. Lists(call_stack, CallsIn(frames)) /\ call_stack \in Seq(1..MaxFrames)
  BY DEF Stacked, StackMatchesCalls
<1>3. CASE signal' # "error"
  <2>1. signal # "error" /\ UNCHANGED error_stack /\ outcome' # "error"
    BY <1>3, ErrorSteps
  <2> QED BY <1>3, <2>1 DEF Traced
<1>4. outcome' = "error" => signal' = "error" /\ CallsIn(frames') = {}
  <2> SUFFICES ASSUME outcome' = "error"
               PROVE  signal' = "error" /\ CallsIn(frames') = {}
    OBVIOUS
  <2>1. signal = "error" /\ signal' = "error" /\ (MainEnds \/ GlobalFails)
    BY ErrorSteps
  <2>2. CASE MainEnds
    BY <2>1, <2>2 DEF MainEnds, CallsIn
  <2>3. CASE GlobalFails
    <3>1. Top.at = "global" /\ frames' = frames
      BY <2>3 DEF GlobalFails, Gets
    <3>2. DOMAIN frames = 1..1 /\ frames[1] = Top
      BY <3>1, TopFacts DEF Scoped, Placed, Running
    <3> QED BY <2>1, <3>1, <3>2 DEF CallsIn, Calls
  <2> QED BY <2>1, <2>2, <2>3
<1>5. ASSUME signal # "error", signal' = "error"
      PROVE  Traced'
  <2>1. /\ ~EndsCall /\ jump'.calls = CallsIn(frames) /\ error_stack = <<>>
        /\ error_stack' \in {<<>>, call_stack}
    BY <1>1, <1>5, ErrorSteps DEF Traced
  <2>2. CallsIn(frames') = CallsIn(frames)
    BY <1>5, <2>1, CallsStep
  <2> QED BY <1>2, <1>4, <1>5, <2>1, <2>2 DEF Traced
<1>6. ASSUME signal = "error", ~EndsCall
      PROVE  Traced'
  <2>1. signal' = "error" /\ jump'.calls = jump.calls /\ UNCHANGED error_stack
    BY <1>6, ErrorSteps
  <2>2. CallsIn(frames') = CallsIn(frames)
    BY <1>6, CallsStep
  <2> QED BY <1>4, <1>6, <2>1, <2>2 DEF Traced, Lists
<1>7. ASSUME signal = "error", EndsCall
      PROVE  Traced'
  <2>1. /\ signal' = "error" /\ jump'.calls = jump.calls
        /\ error_stack' = with_stack(call_stack)
    BY <1>7, ErrorSteps
  <2>2. Len(frames) \in CallsIn(frames)
    BY <1>7, CallsStep
  <2>3. call_stack # <<>>
    BY <1>2, <2>2 DEF Lists, Range
  <2>4. error_stack' # <<>> /\ error_stack' \in Seq(1..MaxFrames)
        /\ Lists(error_stack', jump.calls)
    BY <1>1, <1>2, <1>7, <2>1, <2>3 DEF Traced
  <2> QED BY <1>4, <2>1, <2>4 DEF Traced
<1> QED BY <1>3, <1>5, <1>6, <1>7

------------------------------------------------------------------------------
(* Jumps.                                                                  *)

\* From where a jump is to where it belongs nothing stops or claims it.
ClearWay(kind, fs, home) ==
  /\ kind \in Jumps /\ home \in 1..Len(fs)
  /\ \A i \in home + 1..Len(fs) :
       /\ fs[i].at \notin NeedsValue \cup Functions
       /\ kind # "return" => fs[i].at \notin LoopBodies
  /\ fs[home].at \in IF kind = "return" THEN Functions ELSE LoopBodies

Homed ==
  /\ jump \in [home : 0..MaxFrames, clear : BOOLEAN, calls : SUBSET (1..MaxFrames)]
  /\ jump.clear => ClearWay(signal, frames, jump.home)

\* A jump that is raised with a clear way has one.
LEMMA RaisedFacts ==
  ASSUME NEW fs \in Seq(Frame), Len(fs) <= MaxFrames, NEW kind \in Jumps
  PROVE  /\ Raised(kind, fs) \in [home : 0..MaxFrames, clear : BOOLEAN,
                                   calls : SUBSET (1..MaxFrames)]
         /\ Raised(kind, fs).clear => ClearWay(kind, fs, Raised(kind, fs).home)
<1> DEFINE homes == {i \in DOMAIN fs :
                       IF kind = "return" THEN fs[i].at \in Functions
                       ELSE /\ fs[i].at \in LoopBodies
                            /\ \A j \in i..Len(fs) : fs[j].at \notin Functions}
           home == Home(kind, fs)
           clear == home > 0 /\ \A i \in home + 1..Len(fs) : fs[i].at \notin NeedsValue
<1>1. DOMAIN fs = 1..Len(fs) /\ Len(fs) \in Nat /\ MaxFrames \in Nat
  BY LenProperties, MaxFramesAssumption
<1>2. home \in homes \cup {0} /\ \A i \in homes : i <= home
  BY HomeFacts
<1>3. home \in 0..Len(fs)
  BY <1>1, <1>2
<1>4. Raised(kind, fs) = [home |-> home, clear |-> clear, calls |-> {}]
  BY DEF Raised, NoJump, Jumps
<1>5. ASSUME clear
      PROVE  ClearWay(kind, fs, home)
  <2>1. home \in homes /\ home \in 1..Len(fs)
    BY <1>1, <1>2, <1>3, <1>5
  <2>2. ASSUME NEW i \in home + 1..Len(fs)
        PROVE  /\ fs[i].at \notin NeedsValue \cup Functions
               /\ kind # "return" => fs[i].at \notin LoopBodies
    <3>1. i \in DOMAIN fs /\ i > home /\ i \notin homes /\ i \in home..Len(fs)
          /\ \A j \in i..Len(fs) : j \in home..Len(fs)
      BY <1>1, <1>2, <1>3
    <3>2. fs[i].at \notin NeedsValue
      BY <1>5
    <3>3. CASE kind = "return"
      BY <3>1, <3>2, <3>3
    <3>4. CASE kind # "return"
      <4>1. \A j \in home..Len(fs) : fs[j].at \notin Functions
        BY <2>1, <3>4
      <4> QED BY <3>1, <3>2, <3>4, <4>1
    <3> QED BY <3>3, <3>4
  <2> HIDE DEF home
  <2> QED BY <2>1, <2>2 DEF ClearWay
<1> HIDE DEF home, clear
<1>6. clear \in BOOLEAN
  BY DEF clear
<1> QED BY <1>1, <1>3, <1>4, <1>5, <1>6

\* What the innermost construct is to a jump on a clear way.
LEMMA TopOfJump ==
  ASSUME TypeOK, Scoped, Homed, Running, jump.clear
  PROVE  /\ signal \in Jumps /\ jump.home \in 1..Len(frames)
         /\ Top.at \notin NeedsValue \cup {"global"}
         /\ Top.at \in Functions => signal = "return" /\ jump.home = Len(frames)
         /\ Top.at \in LoopBodies /\ signal # "return" => jump.home = Len(frames)
         /\ Top.at \in Inner /\ (Top.at \in LoopBodies => signal = "return") =>
              jump.home < Len(frames)
<1>1. Len(frames) \in Nat \ {0} /\ Top = frames[Len(frames)] /\ Len(frames) \in DOMAIN frames
  BY TopFacts DEF Running
<1>2. ClearWay(signal, frames, jump.home)
  BY DEF Homed
<1>3. jump.home \in 1..Len(frames) /\ (jump.home = Len(frames) \/ Len(frames) \in jump.home + 1..Len(frames))
  BY <1>1, <1>2 DEF ClearWay
<1>4. CASE jump.home = Len(frames)
  <2>1. Top.at \in (IF signal = "return" THEN Functions ELSE LoopBodies) /\ signal \in Jumps
    BY <1>1, <1>2, <1>4 DEF ClearWay
  <2>2. /\ "global" \notin Functions \cup LoopBodies
        /\ Functions \cap LoopBodies = {} /\ Functions \cap Inner = {}
    BY PositionFacts DEF Functions, Calls, LoopBodies
  <2> QED BY <1>3, <1>4, <2>1, <2>2, PositionFacts
<1>5. CASE Len(frames) \in jump.home + 1..Len(frames)
  <2>1. jump.home < Len(frames)
    BY <1>1, <1>3, <1>5
  <2>2. /\ Top.at \notin NeedsValue \cup Functions
        /\ signal # "return" => Top.at \notin LoopBodies
    BY <1>1, <1>2, <1>5 DEF ClearWay
  <2>3. Top.at # "global"
    BY <1>1, <1>3, <2>1 DEF Scoped, Placed
  <2> QED BY <1>2, <1>3, <2>1, <2>2, <2>3 DEF ClearWay
<1> QED BY <1>3, <1>4, <1>5

\* The history variable keeps saying where a jump belongs.
LEMMA HomedIf ==
  ASSUME TypeOK, Homed, JumpStep, signal' \in Signals,
         frames' \in Seq(Frame), Len(frames') <= MaxFrames,
         signal' = signal /\ jump.clear => ClearWay(signal, frames', jump.home)
  PROVE  Homed'
<1>1. CASE signal' \in {"eval", "value"}
  BY <1>1, MaxFramesAssumption DEF JumpStep, NoJump, Homed
<1>2. CASE signal' \notin {"eval", "value"} /\ signal' = signal
  BY <1>2 DEF JumpStep, Homed
<1>3. CASE signal' = "error" /\ signal' # signal
  <2>1. CallsIn(frames) \in SUBSET (1..MaxFrames)
    BY LenProperties, MaxFramesAssumption DEF CallsIn, TypeOK
  <2>2. jump' = [home |-> 0, clear |-> FALSE, calls |-> CallsIn(frames)]
    BY <1>3 DEF JumpStep, Raised, NoJump
  <2> QED BY <2>1, <2>2, MaxFramesAssumption DEF Homed
<1>4. CASE signal' \in Jumps /\ signal' # signal
  <2>1. jump' = Raised(signal', frames')
    BY <1>4 DEF JumpStep, Jumps
  <2> QED BY <1>4, <2>1, RaisedFacts DEF Homed
<1> QED BY <1>1, <1>2, <1>3, <1>4 DEF Signals

\* A way that is clear stays so when a construct on it is left.
LEMMA ClearWayFront ==
  ASSUME TypeOK, Running, NEW kind, NEW home, ClearWay(kind, frames, home), home < Len(frames),
         frames' = Front(frames)
  PROVE  ClearWay(kind, frames', home)
<1> DEFINE n == Len(frames)
<1>1. n \in Nat \ {0} /\ Len(frames') = n - 1 /\ \A i \in 1..n - 1 : frames'[i] = frames[i]
  BY TopFacts, LeavesFrames DEF Running, Keeps
<1>2. home \in 1..n /\ home < n
  BY DEF ClearWay
<1> HIDE DEF n
<1>3. /\ home \in 1..n - 1
      /\ \A i \in home + 1..n - 1 : i \in home + 1..n /\ i \in 1..n - 1
  BY <1>1, <1>2
<1> QED BY <1>1, <1>3 DEF ClearWay, n

\* Jumps keep to their ways, whatever the step.
LEMMA HomedStep ==
  ASSUME TypeOK, Scoped, Homed, Running, Step
  PROVE  Homed'
<1>1. /\ signal \in Signals /\ frames \in Seq(Frame) /\ Len(frames) <= MaxFrames
      /\ frames' \in Seq(Frame) /\ Len(frames') <= MaxFrames
  BY ScopesStep DEF TypeOK, Scoped
<1>2. jump.clear => signal \in Jumps
  BY DEF Homed, ClearWay
<1>3. CASE Stays
  BY <1>1, <1>2, <1>3, HomedIf DEF Stays, Jumps
<1>4. ASSUME NEW p \in Inner, Begins(p) \/ Moves(p)
      PROVE  Homed'
  BY <1>1, <1>2, <1>4, HomedIf DEF Begins, Moves, Jumps, Signals
<1>5. ASSUME NEW popped \in 0..2, EndsWith(popped)
      PROVE  Homed'
  <2>1. /\ JumpStep /\ signal' \in Signals /\ frames' = Front(frames) /\ Top.at \in Inner
        /\ signal \in Jumps /\ signal' = signal => (Top.at \in LoopBodies => signal = "return")
    BY <1>5 DEF EndsWith, Jumps, Signals
  <2>2. signal' = signal /\ jump.clear => ClearWay(signal, frames', jump.home)
    BY <1>2, <2>1, TopOfJump, ClearWayFront DEF Homed
  <2> QED BY <1>1, <2>1, <2>2, HomedIf
<1>6. CASE EndsCall
  <2>1. /\ JumpStep /\ signal' \in Signals /\ Top.at \in Functions
        /\ signal' = (IF signal = "return" THEN "value" ELSE signal)
    BY <1>6 DEF EndsCall, Ends, Becomes, JumpStep, Functions, Signals, Jumps
  <2>2. ~(signal' = signal /\ jump.clear)
    BY <2>1, TopOfJump
  <2> QED BY <1>1, <2>1, <2>2, HomedIf
<1>7. ASSUME NEW mode \in Modes, StartsCall(mode) \/ StartsNext(mode) \/ RunMain(mode)
      PROVE  Homed'
  <2>1. JumpStep /\ signal' = "eval"
    BY <1>7 DEF StartsCall, StartsNext, RunMain, Becomes, JumpStep
  <2> QED BY <1>1, <1>2, <2>1, HomedIf DEF Signals, Jumps
<1>8. CASE MainEnds
  <2>1. /\ Top.at = "main" /\ signal' = signal /\ frames' = <<>>
        /\ jump' = (IF outcome' = "ok" THEN NoJump ELSE jump)
        /\ signal = "return" => outcome' = "ok"
    BY <1>8 DEF MainEnds, Gets
  <2>2. jump.clear => outcome' = "ok"
    BY <2>1, TopOfJump DEF Functions
  <2>3. NoJump \in [home : 0..MaxFrames, clear : BOOLEAN, calls : SUBSET (1..MaxFrames)]
        /\ ~NoJump.clear
    BY MaxFramesAssumption DEF NoJump
  <2> QED BY <2>1, <2>2, <2>3 DEF Homed
<1>9. CASE GlobalFails \/ Crashes
  BY <1>9 DEF GlobalFails, Crashes, Homed
<1> QED BY <1>3, <1>4, <1>5, <1>6, <1>7, <1>8, <1>9 DEF Step

\* Only a jump whose way is blocked breaks the program.
LEMMA OutcomeStep ==
  ASSUME TypeOK, Scoped, Homed, Running, Step
  PROVE  outcome' \in {"running", "ok", "error", "internal", "crash"} /\ OnlyBlockedJumpsFail'
<1> USE DEF OnlyBlockedJumpsFail
<1>1. CASE MainEnds
  <2>1. /\ Top.at = "main" /\ signal' = signal /\ signal \in Jumps \cup {"value", "error"}
        /\ jump' = (IF outcome' = "ok" THEN NoJump ELSE jump)
        /\ outcome' = CASE signal \in {"value", "return"} -> "ok"
                        [] signal \in {"break", "continue"} -> "internal"
                        [] OTHER -> "error"
    BY <1>1 DEF MainEnds, Gets, Signals
  <2>2. jump.clear => signal = "return"
    BY <2>1, TopOfJump DEF Functions
  <2> QED BY <2>1, <2>2 DEF Jumps
<1>2. CASE GlobalFails
  BY <1>2 DEF GlobalFails
<1>3. CASE Crashes
  BY <1>3, TopOfJump DEF Crashes
<1>4. outcome = "running"
  BY DEF Running
<1>5. CASE UNCHANGED outcome
  BY <1>4, <1>5
<1>6. Stays => UNCHANGED outcome
  BY DEF Stays, Keep
<1>7. \A p : Begins(p) \/ Moves(p) \/ EndsWith(p) \/ StartsCall(p) \/ StartsNext(p) =>
        UNCHANGED outcome
  BY DEF Begins, Moves, EndsWith, StartsCall, StartsNext, Keep
<1>8. EndsCall \/ (\E mode \in Modes : RunMain(mode)) => UNCHANGED outcome
  BY DEF EndsCall, Ends, RunMain, Keep
<1> QED BY <1>1, <1>2, <1>3, <1>5, <1>6, <1>7, <1>8 DEF Step

\* A jump on a clear way gets home, and what is around is left alone.
LEMMA LandingStep ==
  ASSUME TypeOK, Scoped, Homed, Running, Step, jump.clear, ~jump'.clear
  PROVE  /\ Len(frames) = jump.home
         /\ Len(frames') >= jump.home - 1
         /\ SubSeq(frames', 1, jump.home - 1) = Front(frames)
         /\ signal \in {"return", "break"} => Len(frames') = jump.home - 1
         /\ signal = "continue" => Len(frames') >= jump.home \/ Top.at = "forin_body"
<1> DEFINE n == Len(frames)
           Around(fs) == Len(fs) >= n - 1 /\ SubSeq(fs, 1, n - 1) = Front(frames)
<1>1. /\ frames \in Seq(Frame) /\ n \in Nat \ {0} /\ n - 1 \in 0..n /\ frames # <<>>
      /\ Top = frames[n] /\ n \in DOMAIN frames /\ Top.at \in Positions
      /\ frames' \in Seq(Frame)
  <2>1. Scoped'
    BY ScopesStep
  <2>2. n \in Nat \ {0}
    BY TopFacts DEF Running
  <2> QED BY <2>1, <2>2, TopFacts DEF Running, Scoped
<1>2. /\ signal \in Jumps /\ jump.home \in 1..n
      /\ Top.at \notin NeedsValue \cup {"global"}
      /\ Top.at \in Functions => signal = "return" /\ jump.home = n
      /\ Top.at \in LoopBodies /\ signal # "return" => jump.home = n
      /\ Top.at \in Inner /\ (Top.at \in LoopBodies => signal = "return") => jump.home < n
  BY TopOfJump
<1>3. ASSUME Keeps(n - 1), Len(frames') >= n - 1
      PROVE  Around(frames')
  BY <1>1, <1>3, SamePrefix DEF Keeps, Front
<1>4. JumpStep => signal' # signal
  BY <1>2 DEF JumpStep, Jumps
<1> HIDE DEF Around
<1>5. ~Stays /\ ~Crashes /\ ~GlobalFails
  BY <1>2 DEF Stays, Crashes, GlobalFails, Gets, Jumps
<1>6. \A p \in Inner : ~Begins(p)
  BY <1>2 DEF Begins, Jumps
<1>7. \A mode \in Modes : ~StartsCall(mode) /\ ~RunMain(mode)
  BY <1>2 DEF StartsCall, RunMain, Gets, Jumps
<1>8. ASSUME NEW p \in Inner, Moves(p)
      PROVE  jump.home = n /\ signal = "continue" /\ Len(frames') = n /\ Around(frames')
  <2>1. signal = "continue" /\ Top.at \in LoopBodies
    BY <1>2, <1>8 DEF Moves, Jumps
  <2>2. Len(frames') = n /\ Keeps(n - 1)
    BY <1>8, MovesFrames
  <2> QED BY <1>1, <1>2, <1>3, <2>1, <2>2
<1>9. ASSUME NEW popped \in 0..2, EndsWith(popped)
      PROVE  /\ jump.home = n /\ Len(frames') = n - 1 /\ Around(frames')
             /\ signal = "continue" => Top.at = "forin_body"
  <2>1. /\ frames' = Front(frames) /\ JumpStep
        /\ signal' # signal /\ signal # "return" => Top.at \in LoopBodies
        /\ signal' # signal => signal # "return"
        /\ signal' # signal /\ signal = "continue" => Top.at = "forin_body"
    BY <1>2, <1>9 DEF EndsWith, Jumps, LoopBodies
  <2>2. Len(frames') = n - 1 /\ Keeps(n - 1)
    BY <2>1, LeavesFrames
  <2> QED BY <1>1, <1>2, <1>3, <1>4, <2>1, <2>2
<1>10. ASSUME NEW mode \in Modes, StartsNext(mode)
       PROVE  jump.home = n /\ signal = "continue" /\ Len(frames') = n + 1 /\ Around(frames')
  <2>1. signal = "continue" /\ Top.at = "iterator_body"
    BY <1>2, <1>10 DEF StartsNext, Jumps
  <2>2. Owned(Top.at) <= depth
    BY <1>1, <2>1, TopScopes, TypedPositions DEF TypeOK, LoopBodies
  <2>3. Len(frames') = n + 1 /\ Keeps(n - 1)
    BY <1>10, <2>2, StartsNextFrames
  <2> QED BY <1>1, <1>2, <1>3, <2>1, <2>3 DEF LoopBodies
<1>11. ASSUME EndsCall
       PROVE  jump.home = n /\ signal = "return" /\ Len(frames') = n - 1 /\ Around(frames')
  <2>1. frames' = Front(frames) /\ Top.at \in Functions
    BY <1>11 DEF EndsCall, Ends, Becomes, Functions
  <2>2. Len(frames') = n - 1 /\ Keeps(n - 1)
    BY <2>1, LeavesFrames
  <2> QED BY <1>1, <1>2, <1>3, <2>1, <2>2
<1>12. ASSUME MainEnds
       PROVE  jump.home = n /\ signal = "return" /\ Len(frames') = n - 1 /\ Around(frames')
  <2>1. frames' = <<>> /\ Top.at = "main"
    BY <1>12 DEF MainEnds, Gets
  <2>2. n = 1
    BY <1>1, <2>1 DEF Scoped, Placed
  <2>3. Len(frames') = 0 /\ Keeps(0)
    BY <2>1 DEF Keeps
  <2> QED BY <1>1, <1>2, <1>3, <2>1, <2>2, <2>3 DEF Functions
<1>13. /\ jump.home = n /\ Around(frames')
       /\ signal \in {"return", "break"} => Len(frames') = n - 1
       /\ signal = "continue" => Len(frames') >= n \/ Top.at = "forin_body"
  BY <1>1, <1>5, <1>6, <1>7, <1>8, <1>9, <1>10, <1>11, <1>12 DEF Step
<1> QED BY <1>13 DEF Around

------------------------------------------------------------------------------
(* The theorems.                                                           *)

\* Everything that is needed at once: the scopes give the types of the depth,
\* the calls those of the stack, and the history variable those of a jump.
IInv == TypeOK /\ Scoped /\ Stacked /\ Traced /\ Homed /\ OnlyBlockedJumpsFail

\* A program starts with its module and no calls.
LEMMA InitIInv == Init => IInv
<1> SUFFICES ASSUME Init PROVE IInv
  OBVIOUS
<1>1. MaxFrames \in Nat \ {0}
  BY MaxFramesAssumption
<1>2. Global \in Frame
  BY PositionFacts DEF Global, Frame, Modes
<1>3. frames = <<Global>> /\ signal = "eval" /\ depth = 0 /\ outcome = "running"
  BY DEF Init
<1>4. /\ frames \in Seq(Frame) /\ Len(frames) = 1 /\ DOMAIN frames = 1..1
      /\ frames[1] = Global
  BY <1>2, <1>3
<1>5. ScopesUpTo(frames, 0) = 0 /\ ScopesUpTo(frames, 1) = 0
  BY <1>4, OwnedFacts DEF ScopesUpTo, Global, Functions, Calls
<1>6. Placed
  BY <1>4 DEF Placed, Global
<1>7. Scoped
  <2>1. \A i \in DOMAIN frames : frames[i].saved = ScopesUpTo(frames, i - 1)
    BY <1>4, <1>5 DEF Global
  <2> QED BY <1>1, <1>3, <1>4, <1>5, <1>6, <2>1 DEF Scoped, ScopesBalanced, ScopesThere
<1>8. CallsIn(frames) = {}
  BY <1>4 DEF CallsIn, Calls, Global
<1>9. call_stack = <<>> /\ error_stack = <<>> /\ <<>> \in Seq(1..MaxFrames)
  BY DEF Init
<1>10. DOMAIN call_stack = {}
  BY <1>9, LenProperties
<1>11. Stacked
  BY <1>8, <1>9, <1>10 DEF Stacked, StackMatchesCalls, Lists, Range
<1>12. Homed
  <2>1. jump = [home |-> 0, clear |-> FALSE, calls |-> {}]
    BY DEF Init, NoJump
  <2> QED BY <1>1, <2>1 DEF Homed
<1> QED BY <1>1, <1>3, <1>4, <1>7, <1>9, <1>11, <1>12
        DEF IInv, TypeOK, Traced, Homed, OnlyBlockedJumpsFail, Signals

\* The invariant is inductive.
LEMMA NextIInv == IInv /\ [Next]_vars => IInv'
<1> SUFFICES ASSUME IInv, [Next]_vars PROVE IInv'
  OBVIOUS
<1> USE DEF IInv
<1>1. CASE UNCHANGED vars
  BY <1>1 DEF vars, TypeOK, Scoped, Placed, ScopesBalanced, ScopesThere, Stacked,
              StackMatchesCalls, Traced, Homed, OnlyBlockedJumpsFail
<1>2. CASE Running /\ Step
  <2>1. Scoped' /\ Stacked' /\ Traced' /\ Homed' /\ OnlyBlockedJumpsFail'
        /\ outcome' \in {"running", "ok", "error", "internal", "crash"}
    BY <1>2, ScopesStep, StackStep, TracedStep, HomedStep, OutcomeStep
  <2>2. signal' \in Signals
    BY <1>2 DEF TypeOK, Step, Stays, Begins, Moves, EndsWith, StartsCall, StartsNext, EndsCall,
       Ends, RunMain, Becomes, MainEnds, GlobalFails, Crashes, Signals, Jumps
  <2> QED BY <2>1, <2>2 DEF TypeOK, Scoped, Stacked, Traced, Homed
<1> QED BY <1>1, <1>2, StepKinds DEF Scoped

\* The inductive invariant holds of every execution of the evaluator.
THEOREM Invariance == Spec => []IInv
BY InitIInv, NextIInv, PTL DEF Spec

\* Scopes are balanced on every way out of a block, a loop, an arm or a call.
THEOREM ScopesAreBalanced == Spec => []ScopesBalanced
<1>1. IInv => ScopesBalanced
  BY DEF IInv, Scoped
<1> QED BY <1>1, Invariance, PTL

\* CALL_STACK lists the calls in progress.
THEOREM StackIsTheCalls == Spec => []StackMatchesCalls
<1>1. IInv => StackMatchesCalls
  BY DEF IInv, Stacked
<1> QED BY <1>1, Invariance, PTL

\* The stack trace of an error is the calls in progress where it was raised.
THEOREM TraceIsWhereItFailed == Spec => []ErrorNamesItsCalls
<1>1. IInv => ErrorNamesItsCalls
  <2> SUFFICES ASSUME IInv, outcome = "error" PROVE Lists(error_stack, jump.calls)
    BY DEF ErrorNamesItsCalls
  <2>1. signal = "error" /\ CallsIn(frames) = {}
    BY DEF IInv, Traced
  <2>2. CASE error_stack # <<>>
    BY <2>1, <2>2 DEF IInv, Traced
  <2>3. CASE error_stack = <<>>
    <3>1. jump.calls = {} /\ <<>> \in Seq(1..MaxFrames)
      BY <2>1, <2>3 DEF IInv, Traced
    <3>2. DOMAIN error_stack = {}
      BY <2>3, <3>1, LenProperties
    <3> QED BY <3>1, <3>2 DEF Lists, Range
  <2> QED BY <2>2, <2>3
<1> QED BY <1>1, Invariance, PTL

\* Only a jump that meets a position that needs a value, or that belongs to
\* nothing, breaks a program.
THEOREM ClearJumpsSucceed == Spec => []OnlyBlockedJumpsFail
<1>1. IInv => OnlyBlockedJumpsFail
  BY DEF IInv
<1> QED BY <1>1, Invariance, PTL

\* A jump with a clear way ends in its own construct.
THEOREM ClearJumpsLand == Spec => JumpsLand
<1> DEFINE Land == jump.clear /\ ~jump'.clear =>
       /\ Len(frames) = jump.home
       /\ Len(frames') >= jump.home - 1
       /\ SubSeq(frames', 1, jump.home - 1) = Front(frames)
       /\ signal \in {"return", "break"} => Len(frames') = jump.home - 1
       /\ signal = "continue" => Len(frames') >= jump.home \/ Top.at = "forin_body"
<1>1. IInv /\ [Next]_vars => [Land]_vars
  <2> SUFFICES ASSUME IInv, Next, ~UNCHANGED vars PROVE Land
    OBVIOUS
  <2>1. Running /\ Step
    BY StepKinds DEF IInv, Scoped
  <2> QED BY <2>1, LandingStep DEF IInv
<1> QED BY <1>1, Invariance, PTL DEF Spec, JumpsLand
==============================================================================
