------------------------------ MODULE Operators ------------------------------
(***************************************************************************)
(* One operator, cast or index through inference (typechecker/             *)
(* inference.rs), construction (typechecker/construction.rs) and           *)
(* evaluation (evaluator/mod.rs, evaluator/lvalue.rs), in a body that is   *)
(* checked and in one that construction leaves generic.                    *)
(*                                                                         *)
(* Integers are those of Width bits.  Of a float only that it is one is    *)
(* kept: its operations give any float, its comparisons any answer.  The   *)
(* other values are a few of each type; Color is an enum and Meters a      *)
(* struct of the program.                                                  *)
(***************************************************************************)
EXTENDS Integers, Sequences, FiniteSets

CONSTANTS
  Width,     \* of an Int, in bits: 64 in the code
  UserFroms  \* the pairs <<T, S>> of the program's `impl From<S> for T`

ASSUME WidthAssumption == Width \in Nat \ {0, 1}

VARIABLES
  operation,  \* the operator, the types of its operands, the target of a cast
  body,       \* "checked" or "generic"
  build,      \* how the interpreter was compiled: "debug" or "release"
  phase,
  type,       \* what inference says of the result
  operands,   \* the values met
  outcome     \* a value, or how it ended: a code, "fault" for an internal error, "crash" for a Rust panic

vars == <<operation, body, build, phase, type, operands, outcome>>

MinInt == -(2 ^ (Width - 1))
MaxInt == 2 ^ (Width - 1) - 1
Ints == MinInt..MaxInt

Arithmetic == {"+", "-", "*", "/", "%"}
Equality == {"==", "!="}
Ordering == {"<", "<=", ">", ">="}
Logic == {"&&", "||"}
Ranges == {"..", "..="}
Assigning == {"+=", "-=", "*=", "/=", "%="}
Binary == Arithmetic \cup Equality \cup Ordering \cup Logic \cup Ranges \cup Assigning

Types == {"Int", "Float", "Bool", "String", "Unit", "Array", "Color", "Meters"}
Named == {"Int", "Float", "Bool", "String", "Color", "Meters"}  \* an `as` names one

Operations ==
  [op : Binary, types : Types \X Types]
    \cup [op : {"neg", "!"}, types : {<<t>> : t \in Types}]
    \cup [op : {"as"}, types : {<<t>> : t \in Types}, target : Named]
    \cup [op : {"[]"}, types : Types \X Types]

Value(t, v) == [is |-> "value", type |-> t, value |-> v]
Ends(how) == [is |-> how]
IntValue(n) == Value("Int", n)
BoolValue(b) == Value("Bool", b)
Float == Value("Float", "any")

Values(t) ==
  CASE t = "Int" -> {IntValue(n) : n \in Ints}
    [] t = "Bool" -> {BoolValue(b) : b \in BOOLEAN}
    [] t = "String" -> {Value(t, s) : s \in {"", "a"}}
    [] t = "Float" -> {Float}
    [] t = "Array" -> {Value(t, n) : n \in 0..2}  \* by its length
    [] OTHER -> {Value(t, "any")}

-----------------------------------------------------------------------------
(* Inference: the type of the result, or the code of the error.            *)

\* The conversions that exist, two of the language and those of the program;
\* none is found for an array.
has_from_impl(target, source) ==
  source # "Array" /\ <<target, source>> \in {<<"Int", "Float">>, <<"Float", "Int">>} \cup UserFroms

infer_cast(source, target) ==
  IF source = target \/ has_from_impl(target, source) THEN target ELSE "T0007"

infer_binop(op, l, r) ==
  CASE op \in Arithmetic -> IF l = r THEN l ELSE "T0001"
    [] op \in Equality \cup Ordering -> IF l = r THEN "Bool" ELSE "T0001"
    [] op \in Logic -> IF l = "Bool" /\ r = "Bool" THEN "Bool" ELSE "T0001"
    [] op \in Ranges -> IF l = "Int" /\ r = "Int" THEN "Range" ELSE "T0001"
    [] op \in Assigning -> IF l = r THEN "Unit" ELSE "T0001"

infer_expr(o) ==
  CASE o.op \in Binary -> infer_binop(o.op, o.types[1], o.types[2])
    [] o.op = "neg" -> o.types[1]
    [] o.op = "!" -> IF o.types[1] = "Bool" THEN "Bool" ELSE "T0001"
    [] o.op = "as" -> infer_cast(o.types[1], o.target)
    [] o.op = "[]" -> IF o.types = <<"Array", "Int">> THEN "Int" ELSE "T0001"

-----------------------------------------------------------------------------
(* Construction: the operands it admits, of those inference let through.   *)

\* Fault: any type is good enough for an operator.
construct_any(o) == TRUE

construct_expr(o) ==
  CASE o.op \in Arithmetic \cup {"neg"} -> o.types[1] \in {"Int", "Float"}
    [] o.op \in Ordering -> o.types[1] \in {"Int", "Float", "String"}
    [] OTHER -> TRUE

-----------------------------------------------------------------------------
(* Evaluation: the set of possible outcomes.                               *)

Modulus == 2 ^ Width
wrapped(n) == ((n - MinInt) % Modulus) + MinInt

\* What i64 makes of the result n of +, - and *, and of a negation.
fitted(n) ==
  IF n \in Ints THEN IntValue(n) ELSE IF build = "debug" THEN Ends("crash") ELSE IntValue(wrapped(n))

abs(n) == IF n < 0 THEN -n ELSE n
truncated_div(a, b) ==
  IF (a < 0) = (b < 0) THEN abs(a) \div abs(b) ELSE -(abs(a) \div abs(b))

\* Fault: the quotient is rounded down.
floored_div(a, b) == IF b > 0 THEN a \div b ELSE (-a) \div (-b)

i64_quotient(a, b) == truncated_div(a, b)

\* Division checks for zero; the one quotient that is too large is a panic
\* in every build, and so is the remainder that goes with it.
int_division(op, a, b) ==
  IF b = 0 THEN Ends("R0007")
  ELSE IF a = MinInt /\ b = -1 THEN Ends("crash")
  ELSE IF op = "/" THEN IntValue(i64_quotient(a, b))
  ELSE IntValue(a - b * i64_quotient(a, b))

int_arithmetic(op, a, b) ==
  CASE op = "+" -> fitted(a + b)
    [] op = "-" -> fitted(a - b)
    [] op = "*" -> fitted(a * b)
    [] op \in {"/", "%"} -> int_division(op, a, b)

int_comparison(op, a, b) ==
  CASE op = "<" -> a < b [] op = "<=" -> a <= b [] op = ">" -> a > b [] op = ">=" -> a >= b
    [] op = "==" -> a = b [] op = "!=" -> a # b

eval_binop(op, l, r) ==
  LET both(t) == l.type = t /\ r.type = t IN
  CASE op \in Arithmetic /\ both("Int") -> {int_arithmetic(op, l.value, r.value)}
    [] op \in Arithmetic /\ both("Float") -> {Float}
    [] op \in Equality \cup Ordering /\ both("Int") -> {BoolValue(int_comparison(op, l.value, r.value))}
    [] op \in Equality \cup Ordering /\ both("Float") -> {BoolValue(b) : b \in BOOLEAN}
    [] op \in Equality /\ (both("Bool") \/ both("String")) -> {BoolValue((l = r) <=> (op = "=="))}
    [] op \in Ranges /\ both("Int") ->
         {Value(IF op = ".." THEN "Range" ELSE "RangeInclusive", <<l.value, r.value>>)}
    [] OTHER -> {Ends("fault")}

plain_operator(op) ==
  CASE op = "+=" -> "+" [] op = "-=" -> "-" [] op = "*=" -> "*" [] op = "/=" -> "/" [] op = "%=" -> "%"

\* The new value of the variable; the expression itself is a unit.
apply_assign_op(op, current, r) == eval_binop(plain_operator(op), current, r)

\* The right operand counts only if the left one leaves it open, and is not
\* looked at.
eval_logic(op, l, r) ==
  IF l.type # "Bool" THEN {Ends("fault")} ELSE IF l.value = (op = "||") THEN {l} ELSE {r}

eval_unary(op, v) ==
  CASE op = "neg" /\ v.type = "Int" -> {fitted(-v.value)}
    [] op = "neg" /\ v.type = "Float" -> {v}
    [] op = "!" /\ v.type = "Bool" -> {BoolValue(~v.value)}
    [] OTHER -> {Ends("fault")}

eval_index(array, index) ==
  IF array.type # "Array" \/ index.type # "Int" THEN {Ends("fault")}
  ELSE IF index.value \in 0..(array.value - 1) THEN Values("Int") ELSE {Ends("R0004")}

\* The functions under `Int::from` and `Float::from`.
number_from(target, v) ==
  IF v.type \in {"Int", "Float"} THEN IF v.type = target THEN {v} ELSE Values(target) ELSE {Ends("fault")}

\* The conversion is looked up under the name of the value's type, which the
\* evaluator knows of structs and of primitive values only.
source_names == {"Meters", "Int", "Float", "Bool", "String"}

eval_cast(target, v) ==
  IF v.type \in source_names /\ <<target, v.type>> \in UserFroms THEN Values(target)
  ELSE IF target \in {"Int", "Float"} THEN number_from(target, v)
  ELSE {v}

eval_untyped_cast(target, v) ==
  CASE v.type = "Int" /\ target = "Float" -> {Float}
    [] v.type \in {"Int", "Float"} /\ target = v.type -> {v}
    [] OTHER -> {Ends("fault")}

eval_expr(o, vals) ==
  CASE o.op \in Logic -> eval_logic(o.op, vals[1], vals[2])
    [] o.op \in Assigning -> apply_assign_op(o.op, vals[1], vals[2])
    [] o.op \in Binary \ (Logic \cup Assigning) -> eval_binop(o.op, vals[1], vals[2])
    [] o.op \in {"neg", "!"} -> eval_unary(o.op, vals[1])
    [] o.op = "as" /\ body = "checked" -> eval_cast(o.target, vals[1])
    [] o.op = "as" /\ body = "generic" -> eval_untyped_cast(o.target, vals[1])
    [] o.op = "[]" -> eval_index(vals[1], vals[2])

-----------------------------------------------------------------------------
Codes == {"T0001", "T0005", "T0007"}

Init ==
  /\ operation \in Operations
  /\ body \in {"checked", "generic"}
  /\ build \in {"debug", "release"}
  /\ phase = "infer"
  /\ type = "Unit"
  /\ operands = <<>>
  /\ outcome = Ends("running")

Infer ==
  LET t == infer_expr(operation) IN
  /\ phase = "infer"
  /\ type' = t
  /\ phase' = IF t \in Codes THEN "end" ELSE IF body = "checked" THEN "construct" ELSE "eval"
  /\ outcome' = IF t \in Codes THEN Ends(t) ELSE outcome
  /\ UNCHANGED <<operation, body, build, operands>>

Construct ==
  /\ phase = "construct"
  /\ IF construct_expr(operation)
     THEN phase' = "eval" /\ UNCHANGED outcome
     ELSE phase' = "end" /\ outcome' = Ends("T0005")
  /\ UNCHANGED <<operation, body, build, type, operands>>

Eval ==
  /\ phase = "eval"
  /\ \E l \in Values(operation.types[1]), r \in Values(operation.types[Len(operation.types)]) :
       operands' = IF Len(operation.types) = 1 THEN <<l>> ELSE <<l, r>>
  /\ outcome' \in eval_expr(operation, operands')
  /\ phase' = "end"
  /\ UNCHANGED <<operation, body, build, type>>

Done == phase = "end" /\ UNCHANGED vars

Next == Infer \/ Construct \/ Eval \/ Done

Spec == Init /\ [][Next]_vars

-----------------------------------------------------------------------------
Ran == operands # <<>>

\* What the passes let through and the evaluator has no case for: in a body
\* that construction types, arithmetic is on numbers, and strings are the
\* only other values that are ordered.
Unsupported(o) ==
  LET t == o.types[1]
      number == t \in {"Int", "Float"}
  IN  \/ o.op \in Ordering /\ IF body = "checked" THEN t = "String" ELSE ~number
      \/ o.op \in Equality /\ t \notin {"Int", "Float", "Bool", "String"}
      \/ o.op \in Arithmetic \cup {"neg"} /\ body = "generic" /\ ~number
      \/ o.op \in Assigning /\ ~number
      \/ /\ o.op = "as" /\ body = "checked"
         /\ o.target \in {"Int", "Float"} /\ t \notin {"Int", "Float"} /\ t \notin source_names
      \/ /\ o.op = "as" /\ body = "generic"
         /\ ~(t = "Int" /\ o.target = "Float") /\ ~(number /\ t = o.target)

\* A cast of an enum gives the enum back, whatever it was cast to.
Unconverted(o) ==
  o.op = "as" /\ o.types[1] \notin source_names \cup {o.target} /\ o.target \notin {"Int", "Float"}

(* What passes inference, and construction where the body is checked,      *)
(* gives a value of the type inference gave it, R0007 or R0004, or the     *)
(* panic of an overflow -- and an internal error exactly for what is       *)
(* Unsupported, and a value of another type exactly for what is            *)
(* Unconverted or an inclusive range.                                      *)
OperatorsKeepTheirPromises ==
  Ran =>
    /\ outcome.is = "fault" <=> Unsupported(operation)
    /\ outcome.is = "value" =>
         LET declared == IF operation.op \in Assigning THEN operation.types[1] ELSE type
         IN  outcome.type # declared <=>
               operation.op = "..=" \/ (body = "checked" /\ Unconverted(operation))
    /\ outcome.is = "crash" => operation.types[1] = "Int"

\* The result of an operator on integers, without a width.
IsExact(op, a, b, n) ==
  CASE op = "+" -> n = a + b
    [] op = "-" -> n = a - b
    [] op = "*" -> n = a * b
    [] op = "/" -> \E r \in -abs(b)..abs(b) : abs(r) < abs(b) /\ a = n * b + r /\ r * a >= 0
    [] op = "%" -> abs(n) < abs(b) /\ n * a >= 0 /\ \E q \in -abs(a)..abs(a) : a = q * b + n

(* Arithmetic on integers is exact when the result fits, modulo 2^Width in *)
(* a release build and a panic in a debug build when it does not; a        *)
(* division by zero is R0007.  The smallest integer divided by -1 is a     *)
(* panic in both builds, and so is its remainder, which would fit.         *)
IntegersAreExact ==
  LET a == operands[1].value
      b == operands[2].value
      op == IF operation.op \in Assigning THEN plain_operator(operation.op) ELSE operation.op
      extreme == op \in {"/", "%"} /\ a = MinInt /\ b = -1
  IN  Ran /\ operation.op \in Arithmetic \cup Assigning /\ operation.types = <<"Int", "Int">> =>
        CASE outcome.is = "R0007" -> op \in {"/", "%"} /\ b = 0
          [] outcome.is = "crash" ->
               extreme \/ (build = "debug" /\ \A n \in Ints : ~IsExact(op, a, b, n))
          [] OTHER ->
               \/ IsExact(op, a, b, outcome.value)
               \/ /\ build = "release"
                  /\ \E k \in {-Modulus, Modulus} \cup {k * Modulus : k \in Ints} :
                       IsExact(op, a, b, outcome.value + k)
                  /\ \A n \in Ints : ~IsExact(op, a, b, n)

(* "The current interpreter uses Rust's i64 arithmetic which wraps on      *)
(* overflow in release builds and panics in debug builds"                  *)
(* (docs/internal/rfcs/rfc-0013-integer-overflow.md:16).                   *)
ReleaseBuildsWrap == build = "release" => outcome.is # "crash"

(* "user-defined types become castable by implementing From<SourceType>    *)
(* for the target type" (docs/public/spec/types.md:178).                   *)
CastsConvert ==
  Ran /\ operation.op = "as" => outcome.is = "value" /\ outcome.type = operation.target
=============================================================================
