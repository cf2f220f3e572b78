--------------------------- MODULE OperatorsProofs ---------------------------
(***************************************************************************)
(* What operators keep to for integers of every width and for every set    *)
(* of conversions of a program: integer arithmetic is exact where it fits, *)
(* and wraps or panics where it does not; and what the checker lets        *)
(* through has a value of its type, but for the cases that are named.      *)
(***************************************************************************)
EXTENDS Operators, FiniteSetTheorems, TLAPS

------------------------------------------------------------------------------
(* Powers of two, as numbers of subsets.                                   *)

\* A set of n elements has 2^n subsets.
LEMMA PowersCount ==
  ASSUME NEW n \in Nat
  PROVE  IsFiniteSet(SUBSET (1..n)) /\ Cardinality(SUBSET (1..n)) = 2 ^ n
<1>1. IsFiniteSet(1..n) /\ Cardinality(1..n) = n
  BY FS_Interval
<1> QED BY <1>1, FS_SUBSET

\* So it is a positive number.
LEMMA PowersArePositive ==
  ASSUME NEW n \in Nat
  PROVE  2 ^ n \in Nat \ {0}
<1>1. IsFiniteSet(SUBSET (1..n)) /\ Cardinality(SUBSET (1..n)) = 2 ^ n
  BY PowersCount
<1>2. SUBSET (1..n) # {}
  OBVIOUS
<1>3. Cardinality(SUBSET (1..n)) \in Nat
  BY <1>1, FS_CardinalityType
<1>4. Cardinality(SUBSET (1..n)) # 0
  BY <1>1, <1>2, FS_EmptySet
<1> QED BY <1>1, <1>3, <1>4

\* One more element gives as many subsets again: those that have it.
LEMMA OneMoreElement ==
  ASSUME NEW S, NEW x, x \notin S
  PROVE  ExistsBijection(SUBSET S, (SUBSET (S \cup {x})) \ SUBSET S)
<1> DEFINE A == SUBSET S
           B == (SUBSET (S \cup {x})) \ SUBSET S
           f == [T \in A |-> T \cup {x}]
<1>1. \A T \in A : f[T] \in B
  OBVIOUS
<1>2. ASSUME NEW T \in A, NEW U \in A, T \cup {x} = U \cup {x}
      PROVE  T = U
  <2>1. x \notin T /\ x \notin U
    OBVIOUS
  <2>2. T = (T \cup {x}) \ {x} /\ U = (U \cup {x}) \ {x}
    BY <2>1
  <2> QED BY <1>2, <2>2
<1>3. \A T, U \in A : f[T] = f[U] => T = U
  BY <1>2
<1>4. \A T \in B : \E U \in A : f[U] = T
  <2> TAKE T \in B
  <2>1. x \in T
    OBVIOUS
  <2>2. T \ {x} \in A /\ (T \ {x}) \cup {x} = T
    BY <2>1
  <2> QED BY <2>2
<1>5. f \in [A -> B]
  BY <1>1
<1> HIDE DEF A, B, f
<1>6. f \in Bijection(A, B)
  BY <1>3, <1>4, <1>5 DEF Bijection, Injection, Surjection, IsInjective
<1>7. ExistsBijection(A, B)
  BY <1>6 DEF ExistsBijection
<1> QED BY <1>7 DEF A, B

\* So the next power is twice as large.
LEMMA PowersDouble ==
  ASSUME NEW n \in Nat
  PROVE  2 ^ (n + 1) = 2 * 2 ^ n
<1> DEFINE S == 1..n
           A == SUBSET S
           B == (SUBSET (S \cup {n + 1})) \ SUBSET S
<1>1. n + 1 \notin S /\ S \cup {n + 1} = 1..(n + 1)
  OBVIOUS
<1>2. IsFiniteSet(A) /\ Cardinality(A) = 2 ^ n
  BY PowersCount
<1>3. Cardinality(SUBSET (S \cup {n + 1})) = 2 ^ (n + 1)
  <2>1. Cardinality(SUBSET (1..(n + 1))) = 2 ^ (n + 1)
    BY PowersCount
  <2> QED BY <1>1, <2>1
<1>4. 2 ^ n \in Nat
  BY PowersArePositive
<1>5. ExistsBijection(A, B)
  <2> HIDE DEF S
  <2> QED BY <1>1, OneMoreElement
<1> HIDE DEF S
<1>6. A \cup B = SUBSET (S \cup {n + 1}) /\ A \cap B = {}
  OBVIOUS
<1>7. IsFiniteSet(B) /\ Cardinality(B) = 2 ^ n
  <2> HIDE DEF A, B
  <2> QED BY <1>2, <1>5, FS_Bijection
<1>8. Cardinality(A \cup B) = Cardinality(A) + Cardinality(B) - Cardinality(A \cap B)
  <2> HIDE DEF A, B
  <2> QED BY <1>2, <1>7, FS_Union
<1>9. Cardinality(A \cap B) = 0
  BY <1>6, FS_EmptySet
<1>10. Cardinality(A \cup B) = 2 ^ (n + 1)
  BY <1>3, <1>6
<1> HIDE DEF A, B
<1> QED BY <1>2, <1>4, <1>7, <1>8, <1>9, <1>10

------------------------------------------------------------------------------
(* Integers of Width bits.                                                 *)

Half == 2 ^ (Width - 1)

\* The bounds of the integers, in terms of half their number.
LEMMA Bounds ==
  /\ Half \in Nat /\ Half >= 2
  /\ MinInt = -Half /\ MaxInt = Half - 1 /\ Modulus = 2 * Half
  /\ Ints \subseteq Int /\ \A n \in Int : n \in Ints <=> -Half <= n /\ n < Half
<1>1. Width - 1 \in Nat /\ Width - 2 \in Nat /\ Width - 2 + 1 = Width - 1 /\ Width - 1 + 1 = Width
  BY WidthAssumption
<1>2. Half \in Nat
  BY <1>1, PowersArePositive DEF Half
<1>3. Modulus = 2 * Half
  BY <1>1, PowersDouble DEF Modulus, Half
<1>4. Half = 2 * 2 ^ (Width - 2) /\ 2 ^ (Width - 2) \in Nat \ {0}
  BY <1>1, PowersDouble, PowersArePositive DEF Half
<1>5. MinInt = -Half /\ MaxInt = Half - 1
  BY DEF MinInt, MaxInt, Half
<1> QED BY <1>2, <1>3, <1>4, <1>5 DEF Ints

\* Division with remainder.
LEMMA Division ==
  ASSUME NEW x \in Int, NEW y \in Nat \ {0}
  PROVE  /\ x \div y \in Int /\ x % y \in 0..(y - 1)
         /\ x = y * (x \div y) + (x % y)
OBVIOUS

\* Wrapping gives an integer of the width, off by a multiple of the modulus.
LEMMA Wrapping ==
  ASSUME NEW n \in Int
  PROVE  /\ wrapped(n) \in Ints
         /\ (n - MinInt) \div Modulus \in Int
         /\ n = wrapped(n) + ((n - MinInt) \div Modulus) * Modulus
<1>1. n - MinInt \in Int /\ Modulus \in Nat \ {0}
  BY Bounds
<1>2. PICK q \in Int : q = (n - MinInt) \div Modulus
  BY <1>1, Division
<1>3. PICK r \in 0..(Modulus - 1) : r = (n - MinInt) % Modulus
  BY <1>1, Division
<1>4. n - MinInt = Modulus * q + r
  BY <1>1, <1>2, <1>3, Division
<1>5. wrapped(n) = r + MinInt
  BY <1>3 DEF wrapped
<1> QED BY <1>2, <1>3, <1>4, <1>5, Bounds

\* The product of two integers is at most the square of the half.
LEMMA Products ==
  ASSUME NEW a \in Ints, NEW b \in Ints
  PROVE  a * b \in Int /\ -(Half * Half) <= a * b /\ a * b <= Half * Half
<1>1. a \in Int /\ b \in Int /\ -Half <= a /\ a < Half /\ -Half <= b /\ b < Half /\ Half \in Nat
  BY Bounds
<1>2. \A x, y \in Nat : x <= Half /\ y <= Half => x * y <= Half * Half /\ x * y >= 0
  <2> SUFFICES ASSUME NEW x \in Nat, NEW y \in Nat, x <= Half, y <= Half
               PROVE  x * y <= Half * Half /\ x * y >= 0
    OBVIOUS
  <2>1. PICK u \in Nat : Half = x + u
    <3>1. Half - x \in Nat /\ Half = x + (Half - x)
      BY <1>1
    <3> QED BY <3>1
  <2>2. PICK w \in Nat : Half = y + w
    <3>1. Half - y \in Nat /\ Half = y + (Half - y)
      BY <1>1
    <3> QED BY <3>1
  <2>3. Half * Half = x * y + x * w + u * y + u * w
    BY <2>1, <2>2
  <2>4. x * y >= 0 /\ x * w >= 0 /\ u * y >= 0 /\ u * w >= 0
    OBVIOUS
  <2> QED BY <1>1, <2>3, <2>4
<1>3. CASE a >= 0 /\ b >= 0
  BY <1>1, <1>2, <1>3
<1>4. CASE a >= 0 /\ b < 0
  <2>1. a * b = -(a * (-b)) /\ -b \in Nat /\ a \in Nat
    BY <1>1, <1>4
  <2> QED BY <1>1, <1>2, <2>1
<1>5. CASE a < 0 /\ b >= 0
  <2>1. a * b = -((-a) * b) /\ -a \in Nat /\ b \in Nat
    BY <1>1, <1>5
  <2> QED BY <1>1, <1>2, <2>1
<1>6. CASE a < 0 /\ b < 0
  <2>1. a * b = (-a) * (-b) /\ -a \in Nat /\ -b \in Nat
    BY <1>1, <1>6
  <2> QED BY <1>1, <1>2, <2>1
<1> QED BY <1>1, <1>3, <1>4, <1>5, <1>6

\* The result without a width of +, - and *.
Exactly(op, a, b) == CASE op = "+" -> a + b [] op = "-" -> a - b [] op = "*" -> a * b

\* It is so close that it wraps by a multiple of the modulus that is itself
\* an integer of the width.
LEMMA WrapsOnce ==
  ASSUME NEW a \in Ints, NEW b \in Ints, NEW op \in {"+", "-", "*"}
  PROVE  /\ Exactly(op, a, b) \in Int
         /\ \E k \in Ints : Exactly(op, a, b) = wrapped(Exactly(op, a, b)) + k * Modulus
<1>1. a \in Int /\ b \in Int /\ -Half <= a /\ a < Half /\ -Half <= b /\ b < Half
      /\ Half \in Nat /\ Half >= 2 /\ Modulus = 2 * Half /\ MinInt = -Half
  BY Bounds
<1>2. PICK n : n = Exactly(op, a, b)
  OBVIOUS
<1>3. Half * Half >= 2 * Half
  BY <1>1
<1>4. n \in Int /\ -(Half * Half) <= n /\ n <= Half * Half
  <2>1. CASE op = "*"
    BY <1>2, <2>1, Products DEF Exactly
  <2>2. CASE op = "+"
    BY <1>1, <1>2, <1>3, <2>2 DEF Exactly
  <2>3. CASE op = "-"
    BY <1>1, <1>2, <1>3, <2>3 DEF Exactly
  <2> QED BY <2>1, <2>2, <2>3
<1>5. PICK k : k = (n - MinInt) \div Modulus
  OBVIOUS
<1>6. /\ wrapped(n) \in Ints /\ k \in Int /\ n = wrapped(n) + k * Modulus
  BY <1>4, <1>5, Wrapping
<1>7. wrapped(n) \in Int /\ -Half <= wrapped(n) /\ wrapped(n) < Half
  BY <1>6, Bounds
<1>8. k * (2 * Half) <= Half * Half + Half /\ k * (2 * Half) >= -(Half * Half) - Half
  BY <1>1, <1>4, <1>6, <1>7
<1>9. k < Half
  <2> SUFFICES ASSUME k >= Half PROVE FALSE
    BY <1>1, <1>6
  <2>1. PICK u \in Nat : k = Half + u
    <3>1. k - Half \in Nat /\ k = Half + (k - Half)
      BY <1>1, <1>6
    <3> QED BY <3>1
  <2>2. k * (2 * Half) = Half * Half + Half * Half + 2 * (u * Half) /\ u * Half >= 0
    BY <1>1, <2>1
  <2> QED BY <1>1, <1>3, <1>8, <2>2
<1>10. k >= -Half
  <2> SUFFICES ASSUME k < -Half PROVE FALSE
    BY <1>1, <1>6
  <2>1. PICK u \in Nat : k = -Half - u
    <3>1. -Half - k \in Nat /\ k = -Half - (-Half - k)
      BY <1>1, <1>6
    <3> QED BY <3>1
  <2>2. k * (2 * Half) = -(Half * Half) - Half * Half - 2 * (u * Half) /\ u * Half >= 0
    BY <1>1, <2>1
  <2> QED BY <1>1, <1>3, <1>8, <2>2
<1>11. k \in Ints
  BY <1>6, <1>9, <1>10, Bounds
<1> QED BY <1>2, <1>4, <1>6, <1>11

\* The quotient is rounded towards zero, and the remainder goes with the
\* dividend.
LEMMA Quotient ==
  ASSUME NEW a \in Int, NEW b \in Int \ {0}
  PROVE  LET q == i64_quotient(a, b)
             r == a - b * q
         IN  /\ q \in Int /\ r \in Int /\ a = q * b + r
             /\ q \in -abs(a)..abs(a) /\ r \in -abs(b)..abs(b)
             /\ abs(r) < abs(b) /\ r * a >= 0
<1>1. PICK x \in Nat : x = abs(a)
  BY DEF abs
<1>2. PICK y \in Nat \ {0} : y = abs(b)
  BY DEF abs
<1>3. PICK d \in Int : d = x \div y
  BY Division
<1>4. PICK m \in 0..(y - 1) : m = x % y
  BY Division
<1>5. x = y * d + m
  BY <1>3, <1>4, Division
<1>6. d \in Nat /\ d <= x
  <2>1. d >= 0
    <3> SUFFICES ASSUME d < 0 PROVE FALSE
      BY <1>3
    <3>1. PICK u \in Nat : d = -1 - u
      <4>1. -1 - d \in Nat /\ d = -1 - (-1 - d)
        BY <1>3
      <4> QED BY <4>1
    <3>2. y * d = -y - y * u /\ y * u >= 0
      BY <3>1
    <3> QED BY <1>4, <1>5, <3>2
  <2>2. PICK z \in Nat : y = z + 1
    <3>1. y - 1 \in Nat /\ y = (y - 1) + 1
      BY <1>2
    <3> QED BY <3>1
  <2>3. y * d = d + z * d /\ z * d >= 0
    BY <2>1, <2>2, <1>3
  <2> QED BY <1>3, <1>4, <1>5, <2>1, <2>3
<1>7. x * m >= 0
  BY <1>4
<1> DEFINE q == i64_quotient(a, b)
           r == a - b * q
<1>8. /\ q \in {d, -d} /\ r \in {m, -m} /\ r * a = x * m
  <2>1. CASE a >= 0 /\ b > 0
    <3>1. x = a /\ y = b /\ q = d
      BY <1>1, <1>2, <1>3, <2>1 DEF abs, i64_quotient, truncated_div
    <3> HIDE DEF q
    <3>2. r = m
      BY <1>3, <1>4, <1>5, <3>1
    <3> QED BY <3>1, <3>2
  <2>2. CASE a >= 0 /\ b < 0
    <3>1. x = a /\ y = -b /\ q = -d
      BY <1>1, <1>2, <1>3, <2>2 DEF abs, i64_quotient, truncated_div
    <3> HIDE DEF q
    <3>2. r = m
      <4>1. b * q = y * d
        BY <1>3, <3>1
      <4>2. y * d = x - m
        BY <1>3, <1>4, <1>5
      <4> QED BY <1>4, <3>1, <4>1, <4>2
    <3> QED BY <3>1, <3>2
  <2>3. CASE a < 0 /\ b > 0
    <3>1. a = -x /\ y = b /\ q = -d
      BY <1>1, <1>2, <1>3, <2>3 DEF abs, i64_quotient, truncated_div
    <3> HIDE DEF q
    <3>2. r = -m
      <4>1. b * q = -(y * d)
        BY <1>3, <3>1
      <4> QED BY <1>3, <1>4, <1>5, <3>1, <4>1
    <3> QED BY <3>1, <3>2
  <2>4. CASE a < 0 /\ b < 0
    <3>1. a = -x /\ y = -b /\ q = d
      BY <1>1, <1>2, <1>3, <2>4 DEF abs, i64_quotient, truncated_div
    <3> HIDE DEF q
    <3>2. r = -m
      <4>1. b * q = -(y * d)
        BY <1>3, <3>1
      <4> QED BY <1>3, <1>4, <1>5, <3>1, <4>1
    <3> QED BY <3>1, <3>2
  <2> QED BY <2>1, <2>2, <2>3, <2>4
<1>9. q \in Int /\ q \in -x..x
  <2> HIDE DEF q
  <2> QED BY <1>6, <1>8
<1>10. r \in Int /\ r \in -y..y /\ abs(r) < y
  <2> HIDE DEF r
  <2> QED BY <1>4, <1>8 DEF abs
<1>11. a = q * b + r
  <2> HIDE DEF q
  <2> QED BY <1>9
<1> HIDE DEF q, r
<1>12. r * a >= 0
  BY <1>7, <1>8
<1>13. /\ q \in Int /\ r \in Int /\ a = q * b + r
       /\ q \in -abs(a)..abs(a) /\ r \in -abs(b)..abs(b)
       /\ abs(r) < abs(b) /\ r * a >= 0
  BY <1>1, <1>2, <1>9, <1>10, <1>11, <1>12
<1> QED BY <1>13 DEF q, r

\* What division gives is exact.
LEMMA DivisionIsExact ==
  ASSUME NEW a \in Int, NEW b \in Int \ {0}
  PROVE  /\ IsExact("/", a, b, i64_quotient(a, b))
         /\ IsExact("%", a, b, a - b * i64_quotient(a, b))
<1>1. PICK q : q = i64_quotient(a, b)
  OBVIOUS
<1>2. PICK r : r = a - b * q
  OBVIOUS
<1>3. /\ q \in Int /\ r \in Int /\ a = q * b + r
      /\ q \in -abs(a)..abs(a) /\ r \in -abs(b)..abs(b)
      /\ abs(r) < abs(b) /\ r * a >= 0
  BY <1>1, <1>2, Quotient
<1>4. \E s \in -abs(b)..abs(b) : abs(s) < abs(b) /\ a = q * b + s /\ s * a >= 0
  BY <1>3
<1>5. \E s \in -abs(a)..abs(a) : a = s * b + r
  BY <1>3
<1> QED BY <1>1, <1>2, <1>3, <1>4, <1>5 DEF IsExact

------------------------------------------------------------------------------
(* What an operation is run with.                                          *)

\* The parts of a value.
LEMMA ValueParts ==
  ASSUME NEW t, NEW v
  PROVE  Value(t, v).is = "value" /\ Value(t, v).type = t /\ Value(t, v).value = v
BY DEF Value

\* The integers.
LEMMA IntValues == Values("Int") = {IntValue(n) : n \in Ints}
BY DEF Values

\* The Booleans.
LEMMA BoolValues == Values("Bool") = {BoolValue(b) : b \in BOOLEAN}
BY Zenon DEF Values

\* The strings.
LEMMA StringValues == Values("String") = {Value("String", s) : s \in {"", "a"}}
BY Zenon DEF Values

\* The arrays, by their length.
LEMMA ArrayValues == Values("Array") = {Value("Array", n) : n \in 0..2}
BY DEF Values

\* The types of one value.
LEMMA OtherValues ==
  /\ Values("Float") = {Float}
  /\ \A t \in {"Unit", "Color", "Meters"} : Values(t) = {Value(t, "any")}
BY DEF Values

\* The values of a type are values of the type.
LEMMA ValueFacts ==
  ASSUME NEW t \in Types, NEW v \in Values(t)
  PROVE  \E x : v = Value(t, x) /\ v.is = "value" /\ v.type = t
<1>1. \E x : v = Value(t, x)
  <2>1. CASE t = "Int"
    BY <2>1, IntValues DEF IntValue
  <2>2. CASE t = "Bool"
    BY <2>2, BoolValues, Zenon DEF BoolValue
  <2>3. CASE t = "String"
    BY <2>3, StringValues, Zenon
  <2>4. CASE t = "Array"
    BY <2>4, ArrayValues
  <2>5. CASE t \in {"Float", "Unit", "Color", "Meters"}
    BY <2>5, OtherValues DEF Float
  <2> QED BY <2>1, <2>2, <2>3, <2>4, <2>5 DEF Types
<1> QED BY <1>1, ValueParts

\* The operators by the number of their operands.
LEMMA OperationKinds ==
  ASSUME NEW o \in Operations
  PROVE  \/ /\ o.op \in Binary \cup {"[]"}
            /\ \E s, t \in Types : o.types = <<s, t>>
         \/ /\ o.op \in {"neg", "!"}
            /\ \E t \in Types : o.types = <<t>>
         \/ /\ o.op = "as" /\ o.target \in Named
            /\ \E t \in Types : o.types = <<t>>
BY DEF Operations

\* Inference and construction let the operation through.
Admitted ==
  /\ body \in {"checked", "generic"}
  /\ infer_expr(operation) \notin Codes
  /\ body = "checked" => construct_expr(operation)

\* Values of the types of the operation.
Fitting(vals) ==
  \/ \E s \in Types : operation.types = <<s>> /\ \E l \in Values(s) : vals = <<l>>
  \/ \E s, t \in Types : /\ operation.types = <<s, t>>
                         /\ \E l \in Values(s), r \in Values(t) : vals = <<l, r>>

\* The evaluator takes operands that fit.
LEMMA OperandsFit ==
  ASSUME operation \in Operations, Eval
  PROVE  Fitting(operands')
<1>1. PICK l \in Values(operation.types[1]), r \in Values(operation.types[Len(operation.types)]) :
        operands' = IF Len(operation.types) = 1 THEN <<l>> ELSE <<l, r>>
  BY DEF Eval
<1>2. CASE \E t \in Types : operation.types = <<t>>
  <2>1. PICK t \in Types : operation.types = <<t>>
    BY <1>2
  <2>2. l \in Values(t) /\ operands' = <<l>>
    BY <1>1, <2>1
  <2> QED BY <2>1, <2>2 DEF Fitting
<1>3. CASE \E s, t \in Types : operation.types = <<s, t>>
  <2>1. PICK s \in Types, t \in Types : operation.types = <<s, t>>
    BY <1>3
  <2>2. l \in Values(s) /\ r \in Values(t) /\ operands' = <<l, r>>
    BY <1>1, <2>1
  <2> QED BY <2>1, <2>2 DEF Fitting
<1> QED BY <1>2, <1>3, OperationKinds

------------------------------------------------------------------------------
(* What the evaluator gives, case by case.                                 *)

Both(l, r, t) == l.type = t /\ r.type = t

\* The operators are different ones.
LEMMA OperatorNames ==
  /\ Binary = {"+", "-", "*", "/", "%", "==", "!=", "<", "<=", ">", ">=", "&&", "||", "..", "..=",
               "+=", "-=", "*=", "/=", "%="}
  /\ Arithmetic = {"+", "-", "*", "/", "%"} /\ Equality = {"==", "!="}
  /\ Ordering = {"<", "<=", ">", ">="} /\ Logic = {"&&", "||"} /\ Ranges = {"..", "..="}
  /\ Assigning = {"+=", "-=", "*=", "/=", "%="}
BY DEF Binary, Arithmetic, Equality, Ordering, Logic, Ranges, Assigning

\* Binary operators on numbers.
LEMMA BinopOnNumbers ==
  ASSUME NEW op, NEW l, NEW r
  PROVE  /\ op \in Arithmetic /\ Both(l, r, "Int") =>
              eval_binop(op, l, r) = {int_arithmetic(op, l.value, r.value)}
         /\ op \in Arithmetic /\ Both(l, r, "Float") => eval_binop(op, l, r) = {Float}
         /\ op \in Equality \cup Ordering /\ Both(l, r, "Int") =>
              eval_binop(op, l, r) = {BoolValue(int_comparison(op, l.value, r.value))}
         /\ op \in Equality \cup Ordering /\ Both(l, r, "Float") =>
              eval_binop(op, l, r) = {BoolValue(b) : b \in BOOLEAN}
BY OperatorNames DEF eval_binop, Both

\* Equality of other values.
LEMMA BinopOnOthers ==
  ASSUME NEW op \in Equality, NEW l, NEW r, Both(l, r, "Bool") \/ Both(l, r, "String")
  PROVE  \E b : eval_binop(op, l, r) = {BoolValue(b)}
<1>1. eval_binop(op, l, r) = {BoolValue((l = r) <=> (op = "=="))}
  BY OperatorNames DEF eval_binop, Both
<1> QED BY <1>1, Zenon

\* Ranges.
LEMMA BinopOnRanges ==
  ASSUME NEW op \in Ranges, NEW l, NEW r, Both(l, r, "Int")
  PROVE  eval_binop(op, l, r) =
           {Value(IF op = ".." THEN "Range" ELSE "RangeInclusive", <<l.value, r.value>>)}
BY OperatorNames DEF eval_binop, Both

\* Everything else is an internal error.
LEMMA BinopFaults ==
  ASSUME NEW op, NEW l, NEW r,
         op \in Arithmetic \cup Ordering => ~Both(l, r, "Int") /\ ~Both(l, r, "Float"),
         op \in Equality => \A t \in {"Int", "Float", "Bool", "String"} : ~Both(l, r, t),
         op \in Ranges => ~Both(l, r, "Int")
  PROVE  eval_binop(op, l, r) = {Ends("fault")}
BY OperatorNames DEF eval_binop, Both

\* Integer arithmetic gives an integer, or ends.
LEMMA IntArithmetic ==
  ASSUME NEW op \in Arithmetic, NEW a, NEW b
  PROVE  \/ \E n : int_arithmetic(op, a, b) = IntValue(n)
         \/ int_arithmetic(op, a, b) \in {Ends("crash"), Ends("R0007")}
<1>1. \A n : fitted(n) \in {Ends("crash"), IntValue(n), IntValue(wrapped(n))}
  BY DEF fitted
<1>2. CASE op \in {"+", "-", "*"}
  <2>1. \E n : int_arithmetic(op, a, b) = fitted(n)
    BY <1>2 DEF int_arithmetic
  <2> QED BY <1>1, <2>1
<1>3. CASE op \in {"/", "%"}
  BY <1>3 DEF int_arithmetic, int_division
<1> QED BY <1>2, <1>3, OperatorNames

------------------------------------------------------------------------------
(* The outcomes of an operation that was admitted.                         *)

\* The type that inference promises, and what is kept of the promise.
Declared == IF operation.op \in Assigning THEN operation.types[1] ELSE infer_expr(operation)

Promised(out) ==
  /\ out.is = "fault" <=> Unsupported(operation)
  /\ out.is = "value" =>
       (out.type # Declared <=>
          operation.op = "..=" \/ (body = "checked" /\ Unconverted(operation)))
  /\ out.is = "crash" => operation.types[1] = "Int"

\* The parts of an end.
LEMMA EndsParts == \A how : Ends(how).is = how
BY DEF Ends

\* The parts of the values that operators make.
LEMMA MadeParts ==
  /\ \A n : IntValue(n).is = "value" /\ IntValue(n).type = "Int" /\ IntValue(n).value = n
  /\ \A b : BoolValue(b).is = "value" /\ BoolValue(b).type = "Bool" /\ BoolValue(b).value = b
  /\ Float.is = "value" /\ Float.type = "Float"
BY ValueParts, Zenon DEF IntValue, BoolValue, Float

\* A binary operation that fits has operands of its two types.
LEMMA TwoOperands ==
  ASSUME operation \in Operations, operation.op \in Binary \cup {"[]"}, NEW vals, Fitting(vals)
  PROVE  \E s, t \in Types :
           /\ operation.types = <<s, t>>
           /\ vals[1] \in Values(s) /\ vals[2] \in Values(t)
           /\ vals[1].type = s /\ vals[2].type = t
<1>1. PICK s \in Types, t \in Types : operation.types = <<s, t>>
  BY OperationKinds, OperatorNames
<1>2. PICK l \in Values(s), r \in Values(t) : vals = <<l, r>>
  BY <1>1 DEF Fitting
<1>3. l.type = s /\ r.type = t
  BY ValueFacts
<1> QED BY <1>1, <1>2, <1>3

\* And a unary one has one.
LEMMA OneOperand ==
  ASSUME operation \in Operations, operation.op \in {"neg", "!", "as"}, NEW vals, Fitting(vals)
  PROVE  \E t \in Types :
           operation.types = <<t>> /\ vals[1] \in Values(t) /\ vals[1].is = "value" /\ vals[1].type = t
<1>1. PICK t \in Types : operation.types = <<t>>
  BY OperationKinds, OperatorNames
<1>2. PICK l \in Values(t) : vals = <<l>>
  BY <1>1 DEF Fitting
<1>3. l.is = "value" /\ l.type = t
  BY ValueFacts
<1> QED BY <1>1, <1>2, <1>3

\* What inference says of binary operators.
LEMMA InferredBinary ==
  ASSUME NEW o, o.op \in Binary, infer_expr(o) \notin Codes
  PROVE  /\ o.op \in Arithmetic => o.types[1] = o.types[2] /\ infer_expr(o) = o.types[1]
         /\ o.op \in Equality \cup Ordering => o.types[1] = o.types[2] /\ infer_expr(o) = "Bool"
         /\ o.op \in Logic => o.types[1] = "Bool" /\ o.types[2] = "Bool" /\ infer_expr(o) = "Bool"
         /\ o.op \in Ranges => o.types[1] = "Int" /\ o.types[2] = "Int" /\ infer_expr(o) = "Range"
         /\ o.op \in Assigning => o.types[1] = o.types[2] /\ infer_expr(o) = "Unit"
<1>1. PICK l : l = o.types[1]
  OBVIOUS
<1>2. PICK r : r = o.types[2]
  OBVIOUS
<1>3. infer_expr(o) = infer_binop(o.op, l, r)
  BY <1>1, <1>2, OperatorNames DEF infer_expr
<1>4. infer_binop(o.op, l, r) # "T0001"
  BY <1>3 DEF Codes
<1>5. o.op \in Arithmetic => l = r /\ infer_binop(o.op, l, r) = l
  BY <1>4, OperatorNames DEF infer_binop
<1>6. o.op \in Equality \cup Ordering => l = r /\ infer_binop(o.op, l, r) = "Bool"
  BY <1>4, OperatorNames DEF infer_binop
<1>7. o.op \in Logic => l = "Bool" /\ r = "Bool" /\ infer_binop(o.op, l, r) = "Bool"
  BY <1>4, OperatorNames DEF infer_binop
<1>8. o.op \in Ranges => l = "Int" /\ r = "Int" /\ infer_binop(o.op, l, r) = "Range"
  BY <1>4, OperatorNames DEF infer_binop
<1>9. o.op \in Assigning => l = r /\ infer_binop(o.op, l, r) = "Unit"
  BY <1>4, OperatorNames DEF infer_binop
<1> QED BY <1>1, <1>2, <1>3, <1>5, <1>6, <1>7, <1>8, <1>9

\* Arithmetic.
LEMMA ArithmeticKeeps ==
  ASSUME operation \in Operations, operation.op \in Arithmetic, Admitted,
         NEW vals, Fitting(vals), NEW out \in eval_expr(operation, vals)
  PROVE  Promised(out)
<1>1. operation.op \in Binary /\ operation.op \notin Assigning \cup Logic
      /\ operation.op \notin Equality \cup Ordering /\ operation.op \notin {"neg", "as", "..="}
  BY OperatorNames
<1>2. PICK s \in Types, t \in Types :
        /\ operation.types = <<s, t>> /\ vals[1].type = s /\ vals[2].type = t
  BY <1>1, TwoOperands
<1>3. out \in eval_binop(operation.op, vals[1], vals[2])
  BY <1>1, OperatorNames DEF eval_expr
<1>4. s = t /\ Declared = s
  BY <1>1, <1>2, InferredBinary DEF Admitted, Declared
<1>5. body = "checked" => s \in {"Int", "Float"}
  BY <1>1, <1>2 DEF Admitted, construct_expr
<1>6. Unsupported(operation) <=> s \notin {"Int", "Float"}
  BY <1>1, <1>2, <1>5 DEF Admitted, Unsupported
<1>7. ~Unconverted(operation)
  BY <1>1 DEF Unconverted
<1>8. CASE s = "Int"
  <2>1. out = int_arithmetic(operation.op, vals[1].value, vals[2].value)
    BY <1>2, <1>3, <1>4, <1>8, BinopOnNumbers DEF Both
  <2>2. \/ \E n : out = IntValue(n)
        \/ out \in {Ends("crash"), Ends("R0007")}
    BY <2>1, IntArithmetic
  <2>3. \/ out.is = "value" /\ out.type = "Int"
        \/ out.is \in {"crash", "R0007"}
    BY <2>2, EndsParts, MadeParts
  <2> QED BY <1>1, <1>2, <1>4, <1>6, <1>7, <1>8, <2>3 DEF Promised
<1>9. CASE s = "Float"
  <2>1. out = Float
    BY <1>2, <1>3, <1>4, <1>9, BinopOnNumbers DEF Both
  <2> QED BY <1>1, <1>2, <1>4, <1>6, <1>7, <1>9, <2>1, MadeParts DEF Promised
<1>10. CASE s \notin {"Int", "Float"}
  <2>1. out = Ends("fault")
    BY <1>1, <1>2, <1>3, <1>10, BinopFaults, OperatorNames DEF Both
  <2> QED BY <1>6, <1>10, <2>1, EndsParts DEF Promised
<1> QED BY <1>8, <1>9, <1>10

\* Comparisons.
LEMMA ComparisonsKeep ==
  ASSUME operation \in Operations, operation.op \in Equality \cup Ordering, Admitted,
         NEW vals, Fitting(vals), NEW out \in eval_expr(operation, vals)
  PROVE  Promised(out)
<1>1. operation.op \in Binary /\ operation.op \notin Assigning \cup Logic
      /\ operation.op \notin Arithmetic \cup Ranges /\ operation.op \notin {"neg", "as", "..="}
  BY OperatorNames
<1>2. PICK s \in Types, t \in Types :
        /\ operation.types = <<s, t>> /\ vals[1].type = s /\ vals[2].type = t
  BY <1>1, TwoOperands
<1>3. out \in eval_binop(operation.op, vals[1], vals[2])
  BY <1>1, OperatorNames DEF eval_expr
<1>4. s = t /\ Declared = "Bool"
  BY <1>1, <1>2, InferredBinary DEF Admitted, Declared
<1>5. operation.op \in Ordering /\ body = "checked" => s \in {"Int", "Float", "String"}
  BY <1>1, <1>2 DEF Admitted, construct_expr
<1>6. ~Unconverted(operation)
  BY <1>1 DEF Unconverted
<1>7. ASSUME NEW b, out = BoolValue(b), ~Unsupported(operation)
      PROVE  Promised(out)
  <2>1. out.is = "value" /\ out.type = "Bool"
    BY <1>7, MadeParts, Zenon
  <2> QED BY <1>1, <1>4, <1>6, <1>7, <2>1 DEF Promised
<1>8. ASSUME out = Ends("fault"), Unsupported(operation)
      PROVE  Promised(out)
  BY <1>8, EndsParts DEF Promised
<1>9. CASE s = "Int"
  <2>1. out = BoolValue(int_comparison(operation.op, vals[1].value, vals[2].value))
    BY <1>2, <1>3, <1>4, <1>9, BinopOnNumbers DEF Both
  <2>2. ~Unsupported(operation)
    BY <1>1, <1>2, <1>9 DEF Unsupported
  <2> QED BY <1>7, <2>1, <2>2, Zenon
<1>10. CASE s = "Float"
  <2>1. \E b \in BOOLEAN : out = BoolValue(b)
    BY <1>2, <1>3, <1>4, <1>10, BinopOnNumbers DEF Both
  <2>2. ~Unsupported(operation)
    BY <1>1, <1>2, <1>10 DEF Unsupported
  <2> QED BY <1>7, <2>1, <2>2, Zenon
<1>11. CASE operation.op \in Equality /\ s \in {"Bool", "String"}
  <2>1. Both(vals[1], vals[2], "Bool") \/ Both(vals[1], vals[2], "String")
    BY <1>2, <1>4, <1>11 DEF Both
  <2>2. \E b : out = BoolValue(b)
    <3>1. PICK b : eval_binop(operation.op, vals[1], vals[2]) = {BoolValue(b)}
      BY <1>11, <2>1, BinopOnOthers
    <3>2. out = BoolValue(b)
      BY <1>3, <3>1, Zenon
    <3> QED BY <3>2, Zenon
  <2>3. ~Unsupported(operation)
    BY <1>1, <1>2, <1>11, OperatorNames DEF Unsupported
  <2> QED BY <1>7, <2>2, <2>3, Zenon
<1>12. CASE operation.op \in Equality /\ s \notin {"Int", "Float", "Bool", "String"}
  <2>1. out = Ends("fault")
    BY <1>1, <1>2, <1>3, <1>12, BinopFaults, OperatorNames DEF Both
  <2>2. Unsupported(operation)
    BY <1>1, <1>2, <1>12 DEF Unsupported
  <2> QED BY <1>8, <2>1, <2>2
<1>13. CASE operation.op \in Ordering /\ s \notin {"Int", "Float"}
  <2>1. out = Ends("fault")
    BY <1>1, <1>2, <1>3, <1>13, BinopFaults, OperatorNames DEF Both
  <2>2. Unsupported(operation)
    BY <1>1, <1>2, <1>5, <1>13 DEF Unsupported
  <2> QED BY <1>8, <2>1, <2>2
<1> QED BY <1>9, <1>10, <1>11, <1>12, <1>13

\* Logic and ranges.
LEMMA LogicAndRangesKeep ==
  ASSUME operation \in Operations, operation.op \in Logic \cup Ranges, Admitted,
         NEW vals, Fitting(vals), NEW out \in eval_expr(operation, vals)
  PROVE  Promised(out)
<1>1. operation.op \in Binary /\ operation.op \notin Assigning \cup Arithmetic
      /\ operation.op \notin Equality \cup Ordering /\ operation.op \notin {"neg", "as", "!", "[]"}
  BY OperatorNames
<1>2. PICK s \in Types, t \in Types :
        /\ operation.types = <<s, t>>
        /\ vals[1] \in Values(s) /\ vals[2] \in Values(t)
        /\ vals[1].type = s /\ vals[2].type = t
  BY <1>1, TwoOperands
<1>3. ~Unsupported(operation) /\ ~Unconverted(operation)
  BY <1>1 DEF Unsupported, Unconverted
<1>4. CASE operation.op \in Logic
  <2>1. operation.op # "..=" /\ operation.op \notin Ranges
    BY <1>4, OperatorNames
  <2>2. s = "Bool" /\ t = "Bool" /\ Declared = "Bool"
    BY <1>1, <1>2, <1>4, InferredBinary DEF Admitted, Declared
  <2>3. out \in {vals[1], vals[2]}
    <3>1. out \in eval_logic(operation.op, vals[1], vals[2])
      BY <1>4, OperatorNames DEF eval_expr
    <3> QED BY <1>2, <2>2, <3>1, Zenon DEF eval_logic
  <2>4. vals[1].is = "value" /\ vals[2].is = "value"
    BY <1>2, ValueFacts
  <2> QED BY <1>1, <1>2, <1>3, <2>1, <2>2, <2>3, <2>4 DEF Promised
<1>5. CASE operation.op \in Ranges
  <2>1. operation.op \notin Logic
    BY <1>5, OperatorNames
  <2>2. s = "Int" /\ t = "Int" /\ Declared = "Range"
    BY <1>1, <1>2, <1>5, <2>1, InferredBinary DEF Admitted, Declared
  <2>3. out \in eval_binop(operation.op, vals[1], vals[2])
    BY <1>1, <2>1, OperatorNames DEF eval_expr
  <2>4. PICK x : out = Value(IF operation.op = ".." THEN "Range" ELSE "RangeInclusive", x)
    <3>1. Both(vals[1], vals[2], "Int")
      BY <1>2, <2>2 DEF Both
    <3>2. PICK k : k = IF operation.op = ".." THEN "Range" ELSE "RangeInclusive"
      OBVIOUS
    <3>3. PICK x : x = <<vals[1].value, vals[2].value>>
      OBVIOUS
    <3>4. eval_binop(operation.op, vals[1], vals[2]) = {Value(k, x)}
      BY <1>5, <3>1, <3>2, <3>3, BinopOnRanges
    <3>5. out = Value(k, x)
      BY <2>3, <3>4
    <3> QED BY <3>2, <3>5
  <2>5. out.is = "value" /\ out.type = IF operation.op = ".." THEN "Range" ELSE "RangeInclusive"
    BY <2>4, ValueParts
  <2> QED BY <1>3, <1>5, <2>2, <2>5, OperatorNames DEF Promised
<1> QED BY <1>4, <1>5

\* Assigning operators do as their operator does.
LEMMA PlainOperators ==
  /\ plain_operator("+=") = "+" /\ plain_operator("-=") = "-" /\ plain_operator("*=") = "*"
  /\ plain_operator("/=") = "/" /\ plain_operator("%=") = "%"
BY DEF plain_operator

\* Assigning operators.
LEMMA AssigningKeeps ==
  ASSUME operation \in Operations, operation.op \in Assigning, Admitted,
         NEW vals, Fitting(vals), NEW out \in eval_expr(operation, vals)
  PROVE  Promised(out)
<1>1. operation.op \in Binary /\ operation.op \notin Arithmetic \cup Logic \cup Ranges
      /\ operation.op \notin Equality \cup Ordering /\ operation.op \notin {"neg", "as", "..="}
  BY OperatorNames
<1>2. PICK s \in Types, t \in Types :
        /\ operation.types = <<s, t>> /\ vals[1].type = s /\ vals[2].type = t
  BY <1>1, TwoOperands
<1>3. PICK op \in Arithmetic : op = plain_operator(operation.op)
  BY OperatorNames, PlainOperators
<1>4. out \in eval_binop(op, vals[1], vals[2])
  BY <1>1, <1>3, OperatorNames DEF eval_expr, apply_assign_op
<1>5. s = t /\ Declared = s
  BY <1>1, <1>2, InferredBinary DEF Admitted, Declared
<1>6. Unsupported(operation) <=> s \notin {"Int", "Float"}
  BY <1>1, <1>2 DEF Unsupported
<1>7. ~Unconverted(operation)
  BY <1>1 DEF Unconverted
<1>8. CASE s = "Int"
  <2>1. out = int_arithmetic(op, vals[1].value, vals[2].value)
    BY <1>2, <1>4, <1>5, <1>8, BinopOnNumbers DEF Both
  <2>2. \/ \E n : out = IntValue(n)
        \/ out \in {Ends("crash"), Ends("R0007")}
    BY <2>1, IntArithmetic
  <2>3. \/ out.is = "value" /\ out.type = "Int"
        \/ out.is \in {"crash", "R0007"}
    BY <2>2, EndsParts, MadeParts
  <2> QED BY <1>1, <1>2, <1>5, <1>6, <1>7, <1>8, <2>3 DEF Promised
<1>9. CASE s = "Float"
  <2>1. out = Float
    BY <1>2, <1>4, <1>5, <1>9, BinopOnNumbers DEF Both
  <2> QED BY <1>1, <1>2, <1>5, <1>6, <1>7, <1>9, <2>1, MadeParts DEF Promised
<1>10. CASE s \notin {"Int", "Float"}
  <2>1. out = Ends("fault")
    BY <1>2, <1>4, <1>10, BinopFaults, OperatorNames DEF Both
  <2> QED BY <1>6, <1>10, <2>1, EndsParts DEF Promised
<1> QED BY <1>8, <1>9, <1>10

\* Negations.
LEMMA UnaryKeeps ==
  ASSUME operation \in Operations, operation.op \in {"neg", "!"}, Admitted,
         NEW vals, Fitting(vals), NEW out \in eval_expr(operation, vals)
  PROVE  Promised(out)
<1>1. operation.op \notin Binary /\ operation.op \notin Assigning \cup Arithmetic \cup Equality \cup Ordering
      /\ operation.op \notin {"as", "[]", "..="}
  BY OperatorNames
<1>2. PICK t \in Types :
        operation.types = <<t>> /\ vals[1] \in Values(t) /\ vals[1].is = "value" /\ vals[1].type = t
  BY OneOperand
<1>3. out \in eval_unary(operation.op, vals[1])
  BY <1>1, OperatorNames DEF eval_expr
<1>4. ~Unconverted(operation)
  BY <1>1 DEF Unconverted
<1>5. CASE operation.op = "neg"
  <2>1. Declared = t /\ (Unsupported(operation) <=> t \notin {"Int", "Float"})
    <3>1. Declared = t
      BY <1>1, <1>2, <1>5 DEF Declared, infer_expr
    <3>2. body = "checked" => t \in {"Int", "Float"}
      BY <1>1, <1>2, <1>5 DEF Admitted, construct_expr
    <3> QED BY <1>1, <1>2, <1>5, <3>1, <3>2 DEF Admitted, Unsupported
  <2>2. CASE t = "Int"
    <3>1. out = fitted(-vals[1].value)
      BY <1>2, <1>3, <1>5, <2>2 DEF eval_unary
    <3>2. \/ \E n : out = IntValue(n)
          \/ out = Ends("crash")
      BY <3>1 DEF fitted
    <3>3. \/ out.is = "value" /\ out.type = "Int"
          \/ out.is = "crash"
      BY <3>2, EndsParts, MadeParts
    <3> QED BY <1>1, <1>2, <1>4, <2>1, <2>2, <3>3 DEF Promised
  <2>3. CASE t = "Float"
    <3>1. out = vals[1]
      BY <1>2, <1>3, <1>5, <2>3 DEF eval_unary
    <3> QED BY <1>1, <1>2, <1>4, <2>1, <2>3, <3>1 DEF Promised
  <2>4. CASE t \notin {"Int", "Float"}
    <3>1. out = Ends("fault")
      BY <1>2, <1>3, <1>5, <2>4 DEF eval_unary
    <3> QED BY <2>1, <2>4, <3>1, EndsParts DEF Promised
  <2> QED BY <2>2, <2>3, <2>4
<1>6. CASE operation.op = "!"
  <2>1. Declared = "Bool" /\ t = "Bool"
    BY <1>1, <1>2, <1>6 DEF Admitted, Declared, infer_expr, Codes
  <2>2. PICK b : out = BoolValue(b)
    <3>1. out = BoolValue(~vals[1].value)
      BY <1>2, <1>3, <1>6, <2>1, Zenon DEF eval_unary
    <3> QED BY <3>1, Zenon
  <2>3. out.is = "value" /\ out.type = "Bool"
    BY <2>2, MadeParts, Zenon
  <2>4. ~Unsupported(operation)
    BY <1>1, <1>6 DEF Unsupported
  <2> QED BY <1>1, <1>4, <2>1, <2>3, <2>4 DEF Promised
<1> QED BY <1>5, <1>6

\* Casts.
LEMMA CastsKeep ==
  ASSUME operation \in Operations, operation.op = "as", Admitted,
         NEW vals, Fitting(vals), NEW out \in eval_expr(operation, vals)
  PROVE  Promised(out)
<1>1. operation.op \notin Binary /\ operation.op \notin Assigning \cup Arithmetic \cup Equality \cup Ordering
      /\ operation.op \notin {"neg", "!", "[]", "..="}
  BY OperatorNames
<1>2. PICK t \in Types :
        operation.types = <<t>> /\ vals[1] \in Values(t) /\ vals[1].is = "value" /\ vals[1].type = t
  BY OneOperand
<1>3. PICK g \in Named : g = operation.target
  BY <1>1, OperationKinds
<1>4. g \in Types
  BY DEF Named, Types
<1>5. Declared = g
  <2>1. infer_expr(operation) = infer_cast(t, g)
    BY <1>1, <1>2, <1>3 DEF infer_expr
  <2>2. infer_cast(t, g) = g
    BY <2>1 DEF Admitted, infer_cast, Codes
  <2> QED BY <1>1, <2>1, <2>2 DEF Declared
<1>6. \A v \in Values(g) : v.is = "value" /\ v.type = g
  BY <1>4, ValueFacts
<1>7. CASE body = "checked"
  <2>1. out \in eval_cast(g, vals[1])
    BY <1>1, <1>3, <1>7, OperatorNames DEF eval_expr
  <2>2. Unsupported(operation) <=>
          g \in {"Int", "Float"} /\ t \notin {"Int", "Float"} /\ t \notin source_names
    BY <1>1, <1>2, <1>3, <1>7 DEF Unsupported
  <2>3. Unconverted(operation) <=> t \notin source_names \cup {g} /\ g \notin {"Int", "Float"}
    BY <1>1, <1>2, <1>3, <1>7 DEF Unconverted
  <2>4. t = g \/ has_from_impl(g, t)
    BY <1>1, <1>2, <1>3 DEF Admitted, infer_expr, infer_cast, Codes
  <2>5. CASE t \in source_names /\ <<g, t>> \in UserFroms
    <3>1. out \in Values(g)
      BY <1>2, <2>1, <2>5 DEF eval_cast
    <3> QED BY <1>1, <1>2, <1>5, <1>6, <1>7, <2>2, <2>3, <2>5, <3>1 DEF Promised
  <2>6. CASE ~(t \in source_names /\ <<g, t>> \in UserFroms) /\ g \in {"Int", "Float"}
    <3>1. out \in number_from(g, vals[1])
      BY <1>2, <2>1, <2>6 DEF eval_cast
    <3>2. CASE t \in {"Int", "Float"}
      <4>1. out.is = "value" /\ out.type = g
        BY <1>2, <1>6, <3>1, <3>2 DEF number_from
      <4> QED BY <1>1, <1>2, <1>5, <1>7, <2>2, <2>3, <2>6, <3>2, <4>1 DEF Promised
    <3>3. CASE t \notin {"Int", "Float"}
      <4>1. out = Ends("fault")
        BY <1>2, <3>1, <3>3 DEF number_from
      <4>2. t # g
        BY <2>6, <3>3
      <4>3. <<g, t>> \in UserFroms
        BY <2>4, <3>3, <4>2 DEF has_from_impl
      <4>4. Unsupported(operation)
        BY <2>2, <2>6, <3>3, <4>3
      <4> QED BY <4>1, <4>4, EndsParts DEF Promised
    <3> QED BY <3>2, <3>3
  <2>7. CASE ~(t \in source_names /\ <<g, t>> \in UserFroms) /\ g \notin {"Int", "Float"}
    <3>1. out = vals[1]
      BY <1>2, <2>1, <2>7 DEF eval_cast
    <3>2. t # g => t \notin source_names
      BY <2>4, <2>7 DEF has_from_impl
    <3> QED BY <1>1, <1>2, <1>5, <1>7, <2>2, <2>3, <2>7, <3>1, <3>2 DEF Promised
  <2> QED BY <2>5, <2>6, <2>7
<1>8. CASE body = "generic"
  <2>1. out \in eval_untyped_cast(g, vals[1])
    BY <1>1, <1>3, <1>8, OperatorNames DEF eval_expr
  <2>2. Unsupported(operation) <=>
          ~(t = "Int" /\ g = "Float") /\ ~(t \in {"Int", "Float"} /\ t = g)
    BY <1>1, <1>2, <1>3, <1>8 DEF Unsupported
  <2>3. CASE t = "Int" /\ g = "Float"
    <3>1. out = Float
      BY <1>2, <2>1, <2>3 DEF eval_untyped_cast
    <3> QED BY <1>1, <1>5, <1>8, <2>2, <2>3, <3>1, MadeParts DEF Promised
  <2>4. CASE t \in {"Int", "Float"} /\ t = g
    <3>1. out = vals[1]
      BY <1>2, <2>1, <2>4 DEF eval_untyped_cast
    <3> QED BY <1>1, <1>2, <1>5, <1>8, <2>2, <2>4, <3>1 DEF Promised
  <2>5. CASE Unsupported(operation)
    <3>1. out = Ends("fault")
      BY <1>2, <2>1, <2>2, <2>5 DEF eval_untyped_cast
    <3> QED BY <2>5, <3>1, EndsParts DEF Promised
  <2> QED BY <2>2, <2>3, <2>4, <2>5
<1> QED BY <1>7, <1>8 DEF Admitted

\* Indexing.
LEMMA IndexKeeps ==
  ASSUME operation \in Operations, operation.op = "[]", Admitted,
         NEW vals, Fitting(vals), NEW out \in eval_expr(operation, vals)
  PROVE  Promised(out)
<1>1. operation.op \notin Binary /\ operation.op \notin Assigning \cup Arithmetic \cup Equality \cup Ordering
      /\ operation.op \notin {"neg", "!", "as", "..="}
  BY OperatorNames
<1>2. PICK s \in Types, t \in Types :
        /\ operation.types = <<s, t>>
        /\ vals[1] \in Values(s) /\ vals[2] \in Values(t)
        /\ vals[1].type = s /\ vals[2].type = t
  BY TwoOperands
<1>3. operation.types = <<"Array", "Int">> /\ Declared = "Int"
  BY <1>1 DEF Admitted, Declared, infer_expr, Codes
<1>4. s = "Array" /\ t = "Int"
  BY <1>2, <1>3
<1>5. out \in eval_index(vals[1], vals[2])
  BY <1>1, OperatorNames DEF eval_expr
<1>6. out \in Values("Int") \/ out = Ends("R0004")
  BY <1>2, <1>4, <1>5 DEF eval_index
<1>7. \A v \in Values("Int") : v.is = "value" /\ v.type = "Int"
  BY ValueFacts DEF Types
<1>8. ~Unsupported(operation) /\ ~Unconverted(operation)
  BY <1>1 DEF Unsupported, Unconverted
<1> QED BY <1>1, <1>3, <1>6, <1>7, <1>8, EndsParts DEF Promised

\* All of them.
LEMMA OperatorsKeep ==
  ASSUME operation \in Operations, Admitted,
         NEW vals, Fitting(vals), NEW out \in eval_expr(operation, vals)
  PROVE  Promised(out)
<1>1. operation.op \in Binary \cup {"neg", "!", "as", "[]"}
  BY OperationKinds
<1> QED BY <1>1, OperatorNames, ArithmeticKeeps, ComparisonsKeep, LogicAndRangesKeep, AssigningKeeps,
           UnaryKeeps, CastsKeep, IndexKeeps

------------------------------------------------------------------------------
(* Integers.                                                               *)

\* No integer of the width is the exact result.
TooLarge(op, a, b) == \A n \in Ints : ~IsExact(op, a, b, n)

\* What an outcome of op on integers may be.
Sound(op, a, b, out) ==
  CASE out.is = "R0007" -> op \in {"/", "%"} /\ b = 0
    [] out.is = "crash" ->
         \/ op \in {"/", "%"} /\ a = MinInt /\ b = -1
         \/ build = "debug" /\ TooLarge(op, a, b)
    [] OTHER ->
         \/ IsExact(op, a, b, out.value)
         \/ /\ build = "release"
            /\ \E k \in {-Modulus, Modulus} \cup {k * Modulus : k \in Ints} :
                 IsExact(op, a, b, out.value + k)
            /\ TooLarge(op, a, b)

\* Sums, differences and products are exact, or wrap, or panic.
LEMMA SumsAreSound ==
  ASSUME build \in {"debug", "release"}, NEW a \in Ints, NEW b \in Ints, NEW op \in {"+", "-", "*"}
  PROVE  Sound(op, a, b, int_arithmetic(op, a, b))
<1>1. PICK n \in Int : n = Exactly(op, a, b)
  BY WrapsOnce
<1>2. \A x : IsExact(op, a, b, x) <=> x = n
  BY <1>1 DEF IsExact, Exactly
<1>3. PICK out : out = int_arithmetic(op, a, b)
  OBVIOUS
<1>4. out = fitted(n)
  BY <1>1, <1>3 DEF int_arithmetic, Exactly
<1>5. CASE n \in Ints
  <2>1. out = IntValue(n)
    BY <1>4, <1>5 DEF fitted
  <2>2. out.is = "value" /\ out.value = n
    BY <2>1, MadeParts
  <2> QED BY <1>2, <1>3, <2>2 DEF Sound
<1>6. CASE n \notin Ints
  <2>1. TooLarge(op, a, b)
    BY <1>2, <1>6 DEF TooLarge
  <2>2. CASE build = "debug"
    <3>1. out.is = "crash"
      BY <1>4, <1>6, <2>2, EndsParts DEF fitted
    <3> QED BY <1>3, <2>1, <2>2, <3>1 DEF Sound
  <2>3. CASE build = "release"
    <3>1. out = IntValue(wrapped(n))
      BY <1>4, <1>6, <2>3 DEF fitted
    <3>2. out.is = "value" /\ out.value = wrapped(n)
      BY <3>1, MadeParts
    <3>3. PICK k \in Ints : n = wrapped(n) + k * Modulus
      <4>1. \E k \in Ints : Exactly(op, a, b) = wrapped(Exactly(op, a, b)) + k * Modulus
        BY WrapsOnce
      <4> QED BY <1>1, <4>1, Zenon
    <3>4. \E m \in {-Modulus, Modulus} \cup {j * Modulus : j \in Ints} : n = wrapped(n) + m
      BY <3>3
    <3>5. \E m \in {-Modulus, Modulus} \cup {j * Modulus : j \in Ints} :
            IsExact(op, a, b, out.value + m)
      BY <1>2, <3>2, <3>4
    <3> QED BY <1>3, <2>1, <2>3, <3>2, <3>5 DEF Sound
  <2> QED BY <2>2, <2>3
<1> QED BY <1>5, <1>6

\* Quotients and remainders are exact, or end.
LEMMA QuotientsAreSound ==
  ASSUME NEW a \in Ints, NEW b \in Ints, NEW op \in {"/", "%"}
  PROVE  Sound(op, a, b, int_arithmetic(op, a, b))
<1>1. a \in Int /\ b \in Int
  BY Bounds
<1>2. PICK out : out = int_division(op, a, b)
  OBVIOUS
<1>3. int_arithmetic(op, a, b) = out
  BY <1>2 DEF int_arithmetic
<1>4. CASE b = 0
  <2>1. out.is = "R0007"
    BY <1>2, <1>4, EndsParts DEF int_division
  <2> QED BY <1>3, <1>4, <2>1 DEF Sound
<1>5. CASE a = MinInt /\ b = -1
  <2>1. out.is = "crash"
    BY <1>2, <1>5, EndsParts DEF int_division
  <2> QED BY <1>3, <1>5, <2>1 DEF Sound
<1>6. CASE b # 0 /\ ~(a = MinInt /\ b = -1)
  <2>1. /\ op = "/" => out = IntValue(i64_quotient(a, b))
        /\ op = "%" => out = IntValue(a - b * i64_quotient(a, b))
    BY <1>2, <1>6 DEF int_division
  <2>2. /\ out.is = "value"
        /\ op = "/" => out.value = i64_quotient(a, b)
        /\ op = "%" => out.value = a - b * i64_quotient(a, b)
    BY <2>1, MadeParts
  <2>3. IsExact(op, a, b, out.value)
    BY <1>1, <1>6, <2>2, DivisionIsExact
  <2> QED BY <1>3, <2>2, <2>3 DEF Sound
<1> QED BY <1>4, <1>5, <1>6

\* The integers an operation has, and its outcome.
ExactOutcome(vals, out) ==
  operation.op \in Arithmetic \cup Assigning /\ operation.types = <<"Int", "Int">> =>
    Sound(IF operation.op \in Assigning THEN plain_operator(operation.op) ELSE operation.op,
          vals[1].value, vals[2].value, out)

\* All of integer arithmetic.
LEMMA IntegersKeep ==
  ASSUME operation \in Operations, build \in {"debug", "release"},
         NEW vals, Fitting(vals), NEW out \in eval_expr(operation, vals)
  PROVE  ExactOutcome(vals, out)
<1> SUFFICES ASSUME operation.op \in Arithmetic \cup Assigning, operation.types = <<"Int", "Int">>
             PROVE  ExactOutcome(vals, out)
  BY DEF ExactOutcome
<1>1. PICK op : op = IF operation.op \in Assigning THEN plain_operator(operation.op) ELSE operation.op
  OBVIOUS
<1>2. op \in {"+", "-", "*"} \cup {"/", "%"}
  BY <1>1, OperatorNames, PlainOperators
<1>3. operation.op \in Binary
  BY OperatorNames
<1>4. PICK s \in Types, t \in Types :
        /\ operation.types = <<s, t>>
        /\ vals[1] \in Values(s) /\ vals[2] \in Values(t)
        /\ vals[1].type = s /\ vals[2].type = t
  BY <1>3, TwoOperands
<1>5. vals[1] \in Values("Int") /\ vals[2] \in Values("Int") /\ Both(vals[1], vals[2], "Int")
  BY <1>4 DEF Both
<1>6. PICK a \in Ints : vals[1] = IntValue(a)
  BY <1>5, IntValues
<1>7. PICK b \in Ints : vals[2] = IntValue(b)
  BY <1>5, IntValues
<1>8. vals[1].value = a /\ vals[2].value = b
  BY <1>6, <1>7, MadeParts
<1>9. out \in eval_binop(op, vals[1], vals[2])
  BY <1>1, OperatorNames DEF eval_expr, apply_assign_op
<1>10. out = int_arithmetic(op, a, b)
  BY <1>2, <1>5, <1>8, <1>9, OperatorNames, BinopOnNumbers
<1>11. Sound(op, a, b, out)
  BY <1>2, <1>10, SumsAreSound, QuotientsAreSound
<1> QED BY <1>1, <1>8, <1>11 DEF ExactOutcome

------------------------------------------------------------------------------
(* The theorems.                                                           *)

(* The invariant: how far the operation is, and that what was run had been *)
(* admitted by the passes before and kept to both promises.                *)
OperatorInv ==
  /\ operation \in Operations /\ build \in {"debug", "release"}
  /\ body \in {"checked", "generic"}
  /\ phase \in {"infer", "construct", "eval", "end"}
  /\ phase # "infer" => type = infer_expr(operation)
  /\ phase # "end" => operands = <<>>
  /\ phase = "construct" => infer_expr(operation) \notin Codes /\ body = "checked"
  /\ phase = "eval" => Admitted
  /\ OperatorsKeepTheirPromises
  /\ IntegersAreExact

\* Nothing has run at first.
LEMMA InitOperatorInv == Init => OperatorInv
BY DEF Init, OperatorInv, Ran, OperatorsKeepTheirPromises, IntegersAreExact

\* The promises are kept when the operation runs.
LEMMA EvalKeeps ==
  ASSUME OperatorInv, Eval
  PROVE  OperatorsKeepTheirPromises' /\ IntegersAreExact'
<1>1. /\ Admitted /\ type = infer_expr(operation)
      /\ UNCHANGED <<operation, body, build, type>>
      /\ outcome' \in eval_expr(operation, operands')
  BY DEF Eval, OperatorInv
<1>2. Fitting(operands')
  BY OperandsFit DEF OperatorInv
<1>3. Promised(outcome')
  BY <1>1, <1>2, OperatorsKeep DEF OperatorInv
<1>4. ExactOutcome(operands', outcome')
  BY <1>1, <1>2, IntegersKeep DEF OperatorInv
<1>5. OperatorsKeepTheirPromises'
  BY <1>1, <1>3 DEF OperatorsKeepTheirPromises, Promised, Declared, Unsupported, Unconverted
<1>6. IntegersAreExact'
  BY <1>1, <1>4 DEF IntegersAreExact, ExactOutcome, Sound, TooLarge
<1> QED BY <1>5, <1>6

\* Each pass hands over what the next one relies on.
LEMMA NextOperatorInv == OperatorInv /\ [Next]_vars => OperatorInv'
<1> SUFFICES ASSUME OperatorInv, [Next]_vars PROVE OperatorInv'
  OBVIOUS
<1>1. CASE Infer
  <2>1. operands' = <<>>
    BY <1>1 DEF Infer, OperatorInv
  <2>2. OperatorsKeepTheirPromises' /\ IntegersAreExact'
    BY <2>1 DEF Ran, OperatorsKeepTheirPromises, IntegersAreExact
  <2> QED BY <1>1, <2>2 DEF Infer, OperatorInv, Admitted
<1>2. CASE Construct
  <2>1. operands' = <<>>
    BY <1>2 DEF Construct, OperatorInv
  <2>2. OperatorsKeepTheirPromises' /\ IntegersAreExact'
    BY <2>1 DEF Ran, OperatorsKeepTheirPromises, IntegersAreExact
  <2> QED BY <1>2, <2>2 DEF Construct, OperatorInv, Admitted
<1>3. CASE Eval
  BY <1>3, EvalKeeps DEF Eval, OperatorInv
<1>4. CASE UNCHANGED vars
  <2>1. UNCHANGED <<operation, body, build, phase, type, operands, outcome>>
    BY <1>4 DEF vars
  <2>2. OperatorsKeepTheirPromises'
    BY <2>1 DEF OperatorInv, OperatorsKeepTheirPromises, Ran, Unsupported, Unconverted
  <2>3. IntegersAreExact'
    BY <2>1 DEF OperatorInv, IntegersAreExact, Ran
  <2> QED BY <2>1, <2>2, <2>3 DEF OperatorInv, Admitted
<1> QED BY <1>1, <1>2, <1>3, <1>4 DEF Next, Done

\* What the passes agree on holds in every reachable state.
THEOREM OperatorInvariant == Spec => []OperatorInv
<1>1. Init => OperatorInv
  BY InitOperatorInv
<1>2. OperatorInv /\ [Next]_vars => OperatorInv'
  BY NextOperatorInv
<1> QED BY <1>1, <1>2, PTL DEF Spec

\* Arithmetic on integers of any width is exact when the result fits, wraps
\* in a release build and is a panic in a debug build when it does not; the
\* smallest integer divided by -1 is a panic in both.
THEOREM ArithmeticIsExact == Spec => []IntegersAreExact
<1>1. OperatorInv => IntegersAreExact
  BY DEF OperatorInv
<1> QED BY <1>1, OperatorInvariant, PTL

\* An internal error comes up exactly for the operations that are named, and
\* a value of another type exactly for the casts that are, whatever
\* conversions a program defines.
THEOREM PromisesAreKept == Spec => []OperatorsKeepTheirPromises
<1>1. OperatorInv => OperatorsKeepTheirPromises
  BY DEF OperatorInv
<1> QED BY <1>1, OperatorInvariant, PTL
==============================================================================
