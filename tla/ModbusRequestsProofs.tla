------------------------ MODULE ModbusRequestsProofs ------------------------
(***************************************************************************)
(* Theorems about ModbusRequests, for all points, devices, values and      *)
(* configurations: the types of the rows; and, for the points that the     *)
(* code treats as it is documented (AsDocumented), that the present value  *)
(* is the device's, and that the write of a bit changes that bit only.     *)
(*                                                                         *)
(* The way there: what a number's digits and bits are; that the conversion *)
(* of bytes follows the documented order; that what is written is what is  *)
(* read back; and an invariant that also says of the register read before  *)
(* the sleep that it still is the device's.                                *)
(***************************************************************************)
EXTENDS ModbusRequests, Loops, SequenceTheorems

-----------------------------------------------------------------------------
\* Powers, quotients, and the numbers that bytes stand for.

\* The loop of Power.
LEMMA PowerLoop ==
    ASSUME NEW b \in Nat, NEW n \in Nat
    PROVE  \E f : /\ f[0] = 1 /\ \A i \in 1 .. n : f[i] = f[i - 1] * b
                  /\ \A i \in 0 .. n : f[i] \in Nat
                  /\ Power(b, n) = f[n]
<1> DEFINE step == [x \in Nat \X (1 .. n) |-> x[1] * b]
           Eq(f) == f = [i \in 0 .. n |-> IF i = 0 THEN 1 ELSE f[i - 1] * b]
           loop == CHOOSE f : Eq(f)
<1>1. step \in [Nat \X (1 .. n) -> Nat]
  OBVIOUS
<1>2. PICK f \in [0 .. n -> Nat] : Counts(f, n, 1, step)
  <2> HIDE DEF step
  <2> QED BY <1>1, CountDefined
<1>3. Eq(f)
  <2>1. \A i \in 0 .. n : f[i] = IF i = 0 THEN 1 ELSE step[<<f[i - 1], i>>]
    BY <1>2 DEF Counts
  <2>2. \A i \in 0 .. n : f[i] = IF i = 0 THEN 1 ELSE f[i - 1] * b
    <3>1. ASSUME NEW i \in 1 .. n PROVE step[<<f[i - 1], i>>] = f[i - 1] * b
      <4>1. f[i - 1] \in Nat
        OBVIOUS
      <4> QED BY <4>1
    <3>2. \A i \in 0 .. n : i # 0 => i \in 1 .. n
      OBVIOUS
    <3> HIDE DEF step
    <3> QED BY <2>1, <3>1, <3>2
  <2>3. f = [i \in 0 .. n |-> f[i]]
    OBVIOUS
  <2> QED BY <2>2, <2>3
<1>4. Eq(loop)
  <2> HIDE DEF Eq
  <2> QED BY <1>3
<1>5. \A i \in 0 .. n : loop[i] = IF i = 0 THEN 1 ELSE loop[i - 1] * b
  <2> HIDE DEF loop
  <2> QED BY <1>4
<1>6. Power(b, n) = loop[n]
  BY DEF Power
<1> HIDE DEF loop
<1>7. 0 .. n \subseteq {i \in Nat : loop[i] \in Nat}
  <2> DEFINE S == {i \in Nat : loop[i] \in Nat}
  <2>1. 0 \in S
    BY <1>5
  <2>2. \A i \in 1 .. n : i - 1 \in S => i \in S
    BY <1>5
  <2> HIDE DEF S
  <2>3. 0 .. n \subseteq S
    BY <2>1, <2>2, CountInduction
  <2> QED BY <2>3 DEF S
<1>8. loop[0] = 1 /\ \A i \in 1 .. n : loop[i] = loop[i - 1] * b
  BY <1>5
<1> QED BY <1>6, <1>7, <1>8

\* The laws of Power.
LEMMA PowerZero == ASSUME NEW b \in Nat PROVE Power(b, 0) = 1
BY PowerLoop

\* The power of the next number.
LEMMA PowerStep ==
    ASSUME NEW b \in Nat, NEW n \in Nat
    PROVE  Power(b, n + 1) = Power(b, n) * b
<1>1. PICK f : /\ f[0] = 1 /\ \A i \in 1 .. n + 1 : f[i] = f[i - 1] * b
               /\ \A i \in 0 .. n + 1 : f[i] \in Nat
               /\ Power(b, n + 1) = f[n + 1]
  <2>1. n + 1 \in Nat
    OBVIOUS
  <2> QED BY <2>1, PowerLoop
<1>2. PICK g : /\ g[0] = 1 /\ \A i \in 1 .. n : g[i] = g[i - 1] * b
               /\ \A i \in 0 .. n : g[i] \in Nat
               /\ Power(b, n) = g[n]
  BY PowerLoop
<1> DEFINE S == {i \in Nat : f[i] = g[i]}
<1>3. 0 \in S
  BY <1>1, <1>2
<1>4. \A i \in 1 .. n : i - 1 \in S => i \in S
  BY <1>1, <1>2
<1>5. 0 .. n \subseteq S
  <2> HIDE DEF S
  <2> QED BY <1>3, <1>4, CountInduction
<1> QED BY <1>1, <1>2, <1>5

\* A power is a natural number, and positive when its base is.
LEMMA PowerType ==
    ASSUME NEW b \in Nat \ {0}, NEW n \in Nat
    PROVE  Power(b, n) \in Nat \ {0}
<1>1. PICK f : /\ f[0] = 1 /\ \A i \in 1 .. n : f[i] = f[i - 1] * b
               /\ \A i \in 0 .. n : f[i] \in Nat
               /\ Power(b, n) = f[n]
  BY PowerLoop
<1> DEFINE S == {i \in Nat : f[i] > 0}
<1>2. 0 \in S
  BY <1>1
<1>3. \A i \in 1 .. n : i - 1 \in S => i \in S
  <2> SUFFICES ASSUME NEW i \in 1 .. n, i - 1 \in S PROVE i \in S
    OBVIOUS
  <2>1. i - 1 \in 0 .. n /\ i \in 0 .. n
    OBVIOUS
  <2>2. f[i - 1] \in Nat /\ f[i - 1] > 0 /\ f[i] = f[i - 1] * b
    BY <1>1, <2>1
  <2>3. \A x, y \in Nat : x > 0 /\ y > 0 => x * y > 0
    OBVIOUS
  <2> QED BY <2>2, <2>3
<1>4. 0 .. n \subseteq S
  <2> HIDE DEF S
  <2> QED BY <1>2, <1>3, CountInduction
<1> QED BY <1>1, <1>4

\* The power of a sum.
LEMMA PowerSum ==
    ASSUME NEW b \in Nat, NEW m \in Nat, NEW n \in Nat
    PROVE  Power(b, m + n) = Power(b, m) * Power(b, n)
<1> DEFINE S == {i \in Nat : Power(b, m + i) = Power(b, m) * Power(b, i)}
<1>1. ASSUME NEW i \in Nat PROVE Power(b, i) \in Nat
  <2>1. i \in 0 .. i
    OBVIOUS
  <2> QED BY <2>1, PowerLoop
<1>2. 0 \in S
  BY <1>1, PowerZero
<1>3. \A i \in 1 .. n : i - 1 \in S => i \in S
  <2> SUFFICES ASSUME NEW i \in 1 .. n, i - 1 \in S PROVE i \in S
    OBVIOUS
  <2>1. Power(b, i) = Power(b, i - 1) * b
    BY PowerStep
  <2>2. Power(b, m + i) = Power(b, m + i - 1) * b
    BY PowerStep
  <2>3. m + (i - 1) = m + i - 1
    OBVIOUS
  <2>4. Power(b, m) \in Nat /\ Power(b, i - 1) \in Nat /\ i - 1 \in Nat
    BY <1>1
  <2>5. (Power(b, m) * Power(b, i - 1)) * b = Power(b, m) * (Power(b, i - 1) * b)
    BY <2>4
  <2> QED BY <2>1, <2>2, <2>3, <2>5
<1>4. 0 .. n \subseteq S
  <2> HIDE DEF S
  <2> QED BY <1>2, <1>3, CountInduction
<1> QED BY <1>4

\* Division by a positive number, of which the provers know little when it is not a
\* literal.
LEMMA Quotient ==
    ASSUME NEW n \in Int, NEW d \in Nat \ {0}
    PROVE  \E r \in 0 .. d - 1 : n = (n \div d) * d + r /\ n \div d \in Int
OBVIOUS

\* What makes a number the quotient.
LEMMA QuotientIs ==
    ASSUME NEW q \in Int, NEW d \in Nat \ {0}, NEW r \in 0 .. d - 1
    PROVE  (q * d + r) \div d = q
<1> DEFINE n == q * d + r
           x == n \div d
<1>0. n \in Int
  OBVIOUS
<1>1. PICK s \in 0 .. d - 1 : n = x * d + s /\ x \in Int
  <2> HIDE DEF n
  <2> QED BY <1>0, Quotient
<1> HIDE DEF x
<1>2. \A y, z \in Int : y >= z + 1 => y * d >= z * d + d
  <2> SUFFICES ASSUME NEW y \in Int, NEW z \in Int, y >= z + 1
               PROVE  y * d >= z * d + d
    OBVIOUS
  <2>1. (y - (z + 1)) * d >= 0
    OBVIOUS
  <2>2. (y - (z + 1)) * d = y * d - (z * d + d)
    OBVIOUS
  <2>3. y * d \in Int /\ z * d \in Int
    OBVIOUS
  <2> QED BY <2>1, <2>2, <2>3
<1>3. q * d + r = x * d + s /\ q * d \in Int /\ x * d \in Int
  BY <1>1
<1>4. ~(q >= x + 1) /\ ~(x >= q + 1)
  BY <1>1, <1>2, <1>3
<1>5. q = x
  BY <1>1, <1>4
<1> QED BY <1>5 DEF x

\* A multiple of the divisor comes out as its factor.
LEMMA QuotientOfSum ==
    ASSUME NEW n \in Int, NEW k \in Int, NEW d \in Nat \ {0}
    PROVE  (n + k * d) \div d = n \div d + k
<1>1. PICK r \in 0 .. d - 1 : n = (n \div d) * d + r /\ n \div d \in Int
  BY Quotient
<1> DEFINE q == n \div d
<1> HIDE DEF q
<1>2. n + k * d = (q + k) * d + r /\ q \in Int
  BY <1>1 DEF q
<1>3. q + k \in Int
  BY <1>2
<1>4. ((q + k) * d + r) \div d = q + k
  BY <1>3, QuotientIs
<1> QED BY <1>2, <1>4 DEF q

\* Dividing twice is dividing by the product.
LEMMA QuotientOfQuotient ==
    ASSUME NEW n \in Int, NEW c \in Nat \ {0}, NEW d \in Nat \ {0}
    PROVE  n \div (c * d) = (n \div c) \div d
<1> DEFINE x == n \div c
           y == x \div d
<1>1. PICK r \in 0 .. c - 1 : n = x * c + r /\ x \in Int
  BY Quotient
<1> HIDE DEF x
<1>2. PICK s \in 0 .. d - 1 : x = y * d + s /\ y \in Int
  BY <1>1, Quotient
<1> HIDE DEF y
<1>3. n = y * (c * d) + (s * c + r)
  <2>1. n = (y * d + s) * c + r
    BY <1>1, <1>2
  <2>2. (y * d + s) * c = y * (c * d) + s * c
    BY <1>2
  <2>3. y * (c * d) \in Int /\ s * c \in Int
    BY <1>2
  <2> QED BY <2>1, <2>2, <2>3
<1>4. c * d \in Nat \ {0} /\ s * c + r \in 0 .. c * d - 1
  <2>1. s * c >= 0 /\ c * d > 0 /\ s * c \in Int /\ c * d \in Int
    OBVIOUS
  <2>2. (d - 1 - s) * c >= 0
    <3>1. d - 1 - s \in Nat
      OBVIOUS
    <3> QED BY <3>1
  <2>3. (d - 1 - s) * c = c * d - c - s * c
    OBVIOUS
  <2> QED BY <2>1, <2>2, <2>3
<1>5. (y * (c * d) + (s * c + r)) \div (c * d) = y
  <2> DEFINE D == c * d
             R == s * c + r
  <2>1. D \in Nat \ {0} /\ R \in 0 .. D - 1
    BY <1>4
  <2> HIDE DEF D, R
  <2>2. (y * D + R) \div D = y
    BY <1>2, <2>1, QuotientIs
  <2> QED BY <2>2 DEF D, R
<1> QED BY <1>3, <1>5 DEF x, y

\* The loop of Number.
LEMMA NumberLoop ==
    ASSUME NEW bytes \in Seq(Int)
    PROVE  \E f : /\ f[0] = 0
                  /\ \A i \in 1 .. Len(bytes) : f[i] = f[i - 1] * Base + bytes[i]
                  /\ \A i \in 0 .. Len(bytes) : f[i] \in Int
                  /\ Number(bytes) = f[Len(bytes)]
<1> DEFINE n == Len(bytes)
           step == [x \in Int \X (1 .. n) |-> x[1] * Base + bytes[x[2]]]
           Eq(f) == f = [i \in 0 .. n |-> IF i = 0 THEN 0 ELSE f[i - 1] * Base + bytes[i]]
           loop == CHOOSE f : Eq(f)
<1>0. n \in Nat /\ \A i \in 1 .. n : bytes[i] \in Int
  OBVIOUS
<1>1. step \in [Int \X (1 .. n) -> Int]
  BY <1>0, BaseAssumption
<1>2. PICK f \in [0 .. n -> Int] : Counts(f, n, 0, step)
  <2> HIDE DEF step, n
  <2>1. 0 \in Int
    OBVIOUS
  <2> QED BY <1>0, <1>1, <2>1, CountDefined
<1> HIDE DEF n
<1>3. Eq(f)
  <2>1. \A i \in 0 .. n : f[i] = IF i = 0 THEN 0 ELSE step[<<f[i - 1], i>>]
    BY <1>2 DEF Counts
  <2>2. ASSUME NEW i \in 1 .. n PROVE step[<<f[i - 1], i>>] = f[i - 1] * Base + bytes[i]
    <3>1. f[i - 1] \in Int
      BY <1>0
    <3> QED BY <3>1
  <2>3. \A i \in 0 .. n : i # 0 => i \in 1 .. n
    BY <1>0
  <2>4. \A i \in 0 .. n : f[i] = IF i = 0 THEN 0 ELSE f[i - 1] * Base + bytes[i]
    <3> HIDE DEF step
    <3> QED BY <2>1, <2>2, <2>3
  <2>5. f = [i \in 0 .. n |-> f[i]]
    OBVIOUS
  <2> QED BY <2>4, <2>5
<1>4. Eq(loop)
  <2> HIDE DEF Eq
  <2> QED BY <1>3
<1>5. \A i \in 0 .. n : loop[i] = IF i = 0 THEN 0 ELSE loop[i - 1] * Base + bytes[i]
  <2> HIDE DEF loop
  <2> QED BY <1>4
<1>6. Number(bytes) = loop[n]
  BY DEF Number, n
<1> HIDE DEF loop
<1>7. loop[0] = 0 /\ \A i \in 1 .. n : loop[i] = loop[i - 1] * Base + bytes[i]
  BY <1>0, <1>5
<1>8. 0 .. n \subseteq {i \in Nat : loop[i] \in Int}
  <2> DEFINE S == {i \in Nat : loop[i] \in Int}
  <2>1. 0 \in S
    BY <1>7
  <2>2. \A i \in 1 .. n : i - 1 \in S => i \in S
    <3> SUFFICES ASSUME NEW i \in 1 .. n, loop[i - 1] \in Int PROVE loop[i] \in Int
      BY <1>0
    <3>1. bytes[i] \in Int /\ loop[i] = loop[i - 1] * Base + bytes[i]
      BY <1>0, <1>7
    <3>2. loop[i - 1] * Base \in Int
      BY BaseAssumption
    <3> QED BY <3>1, <3>2
  <2> HIDE DEF S
  <2>3. 0 .. n \subseteq S
    BY <1>0, <2>1, <2>2, CountInduction
  <2> QED BY <2>3 DEF S
<1> QED BY <1>6, <1>7, <1>8 DEF n

\* Bytes stand for an integer.
LEMMA NumberType == ASSUME NEW bytes \in Seq(Int) PROVE Number(bytes) \in Int
<1>1. Len(bytes) \in 0 .. Len(bytes)
  OBVIOUS
<1> QED BY <1>1, NumberLoop

\* A register's bytes make a number that as many digits can have.
LEMMA NumberRange ==
    ASSUME NEW bytes \in Seq(Byte)
    PROVE  Number(bytes) \in 0 .. Power(Base, Len(bytes)) - 1
<1> DEFINE n == Len(bytes)
<1>0. n \in Nat /\ bytes \in Seq(Int) /\ Base \in Nat \ {0}
      /\ \A i \in 1 .. n : bytes[i] \in 0 .. Base - 1
  BY BaseAssumption DEF Byte
<1>1. PICK f : /\ f[0] = 0 /\ \A i \in 1 .. n : f[i] = f[i - 1] * Base + bytes[i]
               /\ \A i \in 0 .. n : f[i] \in Int
               /\ Number(bytes) = f[n]
  BY <1>0, NumberLoop
<1> DEFINE S == {i \in Nat : f[i] \in 0 .. Power(Base, i) - 1}
<1>2. 0 \in S
  BY <1>0, <1>1, PowerZero
<1>3. \A i \in 1 .. n : i - 1 \in S => i \in S
  <2> SUFFICES ASSUME NEW i \in 1 .. n, i - 1 \in S PROVE i \in S
    OBVIOUS
  <2> DEFINE x == f[i - 1]
             m == Power(Base, i - 1)
             b == bytes[i]
  <2>1. i \in Nat /\ i - 1 \in Nat /\ i - 1 + 1 = i
    BY <1>0
  <2>2. Power(Base, i) = m * Base /\ m \in Nat \ {0}
    BY <1>0, <2>1, PowerStep, PowerType
  <2>3. f[i] = x * Base + b /\ x \in 0 .. m - 1 /\ b \in 0 .. Base - 1
    BY <1>0, <1>1
  <2> HIDE DEF x, m, b, n
  <2>4. x * Base >= 0 /\ x * Base \in Int /\ m * Base \in Int
    BY <1>0, <2>2, <2>3
  <2>5. (m - 1 - x) * Base >= 0
    <3>1. m - 1 - x \in Nat
      BY <2>2, <2>3
    <3> QED BY <1>0, <3>1
  <2>6. (m - 1 - x) * Base = m * Base - Base - x * Base
    BY <1>0, <2>2, <2>3
  <2>7. x * Base + b \in 0 .. m * Base - 1
    <3> DEFINE X == x * Base
               M == m * Base
    <3>1. X \in Int /\ M \in Int /\ X >= 0 /\ X <= M - Base /\ Base \in Nat
      BY <1>0, <2>4, <2>5, <2>6
    <3> HIDE DEF X, M
    <3>2. X + b \in 0 .. M - 1
      BY <2>3, <3>1
    <3> QED BY <3>2 DEF X, M
  <2> QED BY <2>1, <2>2, <2>3, <2>7
<1>4. 0 .. n \subseteq S
  <2> HIDE DEF S, n
  <2> QED BY <1>0, <1>2, <1>3, CountInduction
<1>5. n \in S
  BY <1>0, <1>4
<1> QED BY <1>1, <1>5

\* Digits are bytes, as many as are asked for.
LEMMA DigitsType ==
    ASSUME NEW w \in Nat, NEW n \in Int
    PROVE  Digits(w, n) \in Seq(Byte) /\ Len(Digits(w, n)) = w
<1>1. ASSUME NEW i \in 1 .. w PROVE (n \div Power(Base, w - i)) % Base \in Byte
  <2> DEFINE m == Power(Base, w - i)
  <2>1. m \in Nat \ {0}
    BY PowerType, BaseAssumption
  <2> HIDE DEF m
  <2>2. n \div m \in Int
    BY <2>1
  <2>3. (n \div m) % Base \in 0 .. Base - 1
    BY <2>2, BaseAssumption
  <2> QED BY <2>3 DEF m, Byte
<1> QED BY <1>1 DEF Digits

\* The digits of a number make the number again.
LEMMA NumberOfDigits ==
    ASSUME NEW w \in Nat, NEW n \in 0 .. Power(Base, w) - 1
    PROVE  Number(Digits(w, n)) = n
<1> DEFINE d == Digits(w, n)
<1>0. d \in Seq(Int) /\ Len(d) = w /\ Base \in Nat \ {0} /\ n \in Nat
      /\ Power(Base, w) \in Nat \ {0}
  <2>1. Base \in Nat \ {0}
    BY BaseAssumption
  <2>2. Power(Base, w) \in Nat \ {0}
    BY <2>1, PowerType
  <2>3. n \in Nat
    BY <2>2
  <2>4. d \in Seq(Byte) /\ Len(d) = w
    BY <2>3, DigitsType
  <2> QED BY <2>1, <2>2, <2>3, <2>4 DEF Byte
<1>1. PICK f : /\ f[0] = 0 /\ \A i \in 1 .. w : f[i] = f[i - 1] * Base + d[i]
               /\ \A i \in 0 .. w : f[i] \in Int
               /\ Number(d) = f[w]
  <2> HIDE DEF d
  <2> QED BY <1>0, NumberLoop
<1> DEFINE S == {i \in Nat : f[i] = n \div Power(Base, w - i)}
<1>2. 0 \in S
  <2> DEFINE p == Power(Base, w)
  <2>1. n = 0 * p + n /\ p \in Nat \ {0} /\ n \in 0 .. p - 1
    BY <1>0
  <2> HIDE DEF p
  <2>2. n \div p = 0
    BY <2>1, QuotientIs
  <2>3. w - 0 = w
    OBVIOUS
  <2> QED BY <1>1, <2>2, <2>3 DEF p
<1>3. \A i \in 1 .. w : i - 1 \in S => i \in S
  <2> SUFFICES ASSUME NEW i \in 1 .. w, i - 1 \in S PROVE i \in S
    OBVIOUS
  <2> DEFINE m == Power(Base, w - i)
             x == n \div m
  <2>1. w - i \in Nat /\ w - (i - 1) = w - i + 1
    OBVIOUS
  <2>2. Power(Base, w - (i - 1)) = m * Base /\ m \in Nat \ {0}
    BY <1>0, <2>1, PowerStep, PowerType
  <2>3. d[i] = x % Base
    BY DEF Digits
  <2>4. f[i] = f[i - 1] * Base + d[i]
    BY <1>1
  <2>5. f[i - 1] = n \div (m * Base)
    BY <2>2
  <2> HIDE DEF m
  <2>6. n \div (m * Base) = x \div Base
    <3>1. n \in Int /\ Base \in Nat \ {0} /\ m \in Nat \ {0}
      BY <1>0, <2>2
    <3> QED BY <3>1, QuotientOfQuotient
  <2>7. x \in Int
    BY <1>0, <2>2
  <2> HIDE DEF x, d
  <2>8. (x \div Base) * Base + (x % Base) = x
    BY <1>0, <2>7
  <2>9. f[i] = x
    BY <2>3, <2>4, <2>5, <2>6, <2>8
  <2> QED BY <2>9 DEF x, m
<1>4. 0 .. w \subseteq S
  <2> HIDE DEF S
  <2> QED BY <1>2, <1>3, CountInduction
<1>5. w \in S /\ w - w = 0 /\ n \div 1 = n
  <2> HIDE DEF S
  <2> QED BY <1>4, <1>0
<1> QED BY <1>0, <1>1, <1>5, PowerZero

\* The sign of a number is its first bit.
LEMMA SignedOfDigits ==
    ASSUME NEW w \in Nat \ {0}, NEW n \in 0 .. Power(Base, w) - 1
    PROVE  Signed(Digits(w, n)) =
             IF 2 * n >= Power(Base, w) THEN n - Power(Base, w) ELSE n
<1> DEFINE d == Digits(w, n)
           m == Power(Base, w - 1)
           x == n \div m
<1>1. Len(d) = w /\ Number(d) = n
  BY DigitsType, NumberOfDigits, PowerType, BaseAssumption
<1>2. Base \in Nat \ {0} /\ w - 1 \in Nat /\ w - 1 + 1 = w /\ 1 \in 1 .. w
  BY BaseAssumption
<1>3. Power(Base, w) = m * Base /\ m \in Nat \ {0} /\ n \in Nat
  <2>1. Power(Base, w) \in Nat \ {0} /\ m \in Nat \ {0}
    BY <1>2, PowerType
  <2>2. Power(Base, w - 1 + 1) = Power(Base, w - 1) * Base
    BY <1>2, PowerStep
  <2> QED BY <1>2, <2>1, <2>2
<1>4. d[1] = x % Base
  BY <1>2 DEF Digits
<1> HIDE DEF m, d
<1>5. PICK r \in 0 .. m - 1 : n = x * m + r /\ x \in Int
  BY <1>3, Quotient
<1> HIDE DEF x
<1>6. x \in 0 .. Base - 1
  <2>1. CASE x < 0
    <3>1. x * m <= -1 * m
      <4>1. (-1 - x) * m >= 0
        BY <1>3, <1>5, <2>1
      <4>2. (-1 - x) * m = -1 * m - x * m
        BY <1>3, <1>5
      <4> QED BY <1>3, <1>5, <4>1, <4>2
    <3> QED BY <1>3, <1>5, <3>1
  <2>2. CASE x >= Base
    <3>1. (x - Base) * m >= 0 /\ (x - Base) * m = x * m - Base * m /\ Base * m = m * Base
      BY <1>2, <1>3, <1>5, <2>2
    <3>2. x * m \in Int /\ m * Base \in Int
      BY <1>2, <1>3, <1>5
    <3> QED BY <1>3, <1>5, <3>1, <3>2
  <2> QED BY <1>2, <1>5, <2>1, <2>2
<1>7. d[1] = x
  BY <1>2, <1>4, <1>6
<1>8. PICK h \in Nat : Base = 2 * h
  BY BaseAssumption
<1>9. 2 * x >= Base <=> 2 * n >= m * Base
  <2>1. m * Base = 2 * (h * m) /\ h * m \in Int /\ x * m \in Int
    BY <1>3, <1>5, <1>8
  <2>2. CASE x >= h
    <3>1. (x - h) * m >= 0 /\ (x - h) * m = x * m - h * m
      BY <1>3, <1>5, <1>8, <2>2
    <3> QED BY <1>5, <1>8, <2>1, <2>2, <3>1
  <2>3. CASE x <= h - 1
    <3>1. (h - 1 - x) * m >= 0 /\ (h - 1 - x) * m = h * m - m - x * m
      BY <1>3, <1>5, <1>8, <2>3
    <3> QED BY <1>3, <1>5, <1>8, <2>1, <2>3, <3>1
  <2> QED BY <1>5, <1>8, <2>2, <2>3
<1>10. Signed(d) = IF 2 * d[1] >= Base THEN Number(d) - Power(Base, Len(d)) ELSE Number(d)
  BY DEF Signed
<1> QED BY <1>1, <1>3, <1>7, <1>9, <1>10 DEF d

-----------------------------------------------------------------------------
\* The bits of a number.

\* One divisor more, or less.
LEMMA QuotientNext ==
    ASSUME NEW n \in Int, NEW d \in Nat \ {0}
    PROVE  (n + d) \div d = (n \div d) + 1 /\ (n - d) \div d = (n \div d) - 1
<1>1. PICK r \in 0 .. d - 1 : n = (n \div d) * d + r /\ n \div d \in Int
  BY Quotient
<1> DEFINE q == n \div d
<1> HIDE DEF q
<1>2. q \in Int /\ n = q * d + r /\ q * d \in Int
  BY <1>1 DEF q
<1>3. (q + 1) * d = q * d + d /\ (q - 1) * d = q * d - d
  BY <1>2
<1>4. n + d = (q + 1) * d + r /\ n - d = (q - 1) * d + r
  BY <1>2, <1>3
<1>5. q + 1 \in Int /\ q - 1 \in Int
  BY <1>2
<1>6. ((q + 1) * d + r) \div d = q + 1 /\ ((q - 1) * d + r) \div d = q - 1
  BY <1>5, QuotientIs
<1> QED BY <1>4, <1>6 DEF q

\* The weight of a bit, and the number without the bits below it.
LEMMA BitWeight == ASSUME NEW i \in Nat PROVE Power(2, i) \in Nat \ {0}
BY PowerType

\* The weight of a bit is an even multiple of the weight of each bit below it.
LEMMA WeightsApart ==
    ASSUME NEW i \in Nat, NEW j \in Nat, j < i
    PROVE  \E r \in Nat \ {0} : Power(2, i) = (2 * r) * Power(2, j)
<1> DEFINE k == i - j - 1
           r == Power(2, k)
           m == Power(2, j)
<1>1. k \in Nat /\ j + 1 \in Nat /\ j + 1 + k = i /\ 2 \in Nat
  OBVIOUS
<1>2. r \in Nat \ {0} /\ m \in Nat \ {0}
  BY <1>1, BitWeight
<1>3. Power(2, j + 1) = m * 2
  BY PowerStep
<1>4. Power(2, j + 1 + k) = Power(2, j + 1) * r
  BY <1>1, PowerSum
<1> HIDE DEF r, m, k
<1>5. (m * 2) * r = (2 * r) * m
  BY <1>2
<1> QED BY <1>1, <1>2, <1>3, <1>4, <1>5 DEF m

\* n is changed by one bit: a multiple of the bit's weight is added.
LEMMA OwnBit ==
    ASSUME NEW n \in Int, NEW i \in Nat
    PROVE  /\ HasBit(n + Power(2, i), i) <=> ~HasBit(n, i)
           /\ HasBit(n - Power(2, i), i) <=> ~HasBit(n, i)
<1> DEFINE m == Power(2, i)
           x == n \div m
<1>1. m \in Nat \ {0}
  BY BitWeight
<1> HIDE DEF m
<1>2. x \in Int
  BY <1>1
<1>3. (n + m) \div m = x + 1 /\ (n - m) \div m = x - 1
  BY <1>1, QuotientNext
<1> HIDE DEF x
<1>4. /\ (x + 1) % 2 = 1 <=> ~(x % 2 = 1)
      /\ (x - 1) % 2 = 1 <=> ~(x % 2 = 1)
  BY <1>2
<1> QED BY <1>3, <1>4 DEF HasBit, m, x

\* An even multiple of its weight does not change a bit.
LEMMA LowerBit ==
    ASSUME NEW n \in Int, NEW k \in Int, NEW j \in Nat
    PROVE  HasBit(n + (2 * k) * Power(2, j), j) <=> HasBit(n, j)
<1> DEFINE m == Power(2, j)
           x == n \div m
<1>1. m \in Nat \ {0}
  BY BitWeight
<1> HIDE DEF m
<1>2. x \in Int /\ 2 * k \in Int
  BY <1>1
<1>3. (n + (2 * k) * m) \div m = x + 2 * k
  BY <1>1, <1>2, QuotientOfSum
<1> HIDE DEF x
<1>4. (x + 2 * k) % 2 = x % 2
  BY <1>2
<1> QED BY <1>3, <1>4 DEF HasBit, m, x

\* A bit above the one that is set or cleared.
LEMMA HigherBit ==
    ASSUME NEW n \in Int, NEW i \in Nat, NEW j \in Nat, i < j
    PROVE  /\ ~HasBit(n, i) => (HasBit(n + Power(2, i), j) <=> HasBit(n, j))
           /\ HasBit(n, i) => (HasBit(n - Power(2, i), j) <=> HasBit(n, j))
<1> DEFINE m == Power(2, i)
           x == n \div m
<1>1. m \in Nat \ {0}
  BY BitWeight
<1>2. PICK r \in Nat \ {0} : Power(2, j) = (2 * r) * m
  BY WeightsApart
<1> DEFINE d == 2 * r
<1>3. d \in Nat \ {0} /\ (2 * r) * m = m * d
  BY <1>1
<1> HIDE DEF m
<1>4. x \in Int
  BY <1>1
<1>5. (n + m) \div m = x + 1 /\ (n - m) \div m = x - 1
  BY <1>1, QuotientNext
<1>6. n + m \in Int /\ n - m \in Int
  BY <1>1
<1> HIDE DEF d
<1>7. /\ n \div (m * d) = x \div d
      /\ (n + m) \div (m * d) = (x + 1) \div d
      /\ (n - m) \div (m * d) = (x - 1) \div d
  <2>1. \A z \in Int : z \div (m * d) = (z \div m) \div d
    BY <1>1, <1>3, QuotientOfQuotient
  <2> QED BY <1>5, <1>6, <2>1
<1> HIDE DEF x
<1>8. PICK s \in 0 .. d - 1 : x = (x \div d) * d + s /\ x \div d \in Int
  BY <1>3, <1>4, Quotient
<1> DEFINE y == x \div d
<1> HIDE DEF y
<1>9. x % 2 = s % 2
  <2>1. y * d = 2 * (y * r) /\ y * r \in Int
    BY <1>8 DEF d, y
  <2>2. x = 2 * (y * r) + s
    BY <1>8, <2>1 DEF y
  <2> QED BY <1>3, <2>1, <2>2
<1>10. ~(x % 2 = 1) => (x + 1) \div d = y
  <2> SUFFICES ASSUME ~(x % 2 = 1) PROVE (x + 1) \div d = y
    OBVIOUS
  <2>1. s + 1 \in 0 .. d - 1
    BY <1>3, <1>9 DEF d
  <2>2. (y * d + (s + 1)) \div d = y
    BY <1>3, <1>8, <2>1, QuotientIs DEF y
  <2>3. y * d \in Int /\ x = y * d + s
    BY <1>3, <1>8 DEF y
  <2>4. x + 1 = y * d + (s + 1)
    BY <2>3
  <2> QED BY <2>2, <2>4
<1>11. x % 2 = 1 => (x - 1) \div d = y
  <2> SUFFICES ASSUME x % 2 = 1 PROVE (x - 1) \div d = y
    OBVIOUS
  <2>1. s - 1 \in 0 .. d - 1
    BY <1>3, <1>9 DEF d
  <2>2. (y * d + (s - 1)) \div d = y
    BY <1>3, <1>8, <2>1, QuotientIs DEF y
  <2>3. y * d \in Int /\ x = y * d + s
    BY <1>3, <1>8 DEF y
  <2>4. x - 1 = y * d + (s - 1)
    BY <2>3
  <2> QED BY <2>2, <2>4
<1> QED BY <1>2, <1>3, <1>7, <1>10, <1>11 DEF HasBit, m, x, y

\* Setting or clearing a bit leaves the other bits alone.
LEMMA OtherBit ==
    ASSUME NEW n \in Int, NEW i \in Nat, NEW j \in Nat, i # j
    PROVE  /\ HasBit(SetBit(n, i), j) <=> HasBit(n, j)
           /\ HasBit(ClearBit(n, i), j) <=> HasBit(n, j)
<1>1. CASE i < j
  BY <1>1, HigherBit DEF SetBit, ClearBit
<1>2. CASE j < i
  <2>1. PICK r \in Nat \ {0} : Power(2, i) = (2 * r) * Power(2, j)
    BY <1>2, WeightsApart
  <2> DEFINE m == Power(2, j)
  <2>2. m \in Nat \ {0}
    BY BitWeight
  <2>3. HasBit(n + (2 * r) * m, j) <=> HasBit(n, j)
    BY LowerBit
  <2>4. HasBit(n + (2 * (-r)) * m, j) <=> HasBit(n, j)
    <3>1. -r \in Int
      OBVIOUS
    <3> QED BY <3>1, LowerBit
  <2>5. n + (2 * (-r)) * m = n - (2 * r) * m
    BY <2>2
  <2> QED BY <2>1, <2>3, <2>4, <2>5 DEF SetBit, ClearBit
<1> QED BY <1>1, <1>2

\* The bit itself is set or cleared.
LEMMA ChangedBit ==
    ASSUME NEW n \in Int, NEW i \in Nat
    PROVE  HasBit(SetBit(n, i), i) /\ ~HasBit(ClearBit(n, i), i)
BY OwnBit DEF SetBit, ClearBit

\* A number of a register stays one when a bit of the register is set or cleared.
LEMMA BitInRange ==
    ASSUME NEW size \in Nat, NEW i \in Nat, NEW k \in Nat,
           size = k * (2 * Power(2, i)), NEW n \in 0 .. size - 1
    PROVE  SetBit(n, i) \in 0 .. size - 1 /\ ClearBit(n, i) \in 0 .. size - 1
<1> DEFINE m == Power(2, i)
           x == n \div m
<1>1. m \in Nat \ {0} /\ n \in Nat /\ n \in Int
  BY BitWeight
<1>2. PICK r \in 0 .. m - 1 : n = x * m + r /\ x \in Int
  <2> HIDE DEF m
  <2> QED BY <1>1, Quotient
<1> HIDE DEF m
<1> HIDE DEF x
<1>3. x * m \in Int /\ size = (2 * k) * m /\ (2 * k) * m \in Int
  BY <1>1, <1>2 DEF m
<1>4. x >= 0
  <2>1. CASE x < 0
    <3>1. (-1 - x) * m >= 0 /\ (-1 - x) * m = -m - x * m
      BY <1>1, <1>2, <2>1
    <3> QED BY <1>1, <1>2, <1>3, <3>1
  <2> QED BY <1>2, <2>1
<1>5. x < 2 * k
  <2>1. CASE x >= 2 * k
    <3>1. (x - 2 * k) * m >= 0 /\ (x - 2 * k) * m = x * m - (2 * k) * m
      BY <1>1, <1>2, <2>1
    <3> QED BY <1>1, <1>2, <1>3, <3>1
  <2> QED BY <1>2, <2>1
<1>6. ASSUME x % 2 # 1 PROVE n + m <= size - 1
  <2>1. x <= 2 * k - 2
    BY <1>2, <1>5, <1>6
  <2>2. (2 * k - 2 - x) * m >= 0 /\ (2 * k - 2 - x) * m = (2 * k) * m - 2 * m - x * m
    BY <1>1, <1>2, <2>1
  <2> QED BY <1>1, <1>2, <1>3, <2>2
<1>7. ASSUME x % 2 = 1 PROVE n - m >= 0
  <2>1. x >= 1
    BY <1>2, <1>4, <1>7
  <2>2. (x - 1) * m >= 0 /\ (x - 1) * m = x * m - m
    BY <1>1, <1>2, <2>1
  <2> QED BY <1>1, <1>2, <1>3, <2>2
<1> QED BY <1>1, <1>6, <1>7 DEF SetBit, ClearBit, HasBit, m, x

-----------------------------------------------------------------------------
\* Byte and word order.

\* Whole registers of any contents.
Words(S) == {b \in Seq(S) : Len(b) % 2 = 0}

\* Reverse keeps the length, and puts the last byte first.
LEMMA ReverseType ==
    ASSUME NEW S, NEW b \in Words(S)
    PROVE  /\ Reverse(b) \in Words(S)
           /\ Len(Reverse(b)) = Len(b)
           /\ \A i \in 1 .. Len(b) : Reverse(b)[i] = b[Len(b) + 1 - i]
BY DEF Reverse, Words

\* SwapWords keeps the length; where it puts each byte.
LEMMA SwapWordsType ==
    ASSUME NEW S, NEW b \in Words(S)
    PROVE  /\ SwapWords(b) \in Words(S)
           /\ Len(SwapWords(b)) = Len(b)
           /\ \A i \in 1 .. Len(b) :
                 SwapWords(b)[i] = b[IF i % 2 = 1 THEN Len(b) - i ELSE Len(b) + 2 - i]
BY DEF SwapWords, Words

\* Two sequences are equal when they agree at every index.
LEMMA SameWords ==
    ASSUME NEW S, NEW a \in Words(S), NEW b \in Words(S), Len(a) = Len(b),
           \A i \in 1 .. Len(a) : a[i] = b[i]
    PROVE  a = b
BY SeqEqual DEF Words

\* The place that SwapWords exchanges i with: the first byte of a register with the
\* first byte of the register as far from the other end.
Place(n, i) == IF i % 2 = 1 THEN n - i ELSE n + 2 - i

\* Place is its own inverse.
LEMMA PlaceTwice ==
    ASSUME NEW n \in Nat, n % 2 = 0, NEW i \in 1 .. n
    PROVE  Place(n, i) \in 1 .. n /\ Place(n, Place(n, i)) = i
<1>1. PICK h \in Nat : n = 2 * h
  OBVIOUS
<1>2. CASE i % 2 = 1
  <2>1. PICK q \in Nat : i = 2 * q + 1
    BY <1>2
  <2> QED
    BY <1>1, <1>2, <2>1 DEF Place
<1>3. CASE i % 2 = 0
  <2>1. PICK q \in Nat : i = 2 * q
    BY <1>3
  <2> QED
    BY <1>1, <1>3, <2>1 DEF Place
<1> QED
  BY <1>2, <1>3

\* Each of the two steps of a conversion undoes itself.
LEMMA ReverseTwice ==
    ASSUME NEW S, NEW b \in Words(S)
    PROVE  Reverse(Reverse(b)) = b
<1>1. Reverse(b) \in Words(S) /\ Len(Reverse(b)) = Len(b)
  BY ReverseType
<1>2. ASSUME NEW i \in 1 .. Len(b)
      PROVE  Reverse(Reverse(b))[i] = b[i]
  <2> DEFINE k == Len(b) + 1 - i
  <2>1. k \in 1 .. Len(b) /\ Len(b) + 1 - k = i
    BY DEF Words
  <2>2. Reverse(Reverse(b))[i] = Reverse(b)[k]
    BY <1>1, ReverseType
  <2>3. Reverse(b)[k] = b[Len(b) + 1 - k]
    BY <2>1, ReverseType
  <2> QED
    BY <2>1, <2>2, <2>3
<1> QED
  BY <1>1, <1>2, ReverseType, SameWords

\* SwapWords is its own inverse.
LEMMA SwapWordsTwice ==
    ASSUME NEW S, NEW b \in Words(S)
    PROVE  SwapWords(SwapWords(b)) = b
<1> DEFINE n == Len(b)
<1>1. SwapWords(b) \in Words(S) /\ Len(SwapWords(b)) = n
  BY SwapWordsType
<1>2. ASSUME NEW i \in 1 .. n
      PROVE  SwapWords(SwapWords(b))[i] = b[i]
  <2>1. n \in Nat /\ n % 2 = 0
    BY DEF Words
  <2>2. Place(n, i) \in 1 .. n /\ Place(n, Place(n, i)) = i
    BY <2>1, PlaceTwice
  <2>3. SwapWords(SwapWords(b))[i] = SwapWords(b)[Place(n, i)]
    BY <1>1, SwapWordsType DEF Place
  <2>4. SwapWords(b)[Place(n, i)] = b[Place(n, Place(n, i))]
    BY <2>2, SwapWordsType DEF Place
  <2> QED
    BY <2>2, <2>3, <2>4
<1> QED
  BY <1>1, <1>2, SwapWordsType, SameWords

\* What is written in the byte and word order of a point is read back unchanged
\* with that order, whatever the value and the number of registers.
THEOREM RoundTrip ==
    ASSUME NEW e \in Endianness, NEW w \in WordOrder,
           NEW S, NEW int \in Words(S)
    PROVE  BytesToUint(e, w, UintToBytes(e, w, int)) = int
<1>1. PutUint(e, int) \in Words(S)
  BY ReverseType DEF PutUint
<1>2. PutUint(e, PutUint(e, int)) = int
  BY ReverseTwice DEF PutUint
<1>3. SwapWords(SwapWords(PutUint(e, int))) = PutUint(e, int)
  BY <1>1, SwapWordsTwice
<1>4. CASE WordsSwapped(e, w)
  BY <1>2, <1>3, <1>4 DEF BytesToUint, UintToBytes
<1>5. CASE ~WordsSwapped(e, w)
  BY <1>2, <1>5 DEF BytesToUint, UintToBytes
<1> QED
  BY <1>4, <1>5

\* The decoders read the four encodings in the order that their names in the
\* user interface promise (schema/modbus.go:16), whatever the number of registers.
THEOREM ReadsAsDocumented ==
    ASSUME NEW encoding \in {"beb_bew", "leb_bew", "beb_lew", "leb_lew"},
           NEW S, NEW in \in Words(S)
    PROVE  BytesToUint(Orders(encoding)[1], Orders(encoding)[2], in)
             = Documented(encoding, in)
<1> DEFINE n == Len(in)
           pair(i) == IF i % 2 = 1 THEN i + 1 ELSE i - 1
           j(i) == IF i % 2 = 1 THEN n - i ELSE n + 2 - i
<1>1. n \in Nat /\ n % 2 = 0
  BY DEF Words
<1>2. \A i \in 1 .. n : pair(i) \in 1 .. n /\ j(i) \in 1 .. n /\ n + 1 - i \in 1 .. n
  BY <1>1
<1>3. CASE encoding = "beb_bew"
  BY <1>3 DEF Orders, BytesToUint, PutUint, WordsSwapped, Documented
<1>4. CASE encoding = "beb_lew"
  <2>1. \A i \in 1 .. n : j(i) = n + 1 - pair(i)
    BY <1>1
  <2>2. BytesToUint("big", "low", in) = [i \in 1 .. n |-> in[j(i)]]
    BY DEF BytesToUint, PutUint, WordsSwapped, SwapWords
  <2> QED
    BY <1>4, <2>1, <2>2 DEF Orders, Documented
<1>5. CASE encoding = "leb_lew"
  <2>1. BytesToUint("little", "low", in) = [i \in 1 .. n |-> in[n - i + 1]]
    BY DEF BytesToUint, PutUint, WordsSwapped, Reverse
  <2>2. \A i \in 1 .. n : n - i + 1 = n + 1 - i
    BY <1>1
  <2> QED
    BY <1>5, <2>1, <2>2 DEF Orders, Documented
<1>6. CASE encoding = "leb_bew"
  <2> DEFINE s == SwapWords(in)
  <2>1. BytesToUint("little", "high", in) = Reverse(s)
    BY DEF BytesToUint, PutUint, WordsSwapped
  <2>2. s \in Words(S) /\ Len(s) = n
    BY SwapWordsType
  <2>3. ASSUME NEW i \in 1 .. n
        PROVE  Reverse(s)[i] = in[pair(i)]
    <3>1. j(n + 1 - i) = pair(i)
      BY <1>1
    <3>2. Reverse(s)[i] = s[n + 1 - i]
      BY <2>2, ReverseType
    <3>3. n + 1 - i \in 1 .. n
      BY <1>2
    <3>4. s[n + 1 - i] = in[j(n + 1 - i)]
      BY <3>3, SwapWordsType
    <3> HIDE DEF s, j, pair
    <3> QED
      BY <3>1, <3>2, <3>4
  <2>4. Reverse(s) \in Words(S) /\ Len(Reverse(s)) = n
    BY <2>2, ReverseType
  <2> DEFINE d == [i \in 1 .. n |-> in[pair(i)]]
  <2>5. d \in Words(S) /\ Len(d) = n
    <3>1. ASSUME NEW i \in 1 .. n
          PROVE  in[pair(i)] \in S
      <4>1. in \in Seq(S) /\ pair(i) \in 1 .. Len(in)
        BY <1>2 DEF Words
      <4> HIDE DEF pair
      <4> QED
        BY <4>1, ElementOfSeq
    <3> HIDE DEF pair
    <3> QED
      BY <1>1, <3>1 DEF Words
  <2>6. Reverse(s) = d
    <3> HIDE DEF s
    <3>1. \A i \in 1 .. n : d[i] = in[pair(i)]
      OBVIOUS
    <3> HIDE DEF d
    <3> QED
      BY <2>3, <2>4, <2>5, <3>1, SameWords
  <2> QED
    BY <1>6, <2>1, <2>6 DEF Orders, Documented
<1> QED
  BY <1>3, <1>4, <1>5, <1>6

\* A conversion keeps the length, and what the bytes are.
LEMMA ConvertedType ==
    ASSUME NEW S, NEW e, NEW w, NEW in \in Words(S)
    PROVE  /\ BytesToUint(e, w, in) \in Words(S) /\ Len(BytesToUint(e, w, in)) = Len(in)
           /\ UintToBytes(e, w, in) \in Words(S) /\ Len(UintToBytes(e, w, in)) = Len(in)
<1>1. /\ PutUint(e, in) \in Words(S) /\ Len(PutUint(e, in)) = Len(in)
      /\ SwapWords(in) \in Words(S) /\ Len(SwapWords(in)) = Len(in)
  BY ReverseType, SwapWordsType DEF PutUint
<1>2. PutUint(e, SwapWords(in)) \in Words(S) /\ Len(PutUint(e, SwapWords(in))) = Len(in)
  BY <1>1, ReverseType DEF PutUint
<1>3. SwapWords(PutUint(e, in)) \in Words(S) /\ Len(SwapWords(PutUint(e, in))) = Len(in)
  BY <1>1, SwapWordsType
<1> QED BY <1>1, <1>2, <1>3 DEF BytesToUint, UintToBytes

\* An encoding without a name is read as beb_lew.
LEMMA OrdersType ==
    ASSUME NEW encoding
    PROVE  /\ Orders(encoding)[1] \in Endianness /\ Orders(encoding)[2] \in WordOrder
           /\ encoding \notin Encodings =>
                /\ Orders(encoding) = Orders("beb_lew")
                /\ \A in : Documented(encoding, in) = Documented("beb_lew", in)
BY DEF Orders, Documented, Encodings, Endianness, WordOrder

\* Decoding follows the documentation also for an encoding that it does not name.
LEMMA DecodedAsDocumented ==
    ASSUME NEW encoding, NEW S, NEW in \in Words(S)
    PROVE  BytesToUint(Orders(encoding)[1], Orders(encoding)[2], in) = Documented(encoding, in)
<1>1. CASE encoding \in Encodings
  BY <1>1, ReadsAsDocumented DEF Encodings
<1>2. CASE encoding \notin Encodings
  BY <1>2, OrdersType, ReadsAsDocumented
<1> QED BY <1>1, <1>2

\* A signed number is an integer.
LEMMA SignedType ==
    ASSUME NEW bytes \in Seq(Byte), Len(bytes) > 0
    PROVE  Signed(bytes) \in Int
<1>1. Base \in Nat \ {0} /\ bytes \in Seq(Int) /\ Len(bytes) \in Nat
  BY BaseAssumption DEF Byte
<1>2. Number(bytes) \in Int /\ Power(Base, Len(bytes)) \in Int
  BY <1>1, NumberType, PowerType
<1> QED BY <1>2 DEF Signed

\* The value of bytes is an integer, counted in quarters.
LEMMA ValueType ==
    ASSUME NEW data, NEW bytes \in Seq(Byte), Len(bytes) > 0
    PROVE  Value(data, bytes) \in Int
<1>1. bytes \in Seq(Int)
  BY BaseAssumption DEF Byte
<1>2. Signed(bytes) \in Int /\ Number(bytes) \in Int
  BY <1>1, SignedType, NumberType
<1> QED BY <1>2 DEF Value, Q

-----------------------------------------------------------------------------
\* Reading: what the bytes of the device are decoded to.

\* What a device's memory holds.
HasTables(d) == d = [t \in Bits \cup Registers |-> d[t]]
IsDevice(d) ==
    /\ HasTables(d)
    /\ \A t \in Bits : d[t] \in [0 .. LastCell -> {0, 1}]
    /\ \A t \in Registers : d[t] \in [0 .. LastCell -> [1 .. 2 -> Byte]]

\* The table, width, address and quantity of a point.
LEMMA PointType ==
    ASSUME NEW pt \in Config
    PROVE  /\ Table(pt.object) \in Bits \cup Registers
           /\ Width(pt.data) \in {2, 4, 8}
           /\ Address(pt) \in Nat /\ LastCell \in Nat
           /\ Quantity(pt) \in {1, 2, 4}
<1>1. pt.address - 1 \in Int
  BY DEF Config
<1>2. \A n \in Int : n % 2^16 \in Nat
  OBVIOUS
<1> QED BY <1>1, <1>2, RequestsAssumption
        DEF Table, Bits, Registers, Width, Address, Quantity

\* The bytes of registers that the device has, and where they come from.
LEMMA RawType ==
    ASSUME NEW d, IsDevice(d), NEW pt \in Config, Table(pt.object) \in Registers,
           NEW n \in Nat, Within(pt, n)
    PROVE  /\ Raw(d, pt, n) \in Words(Byte) /\ Len(Raw(d, pt, n)) = 2 * n
           /\ \A k \in 1 .. 2 * n : Raw(d, pt, n)[k]
                = d[Table(pt.object)][Address(pt) + (k - 1) \div 2][2 - (k % 2)]
<1> DEFINE t == Table(pt.object)
           a == Address(pt)
<1>1. a \in Nat /\ LastCell \in Nat /\ a + n - 1 <= LastCell
  BY PointType DEF Within
<1>2. d[t] \in [0 .. LastCell -> [1 .. 2 -> Byte]]
  BY DEF IsDevice
<1> HIDE DEF t, a
<1>3. ASSUME NEW k \in 1 .. 2 * n
      PROVE  d[t][a + (k - 1) \div 2][2 - (k % 2)] \in Byte
  <2>1. a + (k - 1) \div 2 \in 0 .. LastCell /\ 2 - (k % 2) \in 1 .. 2
    BY <1>1
  <2> QED BY <1>2, <2>1
<1>4. Raw(d, pt, n) = [k \in 1 .. 2 * n |-> d[t][a + (k - 1) \div 2][2 - (k % 2)]]
  BY DEF Raw, t, a
<1>5. 2 * n \in Nat /\ (2 * n) % 2 = 0
  OBVIOUS
<1>6. Raw(d, pt, n) \in Seq(Byte) /\ Len(Raw(d, pt, n)) = 2 * n
  BY <1>3, <1>4, <1>5
<1> QED BY <1>4, <1>5, <1>6 DEF t, a, Words

\* The two registers of four bytes.
LEMMA HalvesType ==
    ASSUME NEW S, NEW s \in Words(S), Len(s) = 4
    PROVE  /\ SubSeq(s, 1, 2) \in Words(S) /\ Len(SubSeq(s, 1, 2)) = 2
           /\ SubSeq(s, 1, 2)[1] = s[1] /\ SubSeq(s, 1, 2)[2] = s[2]
           /\ SubSeq(s, 3, 4) \in Words(S) /\ Len(SubSeq(s, 3, 4)) = 2
           /\ SubSeq(s, 3, 4)[1] = s[3] /\ SubSeq(s, 3, 4)[2] = s[4]
<1>1. s \in Seq(S) /\ \A i \in 1 .. 4 : s[i] \in S
  BY DEF Words
<1>2. ASSUME NEW m \in {1, 3}, NEW n \in {2, 4}, n = m + 1
      PROVE  /\ SubSeq(s, m, n) \in Words(S) /\ Len(SubSeq(s, m, n)) = 2
             /\ SubSeq(s, m, n)[1] = s[m] /\ SubSeq(s, m, n)[2] = s[n]
  <2> DEFINE t == SubSeq(s, m, n)
  <2>1. t = [i \in 1 .. 2 |-> s[i + m - 1]]
    BY <1>1, <1>2
  <2>2. \A i \in 1 .. 2 : i + m - 1 \in 1 .. 4 /\ s[i + m - 1] \in S
    BY <1>1
  <2>3. t[1] = s[m] /\ t[2] = s[n]
    BY <1>2, <2>1
  <2>4. t \in Seq(S) /\ Len(t) = 2
    BY <2>1, <2>2
  <2> HIDE DEF t
  <2>5. t \in Words(S)
    <3>1. 2 % 2 = 0
      OBVIOUS
    <3> QED BY <2>4, <3>1, Zenon DEF Words
  <2> QED BY <2>3, <2>4, <2>5, Zenon DEF t
<1> QED BY <1>2

\* Whole registers stand for an integer.
LEMMA NumberOfWords == ASSUME NEW s \in Words(Byte) PROVE Number(s) \in Int
<1>1. s \in Seq(Byte)
  BY DEF Words
<1>2. s \in Seq(Int)
  BY <1>1, BaseAssumption DEF Byte
<1> QED BY <1>2, NumberType

\* All of a sequence.
LEMMA WholeType ==
    ASSUME NEW S, NEW s \in Seq(S)
    PROVE  SubSeq(s, 1, Len(s)) = s
<1>1. SubSeq(s, 1, Len(s)) = [i \in 1 .. Len(s) |-> s[i]]
  OBVIOUS
<1> QED BY <1>1

\* The two words of a mod10_u32 are read in the documented order.
LEMMA ReadTwoWords ==
    ASSUME NEW encoding, NEW in \in Words(Byte), Len(in) = 4
    PROVE  LET bytes == Documented(encoding, in)
           IN  BytesToMod10(Orders(encoding)[1], Orders(encoding)[2], in)
                 = Number(SubSeq(bytes, 1, 2)) * 10000 + Number(SubSeq(bytes, 3, 4))
<1> DEFINE a == SubSeq(in, 1, 2)
           b == SubSeq(in, 3, 4)
           bytes == Documented(encoding, in)
           c == SubSeq(bytes, 1, 2)
           d == SubSeq(bytes, 3, 4)
           e == Orders(encoding)[1]
           w == Orders(encoding)[2]
<1> SUFFICES BytesToMod10(e, w, in) = Number(c) * 10000 + Number(d)
  OBVIOUS
<1>1. bytes \in Words(Byte) /\ Len(bytes) = 4
  BY ConvertedType, DecodedAsDocumented
<1>2. /\ a \in Words(Byte) /\ Len(a) = 2 /\ a[1] = in[1] /\ a[2] = in[2]
      /\ c \in Words(Byte) /\ Len(c) = 2 /\ c[1] = bytes[1] /\ c[2] = bytes[2]
  <2> HIDE DEF bytes
  <2> QED BY <1>1, HalvesType
<1>3. /\ b \in Words(Byte) /\ Len(b) = 2 /\ b[1] = in[3] /\ b[2] = in[4]
      /\ d \in Words(Byte) /\ Len(d) = 2 /\ d[1] = bytes[3] /\ d[2] = bytes[4]
  <2> HIDE DEF bytes
  <2> QED BY <1>1, HalvesType
<1>4. /\ PutUint(e, a) \in Words(Byte) /\ Len(PutUint(e, a)) = 2
      /\ PutUint(e, b) \in Words(Byte) /\ Len(PutUint(e, b)) = 2
      /\ PutUint(e, a)[1] = IF e = "big" THEN in[1] ELSE in[2]
      /\ PutUint(e, a)[2] = IF e = "big" THEN in[2] ELSE in[1]
      /\ PutUint(e, b)[1] = IF e = "big" THEN in[3] ELSE in[4]
      /\ PutUint(e, b)[2] = IF e = "big" THEN in[4] ELSE in[3]
  <2> HIDE DEF a, b, e
  <2>1. ASSUME NEW s \in Words(Byte), Len(s) = 2
        PROVE  /\ Reverse(s) \in Words(Byte) /\ Len(Reverse(s)) = 2
               /\ Reverse(s)[1] = s[2] /\ Reverse(s)[2] = s[1]
    BY <2>1, ReverseType
  <2> QED BY <1>2, <1>3, <2>1 DEF PutUint
<1>5. BytesToMod10(e, w, in) = IF w = "high"
                                 THEN Number(PutUint(e, a)) * 10000 + Number(PutUint(e, b))
                                 ELSE Number(PutUint(e, b)) * 10000 + Number(PutUint(e, a))
  BY DEF BytesToMod10
<1>6. \A x, y \in Words(Byte) : Len(x) = 2 /\ Len(y) = 2 /\ x[1] = y[1] /\ x[2] = y[2] => x = y
  <2> SUFFICES ASSUME NEW x \in Words(Byte), NEW y \in Words(Byte), Len(x) = 2, Len(y) = 2,
                      x[1] = y[1], x[2] = y[2]
               PROVE  x = y
    OBVIOUS
  <2> QED BY SameWords
<1> HIDE DEF a, b, c, d
<1>7. CASE encoding = "beb_bew"
  <2>1. e = "big" /\ w = "high" /\ bytes = in
    BY <1>7 DEF Orders, Documented
  <2>2. PutUint(e, a) = c /\ PutUint(e, b) = d
    BY <1>2, <1>3, <1>4, <1>6, <2>1
  <2> QED BY <1>5, <2>1, <2>2
<1>8. CASE encoding = "leb_bew"
  <2>1. /\ e = "little" /\ w = "high"
        /\ bytes[1] = in[2] /\ bytes[2] = in[1] /\ bytes[3] = in[4] /\ bytes[4] = in[3]
    BY <1>8 DEF Orders, Documented
  <2>2. PutUint(e, a) = c /\ PutUint(e, b) = d
    BY <1>2, <1>3, <1>4, <1>6, <2>1
  <2> QED BY <1>5, <2>1, <2>2
<1>9. CASE encoding = "leb_lew"
  <2>1. /\ e = "little" /\ w = "low"
        /\ bytes[1] = in[4] /\ bytes[2] = in[3] /\ bytes[3] = in[2] /\ bytes[4] = in[1]
    BY <1>9 DEF Orders, Documented
  <2>2. PutUint(e, b) = c /\ PutUint(e, a) = d
    BY <1>2, <1>3, <1>4, <1>6, <2>1
  <2> QED BY <1>5, <2>1, <2>2
<1>10. CASE encoding \notin {"beb_bew", "leb_bew", "leb_lew"}
  <2>1. /\ e = "big" /\ w = "low"
        /\ bytes[1] = in[3] /\ bytes[2] = in[4] /\ bytes[3] = in[1] /\ bytes[4] = in[2]
    BY <1>10 DEF Orders, Documented
  <2>2. PutUint(e, b) = c /\ PutUint(e, a) = d
    BY <1>2, <1>3, <1>4, <1>6, <2>1
  <2> QED BY <1>5, <2>1, <2>2
<1> QED BY <1>7, <1>8, <1>9, <1>10

\* What is read is an integer, counted in quarters.
LEMMA ReadResponseType ==
    ASSUME NEW d, IsDevice(d), NEW pt \in Config, CanRead(pt)
    PROVE  ReadResponse(d, pt) \in Int
<1> DEFINE t == Table(pt.object)
           raw == Raw(d, pt, Quantity(pt))
           e == Orders(pt.encoding)[1]
           w == Orders(pt.encoding)[2]
           n == Width(pt.data)
<1>1. t \in Bits \cup Registers /\ Within(pt, Quantity(pt)) /\ Quantity(pt) \in {1, 2, 4}
      /\ n \in {2, 4, 8} /\ Address(pt) \in Nat /\ LastCell \in Nat
  BY PointType DEF CanRead
<1>2. CASE t \in Bits
  <2>1. Address(pt) \in 0 .. LastCell
    BY <1>1, <1>2 DEF Within, Quantity
  <2>2. d[t][Address(pt)] \in {0, 1}
    BY <1>2, <2>1 DEF IsDevice
  <2> QED BY <1>2, <2>2 DEF ReadResponse, Q
<1>3. CASE t \notin Bits
  <2>1. raw \in Words(Byte) /\ Len(raw) = 2 * Quantity(pt)
    BY <1>1, <1>3, RawType
  <2>2. CASE pt.data = "mod10_u32"
    <3>1. Len(raw) = 4
      BY <1>3, <2>1, <2>2 DEF Quantity, Width
    <3> DEFINE bytes == Documented(pt.encoding, raw)
    <3>2. bytes \in Words(Byte) /\ Len(bytes) = 4
      BY <2>1, <3>1, ConvertedType, DecodedAsDocumented
    <3>3. SubSeq(bytes, 1, 2) \in Words(Byte) /\ SubSeq(bytes, 3, 4) \in Words(Byte)
      <4> HIDE DEF bytes
      <4> QED BY <3>2, HalvesType
    <3>4. Number(SubSeq(bytes, 1, 2)) \in Int /\ Number(SubSeq(bytes, 3, 4)) \in Int
      BY <3>3, NumberOfWords
    <3>5. BytesToMod10(e, w, raw) \in Int
      BY <2>1, <3>1, <3>4, ReadTwoWords
    <3>6. ReadResponse(d, pt) = Q * BytesToMod10(e, w, raw)
      BY <1>3, <2>2 DEF ReadResponse
    <3> QED BY <3>5, <3>6 DEF Q
  <2>3. CASE pt.data # "mod10_u32"
    <3> DEFINE bytes == BytesToUints(e, w, n, raw)[1]
    <3>1. bytes \in Seq(Byte) /\ Len(bytes) = n
      <4>1. CASE Len(raw) % n # 0
        <5>1. bytes = Zeros(n)
          BY <4>1 DEF BytesToUints
        <5>2. 0 \in Byte /\ n \in Nat
          BY <1>1, BaseAssumption DEF Byte
        <5> HIDE DEF n
        <5> QED BY <5>1, <5>2 DEF Zeros
      <4>2. CASE Len(raw) % n = 0
        <5>1. Len(raw) \div n >= 1 /\ Len(raw) \div n \in Nat
          <6> HIDE DEF n, raw
          <6> QED BY <1>1, <2>1, <4>2
        <5>2. bytes = BytesToUint(e, w, SubSeq(raw, n * (1 - 1) + 1, n * 1))
          BY <4>2, <5>1 DEF BytesToUints
        <5>3. n * (1 - 1) + 1 = 1 /\ n * 1 = n
          BY <1>1
        <5>4. SubSeq(raw, 1, n) \in Words(Byte) /\ Len(SubSeq(raw, 1, n)) = n
          <6>1. n <= Len(raw) /\ n \in Nat /\ n % 2 = 0 /\ raw \in Seq(Byte)
            <7> HIDE DEF n, raw
            <7> QED BY <1>1, <2>1, <4>2 DEF Words
          <6> HIDE DEF n, raw
          <6>2. SubSeq(raw, 1, n) = [i \in 1 .. n |-> raw[i]]
            BY <6>1
          <6>3. \A i \in 1 .. n : raw[i] \in Byte
            BY <6>1
          <6> QED BY <6>1, <6>2, <6>3 DEF Words
        <5> HIDE DEF n, raw, e, w
        <5>5. /\ BytesToUint(e, w, SubSeq(raw, 1, n)) \in Words(Byte)
              /\ Len(BytesToUint(e, w, SubSeq(raw, 1, n))) = n
          <6>1. ASSUME NEW x \in Words(Byte), Len(x) = n
                PROVE  BytesToUint(e, w, x) \in Words(Byte) /\ Len(BytesToUint(e, w, x)) = n
            BY <6>1, ConvertedType
          <6> QED BY <5>4, <6>1, Zenon
        <5> HIDE DEF bytes
        <5> QED BY <5>2, <5>3, <5>5 DEF Words
      <4> QED BY <4>1, <4>2
    <3>2. ReadResponse(d, pt) = Value(pt.data, bytes)
      BY <1>3, <2>3 DEF ReadResponse
    <3> HIDE DEF bytes
    <3> QED BY <1>1, <3>1, <3>2, ValueType
  <2> QED BY <2>2, <2>3
<1> QED BY <1>2, <1>3

\* What is decoded is the value by the documentation, but for a float64, of which the code
\* reads half.
Decoded(d, pt) ==
    LET t == Table(pt.object)
        bytes == Documented(pt.encoding, Raw(d, pt, Width(pt.data) \div 2)) IN
    IF t \in Bits THEN Q * d[t][Address(pt)]
    ELSE IF pt.data = "mod10_u32"
    THEN Q * (Number(SubSeq(bytes, 1, 2)) * 10000 + Number(SubSeq(bytes, 3, 4)))
    ELSE Value(pt.data, bytes)

\* What networkRead returns is the decoded value.
LEMMA ReadIsDecoded ==
    ASSUME NEW d, IsDevice(d), NEW pt \in Config, CanRead(pt), ReadAsDocumented(pt)
    PROVE  ReadResponse(d, pt) = Decoded(d, pt)
<1> DEFINE t == Table(pt.object)
           n == Width(pt.data)
           raw == Raw(d, pt, n \div 2)
           e == Orders(pt.encoding)[1]
           w == Orders(pt.encoding)[2]
           bytes == Documented(pt.encoding, raw)
           v == IF t \in Bits THEN Q * d[t][Address(pt)]
                ELSE IF pt.data = "mod10_u32"
                THEN Q * (Number(SubSeq(bytes, 1, 2)) * 10000 + Number(SubSeq(bytes, 3, 4)))
                ELSE Value(pt.data, bytes)
<1>1. Decoded(d, pt) = v /\ (t \in Registers => pt.data # "float64")
  BY DEF Decoded, ReadAsDocumented
<1>2. v = ReadResponse(d, pt)
  <2>1. CASE t \in Bits
    BY <2>1 DEF ReadResponse
  <2>2. CASE t \notin Bits
    <3>1. t \in Registers /\ n \in {2, 4, 8} /\ Within(pt, Quantity(pt))
      BY <2>2, PointType DEF CanRead
    <3>2. Quantity(pt) = n \div 2 /\ Quantity(pt) \in Nat
      BY <1>1, <2>2, <3>1 DEF Quantity
    <3>3. raw \in Words(Byte) /\ Len(raw) = n
      <4>1. raw \in Words(Byte) /\ Len(raw) = 2 * (n \div 2)
        BY <3>1, <3>2, RawType
      <4> HIDE DEF n
      <4> QED BY <3>1, <4>1
    <3>4. CASE pt.data = "mod10_u32"
      <4>1. Len(raw) = 4
        BY <3>3, <3>4 DEF Width
      <4>2. ReadResponse(d, pt) = Q * BytesToMod10(e, w, raw)
        BY <2>2, <3>2, <3>4 DEF ReadResponse
      <4>3. BytesToMod10(e, w, raw)
              = Number(SubSeq(bytes, 1, 2)) * 10000 + Number(SubSeq(bytes, 3, 4))
        <5> HIDE DEF raw
        <5> QED BY <3>3, <4>1, ReadTwoWords
      <4> HIDE DEF raw, bytes
      <4> QED BY <2>2, <3>4, <4>2, <4>3
    <3>5. CASE pt.data # "mod10_u32"
      <4>1. ReadResponse(d, pt) = Value(pt.data, BytesToUints(e, w, n, raw)[1])
        BY <2>2, <3>2, <3>5 DEF ReadResponse
      <4>2. BytesToUints(e, w, n, raw)[1] = BytesToUint(e, w, raw)
        <5>1. Len(raw) % n = 0 /\ Len(raw) \div n = 1 /\ n * (1 - 1) + 1 = 1 /\ n * 1 = n
          <6> HIDE DEF n, raw
          <6> QED BY <3>1, <3>3
        <5>2. SubSeq(raw, 1, n) = raw
          <6> HIDE DEF n, raw
          <6> QED BY <3>3, WholeType DEF Words
        <5>3. BytesToUints(e, w, n, raw)[1]
                = BytesToUint(e, w, SubSeq(raw, n * (1 - 1) + 1, n * 1))
          BY <5>1 DEF BytesToUints
        <5> HIDE DEF n, raw, e, w
        <5> QED BY <5>1, <5>2, <5>3
      <4>3. BytesToUint(e, w, raw) = bytes
        <5> HIDE DEF raw
        <5> QED BY <3>3, DecodedAsDocumented
      <4> HIDE DEF raw, bytes
      <4> QED BY <2>2, <3>5, <4>1, <4>2, <4>3
    <3> QED BY <3>4, <3>5
  <2> QED BY <2>1, <2>2
<1> HIDE DEF v
<1> QED BY <1>1, <1>2

\* The documented value, in terms of the decoded one.
LEMMA PresentIsDecoded ==
    ASSUME NEW d, NEW pt
    PROVE  Present(d, pt) = IF Bitwise(pt) THEN BitOf(Decoded(d, pt), pt.bit)
                                           ELSE Decoded(d, pt)
BY DEF Present, Decoded

-----------------------------------------------------------------------------
\* Writing: what a request puts into the device.

\* The registers that bytes are sent in.
Laid(bytes) == [k \in 1 .. Len(bytes) \div 2 |-> SubSeq(bytes, 2 * k - 1, 2 * k)]

\* Which byte goes into which register.
LEMMA LaidType ==
    ASSUME NEW bytes \in Words(Byte)
    PROVE  /\ Laid(bytes) \in Seq([1 .. 2 -> Byte])
           /\ Len(Laid(bytes)) = Len(bytes) \div 2
           /\ \A j \in 1 .. Len(bytes) : Laid(bytes)[(j - 1) \div 2 + 1][2 - (j % 2)] = bytes[j]
<1> DEFINE n == Len(bytes) \div 2
<1>1. bytes \in Seq(Byte) /\ n \in Nat /\ Len(bytes) = 2 * n
      /\ \A i \in 1 .. Len(bytes) : bytes[i] \in Byte
  BY DEF Words
<1>2. ASSUME NEW k \in 1 .. n
      PROVE  /\ SubSeq(bytes, 2 * k - 1, 2 * k) = [i \in 1 .. 2 |-> bytes[i + 2 * k - 2]]
             /\ \A i \in 1 .. 2 : i + 2 * k - 2 \in 1 .. Len(bytes)
  BY <1>1
<1> DEFINE s == [k \in 1 .. n |-> [i \in 1 .. 2 |-> bytes[i + 2 * k - 2]]]
<1> HIDE DEF n
<1>3. Laid(bytes) = s
  BY <1>2 DEF Laid, n
<1>4. \A k \in 1 .. n : [i \in 1 .. 2 |-> bytes[i + 2 * k - 2]] \in [1 .. 2 -> Byte]
  BY <1>1, <1>2
<1>5. s \in Seq([1 .. 2 -> Byte]) /\ Len(s) = n
  BY <1>1, <1>4
<1>6. ASSUME NEW j \in 1 .. Len(bytes)
      PROVE  s[(j - 1) \div 2 + 1][2 - (j % 2)] = bytes[j]
  <2> DEFINE k == (j - 1) \div 2 + 1
             i == 2 - (j % 2)
  <2>1. k \in 1 .. n /\ i \in 1 .. 2 /\ i + 2 * k - 2 = j
    BY <1>1
  <2> HIDE DEF k, i
  <2>2. s[k][i] = bytes[i + 2 * k - 2]
    BY <2>1
  <2> QED BY <2>1, <2>2 DEF k, i
<1> QED BY <1>3, <1>5, <1>6 DEF n

\* What a write does to the cells.
LEMMA PutCells ==
    ASSUME NEW d, IsDevice(d), NEW pt \in Config, NEW cells
    PROVE  /\ HasTables(Put(d, pt, cells))
           /\ Put(d, pt, cells)[Table(pt.object)] = [a \in 0 .. LastCell |->
                 IF a \in Address(pt) .. Address(pt) + Len(cells) - 1
                 THEN cells[a - Address(pt) + 1] ELSE d[Table(pt.object)][a]]
<1> DEFINE t == Table(pt.object)
<1>1. t \in Bits \cup Registers /\ d = [u \in Bits \cup Registers |-> d[u]]
  BY PointType DEF IsDevice, HasTables
<1>2. DOMAIN d[t] = 0 .. LastCell
  BY <1>1 DEF IsDevice
<1> QED BY <1>1, <1>2 DEF Put, HasTables

\* A write leaves the other tables alone.
LEMMA PutElsewhere ==
    ASSUME NEW d, IsDevice(d), NEW pt \in Config, NEW cells,
           NEW u \in Bits \cup Registers, u # Table(pt.object)
    PROVE  Put(d, pt, cells)[u] = d[u]
BY DEF Put, IsDevice, HasTables

\* Registers that were sent are read back.
LEMMA PutRaw ==
    ASSUME NEW d, IsDevice(d), NEW pt \in Config, Table(pt.object) \in Registers,
           NEW n \in Nat, Within(pt, n), NEW bytes \in Words(Byte), Len(bytes) = 2 * n
    PROVE  Raw(Put(d, pt, Laid(bytes)), pt, n) = bytes
<1> DEFINE t == Table(pt.object)
           a == Address(pt)
           cells == Laid(bytes)
           e == Put(d, pt, cells)
<1>1. a \in Nat /\ LastCell \in Nat /\ a + n - 1 <= LastCell
  BY PointType DEF Within
<1>2. Len(cells) = n
  <2>1. Len(cells) = (2 * n) \div 2
    BY LaidType
  <2> HIDE DEF cells
  <2> QED BY <2>1
<1>3. e[t] = [x \in 0 .. LastCell |->
                IF x \in a .. a + n - 1 THEN cells[x - a + 1] ELSE d[t][x]]
  BY <1>2, PutCells
<1> HIDE DEF a, cells, e, t
<1>4. ASSUME NEW k \in 1 .. 2 * n
      PROVE  e[t][a + (k - 1) \div 2][2 - (k % 2)] = bytes[k]
  <2> DEFINE x == a + (k - 1) \div 2
  <2>1. x \in 0 .. LastCell /\ x \in a .. a + n - 1 /\ x - a + 1 = (k - 1) \div 2 + 1
    BY <1>1
  <2> HIDE DEF x
  <2>2. e[t][x] = cells[(k - 1) \div 2 + 1]
    BY <1>3, <2>1
  <2>3. cells[(k - 1) \div 2 + 1][2 - (k % 2)] = bytes[k]
    BY LaidType DEF cells
  <2> QED BY <2>2, <2>3 DEF x
<1>5. Raw(e, pt, n) = [k \in 1 .. 2 * n |-> e[t][a + (k - 1) \div 2][2 - (k % 2)]]
  BY DEF Raw, t, a
<1>6. bytes = [k \in 1 .. 2 * n |-> bytes[k]]
  BY DEF Words
<1> QED BY <1>4, <1>5, <1>6 DEF e, cells

\* Cells for the table of a point.
IsCells(pt, cells) ==
    cells \in Seq(IF Table(pt.object) \in Bits THEN {0, 1} ELSE [1 .. 2 -> Byte])

\* A device is still one after a write.
LEMMA PutType ==
    ASSUME NEW d, IsDevice(d), NEW pt \in Config, NEW cells, IsCells(pt, cells)
    PROVE  IsDevice(Put(d, pt, cells))
<1> DEFINE t == Table(pt.object)
           a == Address(pt)
           e == Put(d, pt, cells)
<1>1. t \in Bits \cup Registers /\ a \in Nat
  BY PointType
<1>2. /\ HasTables(e)
      /\ \A u \in Bits \cup Registers : u # t => e[u] = d[u]
      /\ e[t] = [x \in 0 .. LastCell |->
                   IF x \in a .. a + Len(cells) - 1 THEN cells[x - a + 1] ELSE d[t][x]]
  <2>1. HasTables(e)
    BY PutCells
  <2>2. ASSUME NEW u \in Bits \cup Registers, u # t PROVE e[u] = d[u]
    BY <2>2, PutElsewhere
  <2>3. e[t] = [x \in 0 .. LastCell |->
                  IF x \in a .. a + Len(cells) - 1 THEN cells[x - a + 1] ELSE d[t][x]]
    BY PutCells
  <2> QED BY <2>1, <2>2, <2>3
<1> DEFINE S == IF t \in Bits THEN {0, 1} ELSE [1 .. 2 -> Byte]
<1>3. cells \in Seq(S) /\ d[t] \in [0 .. LastCell -> S]
  <2>1. \A u \in Registers : u \notin Bits
    BY DEF Bits, Registers
  <2> QED BY <1>1, <2>1 DEF IsDevice, IsCells
<1> HIDE DEF S, e, a
<1>4. ASSUME NEW x \in 0 .. LastCell
      PROVE  (IF x \in a .. a + Len(cells) - 1 THEN cells[x - a + 1] ELSE d[t][x]) \in S
  <2>1. CASE x \in a .. a + Len(cells) - 1
    <3>1. x - a + 1 \in 1 .. Len(cells)
      BY <1>1, <1>3, <2>1
    <3>2. cells[x - a + 1] \in S
      BY <1>3, <3>1
    <3> QED BY <2>1, <3>2
  <2>2. CASE x \notin a .. a + Len(cells) - 1
    BY <1>3, <2>2
  <2> QED BY <2>1, <2>2
<1>5. e[t] \in [0 .. LastCell -> S]
  BY <1>2, <1>4
<1>6. \A u \in Bits : e[u] \in [0 .. LastCell -> {0, 1}]
  BY <1>2, <1>5 DEF IsDevice, S
<1>7. \A u \in Registers : e[u] \in [0 .. LastCell -> [1 .. 2 -> Byte]]
  <2>1. \A u \in Registers : u \notin Bits
    BY DEF Bits, Registers
  <2> QED BY <1>2, <1>5, <2>1 DEF IsDevice, S
<1> QED BY <1>2, <1>6, <1>7 DEF IsDevice, e

\* As many values as a register has: one at least.
LEMMA SizeType == ASSUME NEW w \in Nat PROVE Power(Base, w) \in Nat \ {0}
BY PowerType, BaseAssumption

\* Truncation gives an integer, and takes a whole number as it is.
LEMMA TruncType ==
    /\ \A v \in Int : Trunc(v) \in Int
    /\ \A n \in Nat : Trunc(Q * n) = n
BY DEF Trunc, Q

\* The range of a remainder.
LEMMA RemainderType ==
    ASSUME NEW n \in Int, NEW d \in Nat \ {0}
    PROVE  n % d \in 0 .. d - 1
OBVIOUS

\* What the conversion to an unsigned integer can give fits into its bytes.
LEMMA UnsignedType ==
    ASSUME NEW w \in Nat, NEW v \in Int, NEW n \in Unsigned(w, v)
    PROVE  n \in 0 .. Power(Base, w) - 1
<1> DEFINE size == Power(Base, w)
           t == Trunc(v)
<1>1. size \in Nat \ {0} /\ t \in Int
  BY SizeType, TruncType
<1> HIDE DEF size, t
<1>2. size - 1 + 1 = size
  BY <1>1
<1>3. n \in {t % size} \cup (IF w = 2 THEN {}
                             ELSE {IF t < 0 THEN 0 ELSE IF t > size - 1 THEN size - 1 ELSE t})
  BY <1>2 DEF Unsigned, size, t
<1>4. t % size \in 0 .. size - 1
  BY <1>1, RemainderType
<1>5. (IF t < 0 THEN 0 ELSE IF t > size - 1 THEN size - 1 ELSE t) \in 0 .. size - 1
  BY <1>1
<1>6. n \in 0 .. size - 1
  BY <1>3, <1>4, <1>5
<1> QED BY <1>6 DEF size

\* A number below the size of a register is sent as it is.
LEMMA RemainderIs ==
    ASSUME NEW q \in Int, NEW d \in Nat \ {0}, NEW r \in 0 .. d - 1
    PROVE  (q * d + r) % d = r
<1> DEFINE n == q * d + r
<1>1. n \in Int /\ q * d \in Int
  OBVIOUS
<1>2. n \div d = q
  BY QuotientIs
<1> HIDE DEF n
<1>3. n = (n \div d) * d + (n % d) /\ n % d \in Int
  BY <1>1
<1>4. n = q * d + (n % d)
  BY <1>2, <1>3
<1>5. n = q * d + r
  BY DEF n
<1>6. n % d = r
  BY <1>1, <1>3, <1>4, <1>5
<1> QED BY <1>6 DEF n

\* A number below the divisor is its own remainder.
LEMMA RemainderOfSmall ==
    ASSUME NEW d \in Nat \ {0}, NEW r \in 0 .. d - 1
    PROVE  r % d = r
<1>1. 0 \in Int /\ 0 * d + r = r
  OBVIOUS
<1>2. (0 * d + r) % d = r
  BY <1>1, RemainderIs
<1> QED BY <1>1, <1>2

\* A number that fits is converted to itself.
LEMMA UnsignedOfNumber ==
    ASSUME NEW w \in Nat, NEW n \in 0 .. Power(Base, w) - 1, NEW m \in Unsigned(w, Q * n)
    PROVE  m = n
<1> DEFINE size == Power(Base, w)
           t == Trunc(Q * n)
<1>1. size \in Nat \ {0} /\ n \in Nat /\ n <= size - 1
  BY SizeType
<1>2. t = n
  BY <1>1, TruncType
<1>3. size - 1 + 1 = size
  BY <1>1
<1>4. m \in {t % (size - 1 + 1)} \cup (IF w = 2 THEN {}
                ELSE {IF t < 0 THEN 0 ELSE IF t > size - 1 THEN size - 1 ELSE t})
  BY DEF Unsigned
<1> HIDE DEF size, t
<1>5. n % size = n
  BY <1>1, RemainderOfSmall
<1> QED BY <1>1, <1>2, <1>3, <1>4, <1>5

-----------------------------------------------------------------------------
IsFloat(pt) == pt.data \in {"float32", "float64"}

\* The bytes of the integer that a write sends, and the integer in the order of the point.
SentWidth(pt) == IF IsFloat(pt) THEN 4 ELSE Width(pt.data)
Payload(pt, n) ==
    IF SentWidth(pt) = 2 THEN Digits(2, n)
    ELSE UintToBytes(Orders(pt.encoding)[1], Orders(pt.encoding)[2], Digits(SentWidth(pt), n))

\* One, two or four registers are sent.
LEMMA SentWidthType ==
    ASSUME NEW pt \in Config
    PROVE  SentWidth(pt) \in {2, 4, 8} /\ SentWidth(pt) \in Nat
BY PointType DEF SentWidth

\* The payload is as long as it should be.
LEMMA PayloadType ==
    ASSUME NEW pt \in Config, NEW n \in Int
    PROVE  Payload(pt, n) \in Words(Byte) /\ Len(Payload(pt, n)) = SentWidth(pt)
<1> DEFINE w == SentWidth(pt)
<1>1. w \in Nat /\ w % 2 = 0
  <2> HIDE DEF w
  <2>1. w \in {2, 4, 8}
    BY SentWidthType DEF w
  <2> QED BY <2>1
<1>2. Digits(w, n) \in Seq(Byte) /\ Len(Digits(w, n)) = w
  BY <1>1, DigitsType
<1>3. Digits(w, n) \in Words(Byte)
  BY <1>1, <1>2 DEF Words
<1>4. CASE w = 2
  BY <1>2, <1>3, <1>4 DEF Payload
<1>5. CASE w # 2
  BY <1>2, <1>3, <1>5, ConvertedType DEF Payload
<1> QED BY <1>4, <1>5

\* Every request for a register sends the payload of some number.
LEMMA RequestIs ==
    ASSUME NEW pt \in Config, Table(pt.object) # "coil", NEW v \in Int,
           NEW r \in WriteRequest(pt, v)
    PROVE  \E n \in 0 .. Power(Base, SentWidth(pt)) - 1 :
              /\ r.cells = Laid(Payload(pt, n))
              /\ IF IsFloat(pt)
                 THEN r.value = v /\ n = (v \div 2) % Power(Base, SentWidth(pt))
                 ELSE r.value = Q * n /\ n \in Unsigned(SentWidth(pt), v)
<1> DEFINE w == SentWidth(pt)
           e == Orders(pt.encoding)[1]
           o == Orders(pt.encoding)[2]
<1>1. w \in {2, 4, 8} /\ w \in Nat /\ Power(Base, w) \in Nat \ {0}
  BY SentWidthType, SizeType
<1>2. CASE IsFloat(pt)
  <2> DEFINE n == (v \div 2) % Power(Base, 4)
  <2>1. w = 4
    BY <1>2 DEF SentWidth
  <2>2. v \div 2 \in Int
    OBVIOUS
  <2>3. n \in 0 .. Power(Base, 4) - 1
    BY <1>1, <2>1, <2>2, RemainderType
  <2>4. r.cells = Laid(UintToBytes(e, o, Digits(4, n))) /\ r.value = v
    BY <1>2 DEF WriteRequest, IsFloat, Laid
  <2>5. Payload(pt, n) = UintToBytes(e, o, Digits(4, n))
    BY <2>1 DEF Payload
  <2> HIDE DEF n
  <2>6. r.cells = Laid(Payload(pt, n))
    BY <2>4, <2>5
  <2> QED BY <1>2, <2>1, <2>3, <2>4, <2>6 DEF n
<1>3. CASE ~IsFloat(pt)
  <2>1. w = Width(pt.data)
    BY <1>3 DEF SentWidth
  <2>2. PICK n \in Unsigned(w, v) :
           /\ r.value = Q * n
           /\ r.cells = IF w = 2 THEN <<Digits(2, n)>> ELSE Laid(UintToBytes(e, o, Digits(w, n)))
    <3>1. r \in {[cells |-> IF w = 2 THEN <<Digits(2, n)>>
                           ELSE Laid(UintToBytes(e, o, Digits(w, n))),
                  value |-> Q * n] : n \in Unsigned(w, v)}
      BY <1>3, <2>1 DEF WriteRequest, IsFloat, Laid
    <3> HIDE DEF w, e, o
    <3> QED BY <3>1
  <2>3. n \in 0 .. Power(Base, w) - 1
    BY <1>1, UnsignedType
  <2>4. Laid(Digits(2, n)) = <<Digits(2, n)>>
    <3> DEFINE b == Digits(2, n)
    <3>1. b \in Seq(Byte) /\ Len(b) = 2
      <4>1. n \in Int /\ 2 \in Nat
        <5> HIDE DEF w
        <5> QED BY <1>1, <2>3
      <4> QED BY <4>1, DigitsType
    <3> HIDE DEF b
    <3>2. SubSeq(b, 1, 2) = b
      BY <3>1, WholeType
    <3>3. Laid(b) = [k \in 1 .. 1 |-> SubSeq(b, 1, 2)]
      <4>1. Len(b) \div 2 = 1
        BY <3>1
      <4>2. \A k \in 1 .. 1 : 2 * k - 1 = 1 /\ 2 * k = 2
        OBVIOUS
      <4> QED BY <4>1, <4>2 DEF Laid
    <3>4. Laid(b) = <<b>>
      BY <3>2, <3>3
    <3> QED BY <3>4 DEF b
  <2>5. r.cells = Laid(Payload(pt, n))
    BY <2>2, <2>4 DEF Payload
  <2> QED BY <1>3, <2>2, <2>3, <2>5
<1> QED BY <1>2, <1>3

\* A request fits the table of its point.
LEMMA RequestType ==
    ASSUME NEW pt \in Config, CanWrite(pt), NEW v \in Int, NEW r \in WriteRequest(pt, v)
    PROVE  /\ IsCells(pt, r.cells) /\ r.value \in Int
           /\ Len(r.cells) = IF Table(pt.object) = "coil" THEN 1 ELSE SentWidth(pt) \div 2
<1>1. CASE Table(pt.object) = "coil"
  <2>1. r.cells = <<IF v > 0 THEN 1 ELSE 0>> /\ r.value = Q * (IF v > 0 THEN 1 ELSE 0)
    BY <1>1 DEF WriteRequest
  <2>2. "coil" \in Bits
    BY DEF Bits
  <2> QED BY <1>1, <2>1, <2>2 DEF IsCells, Q
<1>2. CASE Table(pt.object) # "coil"
  <2> DEFINE t == Table(pt.object)
  <2>1. PICK n \in 0 .. Power(Base, SentWidth(pt)) - 1 :
              /\ r.cells = Laid(Payload(pt, n))
              /\ IF IsFloat(pt) THEN r.value = v ELSE r.value = Q * n
    BY <1>2, RequestIs
  <2>2. n \in Int
    BY SentWidthType, SizeType
  <2>3. Payload(pt, n) \in Words(Byte) /\ Len(Payload(pt, n)) = SentWidth(pt)
    BY <2>2, PayloadType
  <2>4. /\ Laid(Payload(pt, n)) \in Seq([1 .. 2 -> Byte])
        /\ Len(Laid(Payload(pt, n))) = SentWidth(pt) \div 2
    BY <2>3, LaidType
  <2>5. t \notin Bits
    BY <1>2 DEF CanWrite, Bits
  <2>6. r.cells \in Seq([1 .. 2 -> Byte]) /\ Len(r.cells) = SentWidth(pt) \div 2
    BY <2>1, <2>4
  <2>7. r.value \in Int
    BY <2>1, <2>2 DEF Q
  <2> QED BY <1>2, <2>5, <2>6, <2>7 DEF IsCells
<1> QED BY <1>1, <1>2

\* The cells of a point are those that are read.
LEMMA CellsAre ==
    ASSUME NEW pt \in Config, ReadAsDocumented(pt)
    PROVE  /\ Cells(pt) = Address(pt) .. Address(pt) + Quantity(pt) - 1
           /\ Table(pt.object) \in Registers => Quantity(pt) = Width(pt.data) \div 2
           /\ CanRead(pt) => Cells(pt) \subseteq 0 .. LastCell
<1>1. Table(pt.object) \in Bits \cup Registers /\ Address(pt) \in Nat /\ LastCell \in Nat
      /\ Quantity(pt) \in {1, 2, 4}
  BY PointType
<1>2. \A t \in Registers : t \notin Bits
  BY DEF Bits, Registers
<1>3. /\ Table(pt.object) \in Registers => Quantity(pt) = Width(pt.data) \div 2
      /\ Quantity(pt) = IF Table(pt.object) \in Bits THEN 1 ELSE Width(pt.data) \div 2
  BY <1>1, <1>2 DEF ReadAsDocumented, Quantity
<1>4. Cells(pt) = Address(pt) .. Address(pt) + Quantity(pt) - 1
  BY <1>3 DEF Cells
<1>5. CanRead(pt) => Cells(pt) \subseteq 0 .. LastCell
  BY <1>1, <1>4 DEF CanRead, Within
<1> QED BY <1>3, <1>4, <1>5

\* A point that can be written can be read, and as many registers are sent as are read.
LEMMA CanWriteIs ==
    ASSUME NEW pt \in Config, ReadAsDocumented(pt), CanWrite(pt)
    PROVE  /\ CanRead(pt)
           /\ \/ Table(pt.object) = "coil"
              \/ /\ Table(pt.object) = "holding_register"
                 /\ SentWidth(pt) = Width(pt.data) /\ Quantity(pt) = Width(pt.data) \div 2
                 /\ pt.data \in IntegerTypes \cup {"float32"}
<1>1. CASE Table(pt.object) = "coil"
  BY <1>1 DEF CanWrite, CanRead, Known, Bits, Quantity
<1>2. CASE Table(pt.object) # "coil"
  <2>1. /\ Table(pt.object) = "holding_register" /\ pt.data \in IntegerTypes \cup {"float32"}
        /\ Within(pt, IF Width(pt.data) = 2 THEN 1
                      ELSE IF pt.data \in {"uint64", "int64"} THEN 4 ELSE 2)
    BY <1>2 DEF CanWrite, ReadAsDocumented, DataTypes, IntegerTypes, Registers
  <2>2. Quantity(pt) = Width(pt.data) \div 2 /\ SentWidth(pt) = Width(pt.data)
    BY <2>1 DEF Quantity, Bits, SentWidth, IsFloat, IntegerTypes, Width
  <2>3. (IF Width(pt.data) = 2 THEN 1 ELSE IF pt.data \in {"uint64", "int64"} THEN 4 ELSE 2)
          = Width(pt.data) \div 2
    BY <2>1 DEF IntegerTypes, Width
  <2>4. Known(pt)
    BY <2>1 DEF Known, IntegerTypes, DataTypes
  <2> QED BY <2>1, <2>2, <2>3, <2>4 DEF CanRead
<1> QED BY <1>1, <1>2

\* The number that was written is what the registers are read as by the documentation.
LEMMA WrittenNumber ==
    ASSUME NEW d, IsDevice(d), NEW pt \in Config, ReadAsDocumented(pt), CanWrite(pt),
           Table(pt.object) = "holding_register",
           Width(pt.data) = 2 => pt.encoding \in {"beb_bew", "beb_lew"},
           NEW n \in 0 .. Power(Base, SentWidth(pt)) - 1
    PROVE  Documented(pt.encoding,
                      Raw(Put(d, pt, Laid(Payload(pt, n))), pt, Width(pt.data) \div 2))
             = Digits(Width(pt.data), n)
<1> DEFINE w == Width(pt.data)
           bytes == Payload(pt, n)
           e == Orders(pt.encoding)[1]
           o == Orders(pt.encoding)[2]
           m == w \div 2
<1>1. /\ CanRead(pt) /\ SentWidth(pt) = w /\ Quantity(pt) = m
      /\ w \in {2, 4, 8} /\ n \in Int
  BY CanWriteIs, PointType, SizeType
<1>2. bytes \in Words(Byte) /\ Len(bytes) = w
  BY <1>1, PayloadType
<1>3. w = 2 * m /\ m \in Nat /\ Within(pt, m) /\ Table(pt.object) \in Registers
  <2>1. Within(pt, m) /\ Table(pt.object) \in Registers
    BY <1>1 DEF CanRead, Registers
  <2> HIDE DEF w
  <2> QED BY <1>1, <2>1
<1>4. Raw(Put(d, pt, Laid(bytes)), pt, m) = bytes
  <2> HIDE DEF bytes, m, w
  <2> QED BY <1>2, <1>3, PutRaw
<1> DEFINE g == Digits(w, n)
<1>5. g \in Words(Byte) /\ Len(g) = w
  <2> HIDE DEF w
  <2>1. w \in Nat /\ w % 2 = 0
    BY <1>1
  <2>2. g \in Seq(Byte) /\ Len(g) = w
    BY <1>1, <2>1, DigitsType
  <2> QED BY <2>1, <2>2 DEF Words
<1>6. Documented(pt.encoding, bytes) = g
  <2>1. CASE w = 2
    <3>1. bytes = g
      BY <1>1, <2>1 DEF Payload
    <3>2. CASE pt.encoding = "beb_bew"
      BY <3>1, <3>2 DEF Documented
    <3>3. CASE pt.encoding = "beb_lew"
      <4>1. Len(g) = 2
        BY <1>5, <2>1
      <4>2. Documented(pt.encoding, g)
              = [i \in 1 .. 2 |-> g[2 + 1 - (IF i % 2 = 1 THEN i + 1 ELSE i - 1)]]
        BY <3>3, <4>1 DEF Documented
      <4>3. \A i \in 1 .. 2 : 2 + 1 - (IF i % 2 = 1 THEN i + 1 ELSE i - 1) = i
        OBVIOUS
      <4>4. g = [i \in 1 .. 2 |-> g[i]]
        <5> HIDE DEF g
        <5> QED BY <1>5, <4>1 DEF Words
      <4> HIDE DEF g
      <4> QED BY <3>1, <4>2, <4>3, <4>4
    <3> QED BY <2>1, <3>2, <3>3
  <2>2. CASE w # 2
    <3>1. bytes = UintToBytes(e, o, g)
      BY <1>1, <2>2 DEF Payload
    <3>2. e \in Endianness /\ o \in WordOrder
      BY OrdersType
    <3> HIDE DEF g
    <3>3. BytesToUint(e, o, UintToBytes(e, o, g)) = g
      BY <1>5, <3>2, RoundTrip
    <3>4. BytesToUint(e, o, bytes) = Documented(pt.encoding, bytes)
      BY <1>2, DecodedAsDocumented
    <3> QED BY <3>1, <3>3, <3>4
  <2> QED BY <2>1, <2>2
<1> QED BY <1>4, <1>6

\* Nothing but its cells decides about the value of a point.
LEMMA SameCells ==
    ASSUME NEW d, NEW e, NEW pt \in Config, ReadAsDocumented(pt),
           \A a \in Cells(pt) : e[Table(pt.object)][a] = d[Table(pt.object)][a]
    PROVE  Decoded(e, pt) = Decoded(d, pt) /\ Present(e, pt) = Present(d, pt)
<1> DEFINE t == Table(pt.object)
           n == Width(pt.data) \div 2
<1>1. /\ Cells(pt) = Address(pt) .. Address(pt) + Quantity(pt) - 1
      /\ t \in Registers => Quantity(pt) = n
  BY CellsAre
<1>2. t \in Bits \cup Registers /\ Address(pt) \in Nat /\ Quantity(pt) \in {1, 2, 4}
  BY PointType
<1>3. CASE t \in Bits
  <2>1. Address(pt) \in Cells(pt)
    <3> HIDE DEF t
    <3> QED BY <1>1, <1>2
  <2> QED BY <1>3, <2>1, PresentIsDecoded DEF Decoded
<1>4. CASE t \in Registers
  <2>1. ASSUME NEW k \in 1 .. 2 * n
        PROVE  e[t][Address(pt) + (k - 1) \div 2] = d[t][Address(pt) + (k - 1) \div 2]
    <3>1. Address(pt) + (k - 1) \div 2 \in Cells(pt)
      <4>1. Quantity(pt) = n /\ n \in {1, 2, 4}
        BY <1>1, <1>2, <1>4
      <4> HIDE DEF n
      <4> QED BY <1>1, <1>2, <4>1
    <3> QED BY <3>1
  <2>2. Raw(e, pt, n) = Raw(d, pt, n)
    BY <2>1 DEF Raw
  <2>3. t \notin Bits
    BY <1>4 DEF Bits, Registers
  <2>4. Decoded(e, pt) = Decoded(d, pt)
    BY <2>2, <2>3 DEF Decoded
  <2> QED BY <2>4, PresentIsDecoded
<1> QED BY <1>2, <1>3, <1>4

\* A write leaves points alone that have no cell in common with its own.
LEMMA Unaffected ==
    ASSUME NEW d, IsDevice(d), NEW p \in Config, NEW q \in Config,
           ReadAsDocumented(p), ReadAsDocumented(q), CanWrite(p), CanRead(q),
           NEW v \in Int, NEW r \in WriteRequest(p, v),
           Table(p.object) = Table(q.object) => Cells(p) \cap Cells(q) = {}
    PROVE  Present(Put(d, p, r.cells), q) = Present(d, q)
<1> DEFINE t == Table(q.object)
           e == Put(d, p, r.cells)
<1>1. Len(r.cells) = Quantity(p)
  BY CanWriteIs, RequestType DEF Quantity, Bits
<1>2. /\ Cells(p) = Address(p) .. Address(p) + Len(r.cells) - 1
      /\ Cells(q) \subseteq 0 .. LastCell
  BY <1>1, CellsAre
<1>3. t \in Bits \cup Registers
  BY PointType
<1>4. ASSUME NEW a \in Cells(q) PROVE e[t][a] = d[t][a]
  <2>1. CASE t # Table(p.object)
    BY <1>3, <2>1, PutElsewhere
  <2>2. CASE t = Table(p.object)
    <3>1. a \notin Cells(p) /\ a \in 0 .. LastCell
      BY <1>2, <2>2
    <3>2. e[Table(p.object)] = [x \in 0 .. LastCell |->
             IF x \in Address(p) .. Address(p) + Len(r.cells) - 1
             THEN r.cells[x - Address(p) + 1] ELSE d[Table(p.object)][x]]
      BY PutCells
    <3> HIDE DEF e, t
    <3> QED BY <1>2, <2>2, <3>1, <3>2
  <2> QED BY <2>1, <2>2
<1> QED BY <1>4, SameCells

-----------------------------------------------------------------------------
\* What is read after a write.

\* What is reported for a value is what the device then holds.
LEMMA OwnValue ==
    ASSUME NEW d, IsDevice(d), NEW pt \in Config, ReadAsDocumented(pt), CanWrite(pt),
           WrittenAsDocumented(pt), ~Bitwise(pt), NEW v \in Wishes(pt), v \in Int,
           NEW r \in WriteRequest(pt, v)
    PROVE  Present(Put(d, pt, r.cells), pt) = r.value
<1> DEFINE e == Put(d, pt, r.cells)
           w == Width(pt.data)
           size == Power(Base, w)
<1>1. /\ CanRead(pt)
      /\ \/ Table(pt.object) = "coil"
         \/ /\ Table(pt.object) = "holding_register" /\ SentWidth(pt) = w
            /\ pt.data \in IntegerTypes \cup {"float32"}
  BY CanWriteIs
<1>2. w \in {2, 4, 8} /\ size \in Nat \ {0} /\ LastCell \in Nat /\ Address(pt) \in Nat
  BY PointType, SizeType
<1>3. CASE Table(pt.object) = "coil"
  <2> DEFINE coil == IF v > 0 THEN 1 ELSE 0
             a == Address(pt)
  <2>1. r.cells = <<coil>> /\ r.value = Q * coil
    BY <1>3 DEF WriteRequest
  <2>2. a \in 0 .. LastCell
    BY <1>1, <1>2, <1>3 DEF CanRead, Within, Quantity, Bits
  <2>3. e["coil"] = [x \in 0 .. LastCell |->
                       IF x \in a .. a + Len(r.cells) - 1 THEN r.cells[x - a + 1]
                       ELSE d["coil"][x]]
    BY <1>3, PutCells
  <2>4. e["coil"][a] = coil
    <3> HIDE DEF e, coil, a
    <3>1. a \in Int /\ Len(r.cells) = 1 /\ r.cells[1] = coil
      BY <2>1, <2>2
    <3>2. a \in a .. a + Len(r.cells) - 1 /\ a - a + 1 = 1
      BY <3>1
    <3> QED BY <2>2, <2>3, <3>1, <3>2
  <2>5. Present(e, pt) = Q * e["coil"][a]
    BY <1>3 DEF Present, Bits
  <2> HIDE DEF e, coil, a
  <2>6. Present(e, pt) = r.value
    BY <2>1, <2>4, <2>5
  <2> QED BY <2>6 DEF e
<1>4. CASE Table(pt.object) # "coil"
  <2>1. Table(pt.object) = "holding_register" /\ Table(pt.object) \notin Bits
    BY <1>1, <1>4 DEF Bits
  <2>2. /\ Width(pt.data) = 2 => pt.encoding \in {"beb_bew", "beb_lew"}
        /\ Fits(pt, v) /\ SentWidth(pt) = w /\ pt.data \in IntegerTypes \cup {"float32"}
    BY <1>1, <1>4, <2>1 DEF WrittenAsDocumented
  <2>3. PICK n \in 0 .. Power(Base, SentWidth(pt)) - 1 :
              /\ r.cells = Laid(Payload(pt, n))
              /\ IF IsFloat(pt)
                 THEN r.value = v /\ n = (v \div 2) % Power(Base, SentWidth(pt))
                 ELSE r.value = Q * n /\ n \in Unsigned(SentWidth(pt), v)
    BY <1>4, RequestIs
  <2>4. Documented(pt.encoding, Raw(e, pt, w \div 2)) = Digits(w, n)
    BY <2>1, <2>2, <2>3, WrittenNumber
  <2>5. Present(e, pt) = Value(pt.data, Digits(w, n))
    <3>1. pt.data # "mod10_u32"
      BY <2>2 DEF IntegerTypes
    <3> HIDE DEF e
    <3> QED BY <2>1, <2>4, <3>1 DEF Present
  <2>6. n \in 0 .. size - 1
    BY <2>2, <2>3
  <2>7. /\ Number(Digits(w, n)) = n
        /\ Signed(Digits(w, n)) = IF 2 * n >= size THEN n - size ELSE n
    BY <1>2, <2>6, NumberOfDigits, SignedOfDigits
  <2>8. CASE pt.data \in {"uint16", "uint32", "uint64"}
    <3>1. Present(e, pt) = Q * n
      BY <2>5, <2>7, <2>8 DEF Value
    <3>2. r.value = Q * n
      BY <2>3, <2>8 DEF IsFloat
    <3> QED BY <3>1, <3>2
  <2>9. CASE pt.data \in {"int16", "int32", "int64"}
    <3>1. r.value = Q * n /\ n \in Unsigned(w, v)
      BY <2>2, <2>3, <2>9 DEF IsFloat
    <3>2. 2 * n < size
      BY <2>2, <2>9, <3>1 DEF Fits
    <3>3. ~(2 * n >= size)
      <4> HIDE DEF size
      <4> QED BY <1>2, <2>6, <3>2
    <3>4. Present(e, pt) = Q * n
      BY <2>5, <2>7, <2>9, <3>3 DEF Value
    <3> QED BY <3>1, <3>4
  <2>10. CASE pt.data = "float32"
    <3>1. r.value = v /\ n = (v \div 2) % size
      BY <2>2, <2>3, <2>10 DEF IsFloat
    <3>2. v % 2 = 0 /\ v \in -size .. size - 1
      BY <2>2, <2>10 DEF Fits
    <3>3. Present(e, pt) = 2 * Signed(Digits(w, n))
      BY <2>5, <2>10 DEF Value
    <3> HIDE DEF size, w
    <3> DEFINE x == v \div 2
    <3>4. x \in Int /\ v = 2 * x /\ 2 * x >= -size /\ 2 * x < size
      BY <1>2, <3>2
    <3> HIDE DEF x
    <3>5. CASE x >= 0
      <4>1. n = x
        <5>1. x \in 0 .. size - 1
          BY <1>2, <3>4, <3>5
        <5> QED BY <1>2, <3>1, <5>1, RemainderOfSmall DEF x
      <4> QED BY <1>2, <2>7, <3>1, <3>3, <3>4, <4>1
    <3>6. CASE x < 0
      <4>1. x + size \in 0 .. size - 1 /\ -1 \in Int /\ x = (-1) * size + (x + size)
        BY <1>2, <3>4, <3>6
      <4>2. n = x + size
        <5>1. ((-1) * size + (x + size)) % size = x + size
          BY <1>2, <4>1, RemainderIs
        <5> QED BY <3>1, <4>1, <5>1 DEF x
      <4>3. 2 * n >= size /\ n - size = x
        BY <1>2, <3>4, <4>2
      <4> QED BY <2>7, <3>1, <3>3, <3>4, <4>3
    <3> QED BY <3>4, <3>5, <3>6
  <2> QED BY <2>2, <2>8, <2>9, <2>10 DEF IntegerTypes
<1> QED BY <1>3, <1>4

-----------------------------------------------------------------------------
Bit1(n, i) == IF HasBit(n, i) THEN Q ELSE 0

\* A bit of a register's value is the bit of the number, whatever its sign.
LEMMA BitOfValue ==
    ASSUME NEW n \in Int, NEW size \in Nat, NEW i \in Nat, size % Power(2, i + 1) = 0
    PROVE  BitOf(Q * n, i) = Bit1(n, i) /\ BitOf(Q * (n - size), i) = Bit1(n, i)
<1> DEFINE m == Power(2, i)
           k == size \div (m * 2)
<1>1. m \in Nat \ {0} /\ Power(2, i + 1) = m * 2
  BY BitWeight, PowerStep
<1> HIDE DEF m
<1>2. m * 2 \in Nat \ {0} /\ size \in Int
  BY <1>1
<1>3. size = k * (m * 2) /\ k \in Int
  <2> DEFINE c == m * 2
  <2>1. c \in Nat \ {0} /\ size % c = 0
    BY <1>1, <1>2
  <2> HIDE DEF c
  <2>2. size = (size \div c) * c + (size % c) /\ size \div c \in Int
    BY <1>2, <2>1
  <2>3. (size \div c) * c \in Int
    BY <2>1, <2>2
  <2> QED BY <2>1, <2>2, <2>3 DEF c
<1> HIDE DEF k
<1>4. n - size = n + (2 * (-k)) * m /\ -k \in Int
  <2>1. k * (m * 2) = (2 * k) * m /\ (2 * (-k)) * m = -((2 * k) * m) /\ (2 * k) * m \in Int
    BY <1>1, <1>3
  <2> QED BY <1>3, <2>1
<1>5. HasBit(n - size, i) <=> HasBit(n, i)
  BY <1>4, LowerBit DEF m
<1>6. \A x \in Int : (Q * x) \div Q = x
  BY DEF Q
<1>7. n - size \in Int
  OBVIOUS
<1> QED BY <1>5, <1>6, <1>7 DEF BitOf, Bit1

\* The number of a register that can be read as bits.
LEMMA ReadNumber ==
    ASSUME NEW d, IsDevice(d), NEW pt \in Config, ReadAsDocumented(pt), CanRead(pt),
           Table(pt.object) \in Registers, pt.data \in IntegerTypes,
           BitReadable(ReadResponse(d, pt))
    PROVE  /\ ReadResponse(d, pt) \div Q \in 0 .. Power(Base, Width(pt.data)) - 1
           /\ ReadResponse(d, pt) = Q * (ReadResponse(d, pt) \div Q)
<1> DEFINE w == Width(pt.data)
           R == ReadResponse(d, pt)
           raw == Raw(d, pt, Quantity(pt))
           b == Documented(pt.encoding, raw)
           size == Power(Base, w)
<1>1. R \in Int /\ R >= 0 /\ R % Q = 0
  BY ReadResponseType DEF BitReadable
<1>2. R = Q * (R \div Q) /\ R \div Q \in Int
  <2> HIDE DEF R
  <2> QED BY <1>1 DEF Q
<1>3. w \in {2, 4, 8} /\ size \in Nat \ {0} /\ Quantity(pt) = w \div 2
      /\ Within(pt, Quantity(pt)) /\ Quantity(pt) \in Nat
  <2>1. w \in {2, 4, 8} /\ Quantity(pt) \in Nat
    BY PointType
  <2>2. size \in Nat \ {0}
    <3> HIDE DEF w
    <3> QED BY <2>1, SizeType
  <2>3. Quantity(pt) = w \div 2 /\ Within(pt, Quantity(pt))
    BY CellsAre DEF CanRead
  <2> QED BY <2>1, <2>2, <2>3
<1>4. raw \in Words(Byte) /\ Len(raw) = w
  <2>1. raw \in Words(Byte) /\ Len(raw) = 2 * (w \div 2)
    BY <1>3, RawType
  <2> HIDE DEF w
  <2> QED BY <1>3, <2>1
<1>5. b \in Seq(Byte) /\ Len(b) = w
  <2> HIDE DEF raw
  <2> QED BY <1>4, ConvertedType, DecodedAsDocumented DEF Words
<1>6. Number(b) \in 0 .. size - 1
  <2> HIDE DEF b, w
  <2> QED BY <1>5, NumberRange
<1>7. R = Value(pt.data, b)
  <2>1. pt.data # "mod10_u32" /\ Table(pt.object) \notin Bits
    BY DEF IntegerTypes, Bits, Registers
  <2> HIDE DEF R, b
  <2> QED BY <1>3, <2>1, ReadIsDecoded DEF Decoded, R, b
<1>8. CASE pt.data \in {"uint16", "uint32", "uint64"}
  <2>1. R = Q * Number(b)
    BY <1>7, <1>8 DEF Value
  <2> HIDE DEF R, b, size
  <2>2. R \div Q = Number(b)
    BY <1>3, <1>6, <2>1 DEF Q
  <2> QED BY <1>2, <1>6, <2>2 DEF R, size
<1>9. CASE pt.data \in {"int16", "int32", "int64"}
  <2>1. R = Q * Signed(b)
    BY <1>7, <1>9 DEF Value
  <2>2. Signed(b) = Number(b) \/ Signed(b) = Number(b) - size
    BY <1>5 DEF Signed
  <2> HIDE DEF R, b, size
  <2>3. Signed(b) = Number(b)
    BY <1>1, <1>3, <1>6, <2>1, <2>2 DEF Q
  <2>4. R \div Q = Number(b)
    BY <1>3, <1>6, <2>1, <2>3 DEF Q
  <2> QED BY <1>2, <1>6, <2>4 DEF R, size
<1> QED BY <1>8, <1>9 DEF IntegerTypes

-----------------------------------------------------------------------------
\* Two bits of one register.

\* Two points that are made of one register in the same way.
OneRegister(x, y) ==
    /\ Table(x.object) = Table(y.object)
    /\ x.address = y.address /\ x.data = y.data /\ x.encoding = y.encoding

\* They have the same cells, the same bytes and the same value.
LEMMA OneRegisterIs ==
    ASSUME NEW x, NEW y, OneRegister(x, y)
    PROVE  /\ Cells(x) = Cells(y)
           /\ \A d, n : Raw(d, x, n) = Raw(d, y, n)
           /\ \A d : Decoded(d, x) = Decoded(d, y)
<1>1. Address(x) = Address(y) /\ Table(x.object) = Table(y.object)
      /\ Width(x.data) = Width(y.data)
  BY DEF OneRegister, Address
<1>2. Cells(x) = Cells(y)
  BY <1>1 DEF Cells
<1>3. \A d, n : Raw(d, x, n) = Raw(d, y, n)
  BY <1>1 DEF Raw
<1>4. ASSUME NEW d PROVE Decoded(d, x) = Decoded(d, y)
  BY <1>1, <1>3 DEF Decoded, OneRegister
<1> QED BY <1>2, <1>3, <1>4

-----------------------------------------------------------------------------
\* The bits of a register that a number was written to.
LEMMA BitsAfter ==
    ASSUME NEW d, IsDevice(d), NEW p \in Config, NEW q \in Config,
           ReadAsDocumented(p), CanWrite(p), Table(p.object) = "holding_register",
           p.data \in IntegerTypes,
           Width(p.data) = 2 => p.encoding \in {"beb_bew", "beb_lew"},
           OneRegister(p, q), Bitwise(q), IsBitOfRegister(q),
           NEW n \in 0 .. Power(Base, Width(p.data)) - 1, NEW r \in WriteRequest(p, Q * n)
    PROVE  Present(Put(d, p, r.cells), q) = Bit1(n, q.bit)
<1> DEFINE w == Width(p.data)
           size == Power(Base, w)
           e == Put(d, p, r.cells)
<1>1. w \in {2, 4, 8} /\ w \in Nat /\ w # 0
  BY PointType
<1>2. size \in Nat \ {0}
  <2> HIDE DEF w
  <2> QED BY <1>1, SizeType
<1>3. n \in 0 .. size - 1 /\ n \in Int
  <2>1. n \in 0 .. size - 1
    OBVIOUS
  <2> HIDE DEF size
  <2> QED BY <1>2, <2>1
<1>4. SentWidth(p) = w /\ ~IsFloat(p) /\ p.data # "mod10_u32" /\ Table(p.object) # "coil"
      /\ Table(p.object) \notin Bits /\ q.data = p.data
  BY DEF SentWidth, IsFloat, IntegerTypes, Bits, OneRegister
<1>5. r.cells = Laid(Payload(p, n))
  <2>1. PICK k \in 0 .. Power(Base, SentWidth(p)) - 1 :
              /\ r.cells = Laid(Payload(p, k))
              /\ IF IsFloat(p) THEN r.value = Q * n /\ k = ((Q * n) \div 2) % Power(Base, SentWidth(p))
                 ELSE r.value = Q * k /\ k \in Unsigned(SentWidth(p), Q * n)
    <3>1. Q * n \in Int
      BY <1>3 DEF Q
    <3> QED BY <1>4, <3>1, RequestIs
  <2>2. k = n
    <3>1. k \in Unsigned(w, Q * n)
      BY <1>4, <2>1
    <3> HIDE DEF w
    <3> QED BY <1>1, <1>3, <3>1, UnsignedOfNumber DEF size
  <2> QED BY <2>1, <2>2
<1>6. Documented(p.encoding, Raw(e, p, w \div 2)) = Digits(w, n)
  BY <1>3, <1>4, <1>5, WrittenNumber
<1>7. Decoded(e, q) = Value(p.data, Digits(w, n))
  <2> HIDE DEF e
  <2>1. Decoded(e, p) = Value(p.data, Digits(w, n))
    BY <1>4, <1>6 DEF Decoded
  <2> QED BY <2>1, OneRegisterIs
<1>8. /\ Number(Digits(w, n)) = n
      /\ Signed(Digits(w, n)) = IF 2 * n >= size THEN n - size ELSE n
  BY <1>1, <1>3, NumberOfDigits, SignedOfDigits
<1>9. Decoded(e, q) = Q * n \/ Decoded(e, q) = Q * (n - size)
  BY <1>4, <1>7, <1>8 DEF Value, IntegerTypes
<1>10. q.bit \in Nat
  BY DEF Bitwise, Config
<1>11. size % Power(2, q.bit + 1) = 0
  BY <1>4 DEF IsBitOfRegister
<1>12. BitOf(Decoded(e, q), q.bit) = Bit1(n, q.bit)
  <2> HIDE DEF size, e
  <2>1. BitOf(Q * n, q.bit) = Bit1(n, q.bit) /\ BitOf(Q * (n - size), q.bit) = Bit1(n, q.bit)
    BY <1>2, <1>3, <1>10, <1>11, BitOfValue
  <2> QED BY <1>9, <2>1
<1> QED BY <1>12, PresentIsDecoded

\* A bit of a register before it is written.
LEMMA BitsBefore ==
    ASSUME NEW d, IsDevice(d), NEW p \in Config, NEW q \in Config,
           ReadAsDocumented(p), CanRead(p), OneRegister(p, q), Bitwise(q)
    PROVE  Present(d, q) = Bit1(ReadResponse(d, p) \div Q, q.bit)
<1>1. Decoded(d, q) = ReadResponse(d, p)
  BY OneRegisterIs, ReadIsDecoded
<1> QED BY <1>1, PresentIsDecoded DEF BitOf, Bit1

\* The number that goes out is the number read with one bit changed.
LEMMA OutgoingBit ==
    ASSUME NEW p \in Config, Bitwise(p), IsBitOfRegister(p), NEW wv \in {0, Q}, NEW read,
           read \div Q \in 0 .. Power(Base, Width(p.data)) - 1
    PROVE  \E n \in 0 .. Power(Base, Width(p.data)) - 1 :
              /\ Outgoing(p, wv, read) = Q * n
              /\ Bit1(n, p.bit) = wv
              /\ \A j \in Nat \ {p.bit} : Bit1(n, j) = Bit1(read \div Q, j)
<1> DEFINE w == Width(p.data)
           size == Power(Base, w)
           m == read \div Q
           n == IF wv = Q THEN SetBit(m, p.bit) ELSE ClearBit(m, p.bit)
<1>1. w \in Nat /\ p.bit \in Nat
  BY PointType DEF Bitwise, Config
<1>2. size \in Nat \ {0}
  <2> HIDE DEF w
  <2> QED BY <1>1, SizeType
<1>3. m \in 0 .. size - 1
  OBVIOUS
<1>4. size % Power(2, p.bit + 1) = 0
  BY DEF IsBitOfRegister
<1> HIDE DEF size, m
<1>5. m \in Int
  BY <1>2, <1>3
<1>6. PICK k \in Nat : size = k * (2 * Power(2, p.bit))
  <2> DEFINE c == Power(2, p.bit)
             b == 2 * c
  <2>1. c \in Nat \ {0} /\ Power(2, p.bit + 1) = c * 2
    BY <1>1, BitWeight, PowerStep
  <2> HIDE DEF c
  <2>2. b \in Nat \ {0} /\ size % b = 0
    BY <1>4, <2>1
  <2> HIDE DEF b
  <2>3. size = (size \div b) * b + (size % b) /\ size \div b \in Nat
    BY <1>2, <2>2
  <2>4. (size \div b) * b \in Int
    BY <2>2, <2>3
  <2>5. size = (size \div b) * b
    BY <2>2, <2>3, <2>4
  <2> QED BY <2>3, <2>5 DEF b, c
<1>7. SetBit(m, p.bit) \in 0 .. size - 1 /\ ClearBit(m, p.bit) \in 0 .. size - 1
  BY <1>1, <1>2, <1>3, <1>6, BitInRange
<1>8. n \in 0 .. size - 1
  BY <1>7
<1>9. Outgoing(p, wv, read) = Q * n
  BY DEF Outgoing, m, Q
<1>10. Bit1(n, p.bit) = wv
  BY <1>1, <1>5, ChangedBit DEF Bit1, Q
<1>11. ASSUME NEW j \in Nat \ {p.bit} PROVE Bit1(n, j) = Bit1(m, j)
  BY <1>1, <1>5, OtherBit DEF Bit1
<1> QED BY <1>8, <1>9, <1>10, <1>11 DEF size, m

\* A write of one bit: the point's own bit is the one asked for, and the others are what
\* they were when the register was read.
LEMMA BitWritten ==
    ASSUME NEW d, IsDevice(d), NEW p \in Config, NEW q \in Config,
           ReadAsDocumented(p), CanWrite(p), WrittenAsDocumented(p), Bitwise(p),
           OneRegister(p, q), Bitwise(q), IsBitOfRegister(q),
           NEW wv \in {0, Q}, NEW read,
           read \div Q \in 0 .. Power(Base, Width(p.data)) - 1,
           NEW r \in WriteRequest(p, Outgoing(p, wv, read))
    PROVE  Present(Put(d, p, r.cells), q) =
             IF q.bit = p.bit THEN wv ELSE Bit1(read \div Q, q.bit)
<1>1. /\ Table(p.object) = "holding_register" /\ p.data \in IntegerTypes /\ IsBitOfRegister(p)
      /\ Width(p.data) = 2 => p.encoding \in {"beb_bew", "beb_lew"}
  BY DEF WrittenAsDocumented
<1>2. PICK n \in 0 .. Power(Base, Width(p.data)) - 1 :
              /\ Outgoing(p, wv, read) = Q * n
              /\ Bit1(n, p.bit) = wv
              /\ \A j \in Nat \ {p.bit} : Bit1(n, j) = Bit1(read \div Q, j)
  BY <1>1, OutgoingBit
<1>3. r \in WriteRequest(p, Q * n)
  BY <1>2
<1>4. Present(Put(d, p, r.cells), q) = Bit1(n, q.bit)
  BY <1>1, <1>3, BitsAfter
<1>5. q.bit \in Nat
  BY DEF Bitwise, Config
<1> QED BY <1>2, <1>4, <1>5

-----------------------------------------------------------------------------
\* The steps of a poll, and the types.

\* Every write mode leaves two flags behind.
LEMMA DisposeFlags ==
    ASSUME NEW mode \in Modes, NEW pt, pt.read \in BOOLEAN, pt.write \in BOOLEAN,
           NEW c \in Completion
    PROVE  Dispose(mode, pt, c).read \in BOOLEAN /\ Dispose(mode, pt, c).write \in BOOLEAN
<1> USE DEF Modes, ReadModes, WriteModes, ToQueue, ToStandby, ToRepoll, Nowhere
<1>0. /\ c.writeSuccess \in BOOLEAN /\ c.readSuccess \in BOOLEAN
      /\ c.pointUpdate \in BOOLEAN /\ c.notRequired \in BOOLEAN
  BY DEF Completion
<1>1. CASE mode = "read_once"
  BY <1>0, <1>1 DEF Dispose, ReadOnce
<1>2. CASE mode = "read_only"
  BY <1>0, <1>2 DEF Dispose, ReadOnly
<1>3. CASE mode = "write_once"
  BY <1>0, <1>3 DEF Dispose, WriteOnce
<1>4. CASE mode = "write_once_read_once"
  BY <1>0, <1>4 DEF Dispose, WriteOnceReadOnce
<1>5. CASE mode = "write_always"
  BY <1>0, <1>5 DEF Dispose, WriteAlways
<1>6. CASE mode = "write_once_then_read"
  BY <1>0, <1>6 DEF Dispose, WriteOnceThenRead
<1>7. CASE mode = "write_and_maintain"
  BY <1>0, <1>7 DEF Dispose, WriteAndMaintain
<1> QED BY <1>1, <1>2, <1>3, <1>4, <1>5, <1>6, <1>7

-----------------------------------------------------------------------------
PointRow == [read : BOOLEAN, write : BOOLEAN, wv : Int \cup {NoValue}, ov : Int \cup {NoValue}]

\* A poll of a bitwise point that has read the register and will write it.
OutOK(o) ==
    /\ o.point \in Point /\ Bitwise(config[o.point]) /\ IsWriteable(config[o.point].mode)
    /\ CanRead(config[o.point])
    /\ o.read \in Int /\ BitReadable(o.read)
    /\ row[o.point].wv # NoValue

\* TypeOK, and what the code relies on about the device and the configuration.
Typed ==
    /\ config \in Configs
    /\ IsDevice(memory)
    /\ row \in [Point -> PointRow]
    /\ \A p \in Point : row[p].wv \in Wishes(config[p]) \cup {NoValue}
    /\ out # NoPoll => OutOK(out) /\ alive
    /\ stale \subseteq Point /\ alive \in BOOLEAN

\* What the configuration of a point is.
LEMMA ConfigType ==
    ASSUME config \in Configs, NEW p \in Point
    PROVE  /\ config[p] \in Config /\ config[p].mode \in Modes
           /\ Wishes(config[p]) \subseteq Int
           /\ Bitwise(config[p]) => config[p].bit \in Nat
BY RequestsAssumption DEF Config, Bitwise

\* What a completed poll does to the rows.
RowChange(p, v) ==
    /\ row' \in [Point -> PointRow]
    /\ row'[p].wv = row[p].wv /\ row'[p].ov = v
    /\ \A q \in Point \ {p} : row'[q] = row[q]

\* Complete changes the flags and the value of one row.
LEMMA CompleteRow ==
    ASSUME Typed, NEW p \in Point, NEW pnt, pnt.read \in BOOLEAN, pnt.write \in BOOLEAN,
           pnt.ov \in Int \cup {NoValue},
           NEW writeSuccess \in BOOLEAN, NEW readSuccess \in BOOLEAN, NEW retry \in Retries,
           Complete(p, pnt, writeSuccess, readSuccess, retry)
    PROVE  RowChange(p, pnt.ov)
<1> DEFINE c == [writeSuccess |-> writeSuccess, readSuccess |-> readSuccess,
                 pointUpdate |-> FALSE, resetPriority |-> FALSE,
                 retryType |-> retry, notRequired |-> FALSE]
           d == Dispose(config[p].mode, pnt, c)
<1>1. config[p].mode \in Modes
  BY ConfigType DEF Typed
<1>2. c \in Completion
  BY DEF Completion
<1> HIDE DEF c
<1>3. d.read \in BOOLEAN /\ d.write \in BOOLEAN
  BY <1>1, <1>2, DisposeFlags
<1>4. row' = [row EXCEPT ![p] = [@ EXCEPT !.read = d.read, !.write = d.write, !.ov = pnt.ov]]
  BY DEF Complete, c
<1> HIDE DEF d
<1>5. row \in [Point -> PointRow]
  BY DEF Typed
<1>6. /\ row' = [row EXCEPT ![p] = row'[p]]
      /\ row'[p] = [row[p] EXCEPT !.read = d.read, !.write = d.write, !.ov = pnt.ov]
  BY <1>4, <1>5
<1>7. row'[p] \in PointRow /\ row'[p].wv = row[p].wv /\ row'[p].ov = pnt.ov
  BY <1>3, <1>5, <1>6 DEF PointRow
<1>8. row' \in [Point -> PointRow] /\ \A q \in Point \ {p} : row'[q] = row[q]
  BY <1>5, <1>6, <1>7
<1> QED BY <1>7, <1>8 DEF RowChange

\* Report changes the row of its point, which then has the value reported.
LEMMA ReportRow ==
    ASSUME Typed, NEW p \in Point, NEW value \in Int, NEW sent,
           NEW writeSuccess \in BOOLEAN, NEW readSuccess \in BOOLEAN,
           Report(p, value, sent, writeSuccess, readSuccess)
    PROVE  RowChange(p, value)
<1> DEFINE isChange == row[p].ov # value
           pnt == [row[p] EXCEPT !.ov = value, !.wv = IF isChange THEN @ ELSE sent]
           toPresent == isChange /\ writeSuccess /\ pnt.wv # NoValue
                          /\ config[p].mode \in {"write_once", "write_always"}
<1>1. row[p] \in PointRow
  BY DEF Typed
<1>2. pnt.read \in BOOLEAN /\ pnt.write \in BOOLEAN /\ pnt.ov = value
  BY <1>1 DEF PointRow
<1>3. readSuccess \/ toPresent \in BOOLEAN
  OBVIOUS
<1>4. Complete(p, pnt, writeSuccess, readSuccess \/ toPresent, "normal")
  BY DEF Report
<1>5. "normal" \in Retries
  BY DEF Retries
<1> HIDE DEF pnt, toPresent
<1>6. RowChange(p, pnt.ov)
  BY <1>2, <1>3, <1>4, <1>5, CompleteRow
<1> QED BY <1>2, <1>6

\* A poll that failed leaves the value as it was.
LEMMA FailRow ==
    ASSUME Typed, NEW p \in Point, NEW retry \in {"immediate", "delayed"},
           Complete(p, row[p], FALSE, FALSE, retry)
    PROVE  RowChange(p, row[p].ov)
<1>1. row[p] \in PointRow
  BY DEF Typed
<1>2. row[p].read \in BOOLEAN /\ row[p].write \in BOOLEAN /\ row[p].ov \in Int \cup {NoValue}
  BY <1>1 DEF PointRow
<1>3. retry \in Retries
  BY DEF Retries
<1> DEFINE pnt == row[p]
           no  == FALSE
<1>4. no \in BOOLEAN /\ Complete(p, pnt, no, no, retry)
  OBVIOUS
<1>5. pnt.read \in BOOLEAN /\ pnt.write \in BOOLEAN /\ pnt.ov \in Int \cup {NoValue}
  BY <1>2
<1> HIDE DEF pnt, no
<1>6. RowChange(p, pnt.ov)
  BY <1>3, <1>4, <1>5, CompleteRow
<1> QED BY <1>6 DEF pnt

\* A poll with something to write: a bitwise point has read its register before.
LEMMA WriteDueIs ==
    ASSUME Typed, NEW p \in Point, WriteDue(p)
    PROVE  /\ row[p].wv \in Wishes(config[p]) /\ row[p].wv \in Int
           /\ IsWriteable(config[p].mode)
           /\ Bitwise(config[p]) => out # NoPoll /\ out.point = p /\ Read = out.read
           /\ ~Bitwise(config[p]) => Outgoing(config[p], row[p].wv, Read) = row[p].wv
           /\ Outgoing(config[p], row[p].wv, Read) \in Int
<1>1. /\ Wishes(config[p]) \subseteq Int
      /\ Bitwise(config[p]) => config[p].bit \in Nat
  BY ConfigType DEF Typed
<1>2. row[p].wv \in Wishes(config[p]) \cup {NoValue}
  BY DEF Typed
<1>3. /\ row[p].wv # NoValue /\ IsWriteable(config[p].mode)
      /\ Bitwise(config[p]) => out # NoPoll /\ out.point = p /\ out.read \in Int
  BY DEF WriteDue, Writes, Typed, OutOK
<1>4. Bitwise(config[p]) => Read = out.read
  BY <1>3 DEF Read
<1>5. ASSUME Bitwise(config[p]) PROVE Outgoing(config[p], row[p].wv, Read) \in Int
  <2> DEFINE m == out.read \div Q
             i == config[p].bit
             b == Power(2, i)
  <2>1. m \in Int /\ b \in Int
    BY <1>1, <1>3, <1>5, BitWeight DEF Q
  <2>2. SetBit(m, i) \in Int /\ ClearBit(m, i) \in Int
    <3> HIDE DEF m, i
    <3> QED BY <2>1 DEF SetBit, ClearBit
  <2>3. Q * SetBit(m, i) \in Int /\ Q * ClearBit(m, i) \in Int
    <3> HIDE DEF m, i
    <3> QED BY <2>2 DEF Q
  <2> QED BY <1>4, <1>5, <2>3 DEF Outgoing
<1>6. ~Bitwise(config[p]) => Outgoing(config[p], row[p].wv, Read) = row[p].wv
  BY DEF Outgoing
<1> QED BY <1>1, <1>2, <1>3, <1>4, <1>5, <1>6

\* The device after a write.
LEMMA WrittenDevice ==
    ASSUME Typed, NEW p \in Point, WriteDue(p), CanWrite(config[p]), NEW r \in Requests(p)
    PROVE  IsDevice(Put(memory, config[p], r.cells)) /\ r.value \in Int
<1>1. config[p] \in Config /\ IsDevice(memory)
  BY ConfigType DEF Typed
<1>2. Outgoing(config[p], row[p].wv, Read) \in Int
  BY WriteDueIs
<1>3. IsCells(config[p], r.cells) /\ r.value \in Int
  BY <1>1, <1>2, RequestType DEF Requests
<1> QED BY <1>1, <1>3, PutType

\* The value that a write reports.
Reported(p, r) ==
    IF ~Bitwise(config[p]) THEN r.value ELSE IF row[p].wv = Q THEN Q ELSE 0

\* What a poll that wrote leaves behind.
LEMMA WriteOkIs ==
    ASSUME Typed, NEW p \in Point, WriteOk(p)
    PROVE  \E r \in Requests(p) :
              /\ memory' = Put(memory, config[p], r.cells) /\ IsDevice(memory')
              /\ RowChange(p, Reported(p, r))
<1>1. PICK r \in Requests(p) :
         /\ memory' = Put(memory, config[p], r.cells)
         /\ Report(p, Reported(p, r),
                   Outgoing(config[p], row[p].wv, Read), TRUE, out # NoPoll)
  BY DEF WriteOk, Reported
<1>2. IsDevice(Put(memory, config[p], r.cells)) /\ r.value \in Int
  BY WrittenDevice DEF WriteOk
<1>3. Reported(p, r) \in Int
  BY <1>2 DEF Reported, Q
<1> DEFINE v == Reported(p, r)
           sent == Outgoing(config[p], row[p].wv, Read)
           yes == TRUE
           haveRead == out # NoPoll
<1>4. Report(p, v, sent, yes, haveRead) /\ v \in Int /\ yes \in BOOLEAN /\ haveRead \in BOOLEAN
  BY <1>1, <1>3
<1> HIDE DEF v, sent, yes, haveRead
<1>5. RowChange(p, v)
  BY <1>4, ReportRow
<1> QED BY <1>1, <1>2, <1>5 DEF v

\* What a poll that read leaves behind.
LEMMA ReadOkIs ==
    ASSUME Typed, NEW p \in Point, ReadOk(p)
    PROVE  /\ CanRead(config[p])
           /\ RowChange(p, Bit(p, ReadResponse(memory, config[p])))
<1>1. PICK v \in Responses(p) : Report(p, Bit(p, v), row[p].wv, FALSE, TRUE)
  BY DEF ReadOk
<1>2. CanRead(config[p]) /\ v = ReadResponse(memory, config[p])
  BY DEF Responses
<1>3. v \in Int
  BY <1>2, ReadResponseType, ConfigType DEF Typed
<1> DEFINE b == Bit(p, v)
           sent == row[p].wv
           no == FALSE
           yes == TRUE
<1>4. b \in Int /\ no \in BOOLEAN /\ yes \in BOOLEAN /\ Report(p, b, sent, no, yes)
  <2>1. b \in Int
    BY <1>3 DEF Bit, BitOf, Q
  <2>2. Report(p, b, sent, no, yes)
    BY <1>1
  <2> QED BY <2>1, <2>2
<1> HIDE DEF b, sent, no, yes
<1>5. RowChange(p, b)
  BY <1>4, ReportRow
<1> QED BY <1>2, <1>5 DEF b

\* A poll without a value to write reports 0.
LEMMA WriteNothingIs ==
    ASSUME Typed, NEW p \in Point, WriteNothing(p)
    PROVE  RowChange(p, 0)
<1> DEFINE v == 0
           yes == TRUE
           haveRead == Reads(p)
<1>1. Report(p, v, NoValue, yes, haveRead)
  BY DEF WriteNothing
<1>2. v \in Int /\ yes \in BOOLEAN /\ haveRead \in BOOLEAN
  BY DEF Reads
<1> HIDE DEF v, yes, haveRead
<1>3. RowChange(p, v)
  BY <1>1, <1>2, ReportRow
<1> QED BY <1>3 DEF v

\* A poll that fails without touching the device.
FailsOnly(p) == ReadFails(p) \/ BitFails(p) \/ BitUnread(p) \/ WriteFails(p)

\* It changes the flags of one row, and ends the sleep.
LEMMA FailsOnlyIs ==
    ASSUME Typed, NEW p \in Point, FailsOnly(p)
    PROVE  /\ RowChange(p, row[p].ov) /\ UNCHANGED <<config, memory, stale, alive>>
           /\ out' \in {out, NoPoll}
<1>1. \E retry \in {"immediate", "delayed"} : Complete(p, row[p], FALSE, FALSE, retry)
  BY DEF FailsOnly, ReadFails, BitFails, BitUnread, WriteFails
<1>2. RowChange(p, row[p].ov)
  BY <1>1, FailRow
<1>3. UNCHANGED <<config, memory, stale, alive>> /\ out' \in {out, NoPoll}
  BY DEF FailsOnly, ReadFails, BitFails, BitUnread, WriteFails
<1> QED BY <1>2, <1>3

\* A write without the answer it needs: the device has changed, the value has not.
LEMMA UnansweredIs ==
    ASSUME Typed, NEW p \in Point, WriteUnanswered(p)
    PROVE  /\ RowChange(p, row[p].ov)
           /\ \E r \in Requests(p) : memory' = Put(memory, config[p], r.cells)
           /\ IsDevice(memory')
<1>1. Complete(p, row[p], FALSE, FALSE, "immediate")
  BY DEF WriteUnanswered
<1>2. RowChange(p, row[p].ov)
  BY <1>1, FailRow
<1>3. PICK r \in Requests(p) : memory' = Put(memory, config[p], r.cells)
  BY DEF WriteUnanswered
<1>4. IsDevice(Put(memory, config[p], r.cells))
  BY WrittenDevice DEF WriteUnanswered
<1> QED BY <1>2, <1>3, <1>4

\* What the poll keeps over its sleep.
LEMMA SleepIs ==
    ASSUME Typed, NEW p \in Point, ReadThenSleep(p)
    PROVE  /\ out'.point = p /\ out'.read = ReadResponse(memory, config[p])
           /\ CanRead(config[p]) /\ OutOK(out)'
<1>1. PICK v \in Responses(p) : out' = [point |-> p, read |-> v]
  BY DEF ReadThenSleep
<1>2. /\ CanRead(config[p]) /\ v = ReadResponse(memory, config[p])
      /\ Bitwise(config[p]) => BitReadable(v)
  BY DEF Responses
<1>3. v \in Int
  BY <1>2, ReadResponseType, ConfigType DEF Typed
<1>4. /\ Bitwise(config[p]) /\ IsWriteable(config[p].mode) /\ row[p].wv # NoValue
      /\ config' = config /\ row' = row
  BY DEF ReadThenSleep, BothDue, Reads, Writes
<1>5. out'.point = p /\ out'.read = v
  BY <1>1
<1> QED BY <1>2, <1>3, <1>4, <1>5 DEF OutOK

\* A user's write changes the value to be written, not the present one.
LEMMA UserWritesIs ==
    ASSUME Typed, NEW p \in Point, NEW v \in Wishes(config[p]), UserWrites(p, v)
    PROVE  /\ row' \in [Point -> PointRow]
           /\ row'[p].wv = v
           /\ \A q \in Point : row'[q].ov = row[q].ov
           /\ \A q \in Point \ {p} : row'[q] = row[q]
<1>1. v \in Int
  BY ConfigType DEF Typed
<1>2. row \in [Point -> PointRow]
  BY DEF Typed
<1> DEFINE b == config[p].mode \notin {"write_once", "write_always"}
           yes == TRUE
<1>3. /\ b \in BOOLEAN /\ yes \in BOOLEAN
      /\ row' = [row EXCEPT ![p] = [@ EXCEPT !.wv = v, !.write = yes, !.read = b]]
  BY DEF UserWrites
<1> HIDE DEF b, yes
<1>4. /\ row' = [row EXCEPT ![p] = row'[p]]
      /\ row'[p] = [row[p] EXCEPT !.wv = v, !.write = yes, !.read = b]
  BY <1>2, <1>3
<1>5. row'[p] \in PointRow /\ row'[p].wv = v /\ row'[p].ov = row[p].ov
  <2> DEFINE x == row[p]
             y == [x EXCEPT !.wv = v, !.write = yes, !.read = b]
  <2>1. x \in PointRow
    BY <1>2
  <2>2. row'[p] = y
    BY <1>4
  <2> HIDE DEF x
  <2>3. y \in PointRow /\ y.wv = v /\ y.ov = x.ov
    BY <1>1, <1>3, <2>1 DEF PointRow
  <2> QED BY <2>2, <2>3 DEF x
<1> QED BY <1>2, <1>4, <1>5

\* A step in which the process dies, or is started anew, changes nothing else.
Dies == \/ \E p \in Point : \/ ReadThenDie(p)
                            \/ \E v \in Wishes(config[p]) : UserWriteDies(p, v)
        \/ Restart

\* The process dies while no poll sleeps, and a process that is started lives.
LEMMA DiesIs ==
    ASSUME Dies
    PROVE  /\ UNCHANGED <<config, memory, row, out, stale>>
           /\ alive' \in BOOLEAN /\ (out = NoPoll \/ alive')
BY DEF Dies, ReadThenDie, BothDue, Polled, UserWriteDies, UserCall, Restart

\* The field changes one cell.
LEMMA FieldIs ==
    ASSUME Typed, NEW t \in Bits \cup Registers, NEW a \in 0 .. LastCell,
           NEW c \in IF t \in Bits THEN {0, 1} ELSE FieldWords, FieldChanges(t, a, c)
    PROVE  /\ IsDevice(memory')
           /\ \A u \in Bits \cup Registers, x \in 0 .. LastCell :
                 u # t \/ x # a => memory'[u][x] = memory[u][x]
<1>1. IsDevice(memory) /\ memory' = [memory EXCEPT ![t][a] = c]
  BY DEF Typed, FieldChanges
<1>2. HasTables(memory) /\ \A u \in Registers : u \notin Bits
  BY <1>1 DEF IsDevice, Bits, Registers
<1>3. HasTables(memory')
  BY <1>1, <1>2 DEF HasTables
<1>4. /\ \A u \in Bits \cup Registers : u # t => memory'[u] = memory[u]
      /\ memory'[t] = [memory[t] EXCEPT ![a] = c]
  BY <1>1, <1>2 DEF HasTables
<1>5. \A u \in Bits : memory'[u] \in [0 .. LastCell -> {0, 1}]
  BY <1>1, <1>4 DEF IsDevice
<1>6. \A u \in Registers : memory'[u] \in [0 .. LastCell -> [1 .. 2 -> Byte]]
  <2>1. t \in Registers => c \in [1 .. 2 -> Byte]
    BY <1>2, RequestsAssumption
  <2> QED BY <1>1, <1>4, <2>1 DEF IsDevice
<1>7. IsDevice(memory')
  BY <1>3, <1>5, <1>6 DEF IsDevice
<1>8. ASSUME NEW u \in Bits \cup Registers, NEW x \in 0 .. LastCell, u # t \/ x # a
      PROVE  memory'[u][x] = memory[u][x]
  <2>1. CASE u # t
    BY <1>4, <2>1
  <2>2. CASE u = t /\ x # a
    <3>1. x \in DOMAIN memory[t]
      <4>1. DOMAIN memory[t] = 0 .. LastCell
        BY <1>1 DEF IsDevice
      <4> QED BY <4>1
    <3> QED BY <1>4, <2>2, <3>1
  <2> QED BY <1>8, <2>1, <2>2
<1> QED BY <1>7, <1>8

\* A completed poll leaves everything typed.
LEMMA TypedAfterPoll ==
    ASSUME Typed, NEW p \in Point, NEW v, RowChange(p, v), config' = config,
           IsDevice(memory'), out' \in {out, NoPoll}, stale' \subseteq Point, alive' = alive
    PROVE  Typed'
<1>1. /\ row' \in [Point -> PointRow]
      /\ \A q \in Point : row'[q].wv = row[q].wv
  BY DEF RowChange
<1>2. \A q \in Point : row'[q].wv \in Wishes(config'[q]) \cup {NoValue}
  BY <1>1 DEF Typed
<1>3. ASSUME out' # NoPoll PROVE OutOK(out)' /\ alive'
  <2>1. out' = out /\ OutOK(out) /\ alive
    BY <1>3 DEF Typed
  <2> QED BY <1>1, <2>1 DEF OutOK
<1> QED BY <1>1, <1>2, <1>3 DEF Typed

\* The rows as addPoint leaves them.
LEMMA InitTyped == Init => Typed
<1> SUFFICES ASSUME Init PROVE Typed
  OBVIOUS
<1>1. config \in Configs
  BY DEF Init
<1>2. IsDevice(memory)
  <2>1. memory = [t \in Bits \cup Registers |->
                    [a \in 0 .. LastCell |-> IF t \in Bits THEN 0 ELSE <<0, 0>>]]
    BY DEF Init
  <2>2. <<0, 0>> \in [1 .. 2 -> Byte]
    BY BaseAssumption DEF Byte
  <2>3. \A u \in Registers : u \notin Bits
    BY DEF Bits, Registers
  <2>4. HasTables(memory)
    BY <2>1 DEF HasTables
  <2>5. \A t \in Bits : memory[t] = [a \in 0 .. LastCell |-> 0]
    BY <2>1
  <2>6. \A t \in Registers : memory[t] = [a \in 0 .. LastCell |-> <<0, 0>>]
    BY <2>1, <2>3
  <2>7. \A t \in Registers : memory[t] \in [0 .. LastCell -> [1 .. 2 -> Byte]]
    <3> DEFINE z == <<0, 0>>
    <3>1. z \in [1 .. 2 -> Byte] /\ \A t \in Registers : memory[t] = [a \in 0 .. LastCell |-> z]
      BY <2>2, <2>6
    <3> HIDE DEF z
    <3> QED BY <3>1
  <2> QED BY <2>4, <2>5, <2>7 DEF IsDevice
<1>3. row \in [Point -> PointRow] /\ \A p \in Point : row[p].wv = NoValue
  BY DEF Init, PointRow, IsWriteable
<1> QED BY <1>1, <1>2, <1>3 DEF Init, Typed

\* Every step keeps the types.
LEMMA TypedStep == Typed /\ [Next]_vars => Typed'
<1> SUFFICES ASSUME Typed, [Next]_vars PROVE Typed'
  OBVIOUS
<1> USE DEF Typed
<1>1. CASE UNCHANGED vars
  BY <1>1 DEF vars, OutOK
<1>2. ASSUME NEW p \in Point, FailsOnly(p) PROVE Typed'
  <2>1. /\ RowChange(p, row[p].ov) /\ UNCHANGED <<config, memory, stale, alive>>
        /\ out' \in {out, NoPoll}
    BY <1>2, FailsOnlyIs
  <2> QED BY <2>1, TypedAfterPoll
<1>3. ASSUME NEW p \in Point, ReadOk(p) PROVE Typed'
  <2>1. RowChange(p, Bit(p, ReadResponse(memory, config[p])))
    BY <1>3, ReadOkIs
  <2>2. UNCHANGED <<config, memory, out, alive>> /\ stale' \subseteq Point
    BY <1>3 DEF ReadOk
  <2>3. IsDevice(memory')
    BY <2>2
  <2> QED BY <2>1, <2>2, <2>3, TypedAfterPoll
<1>4. ASSUME NEW p \in Point, ReadThenSleep(p) PROVE Typed'
  <2>1. OutOK(out)'
    BY <1>4, SleepIs
  <2>2. UNCHANGED <<config, memory, row, stale, alive>> /\ alive
    BY <1>4 DEF ReadThenSleep, BothDue, Polled
  <2> QED BY <2>1, <2>2
<1>5. ASSUME NEW p \in Point, WriteNothing(p) PROVE Typed'
  <2>1. RowChange(p, 0)
    BY <1>5, WriteNothingIs
  <2>2. UNCHANGED <<config, memory, out, alive>> /\ stale' \subseteq Point
    BY <1>5 DEF WriteNothing
  <2>3. IsDevice(memory')
    BY <2>2
  <2> QED BY <2>1, <2>2, <2>3, TypedAfterPoll
<1>6. ASSUME NEW p \in Point, WriteOk(p) PROVE Typed'
  <2>1. PICK r \in Requests(p) : IsDevice(memory') /\ RowChange(p, Reported(p, r))
    BY <1>6, WriteOkIs
  <2>2. UNCHANGED <<config, alive>> /\ out' = NoPoll /\ stale' \subseteq Point
    BY <1>6 DEF WriteOk, Overlapped
  <2> QED BY <2>1, <2>2, TypedAfterPoll
<1>7. ASSUME NEW p \in Point, WriteUnanswered(p) PROVE Typed'
  <2>1. IsDevice(memory') /\ RowChange(p, row[p].ov)
    BY <1>7, UnansweredIs
  <2>2. UNCHANGED <<config, alive>> /\ out' = NoPoll /\ stale' \subseteq Point
    BY <1>7 DEF WriteUnanswered, Overlapped
  <2> QED BY <2>1, <2>2, TypedAfterPoll
<1>8. ASSUME NEW p \in Point, NEW v \in Wishes(config[p]), UserWrites(p, v) PROVE Typed'
  <2>1. /\ row' \in [Point -> PointRow] /\ row'[p].wv = v
        /\ \A q \in Point \ {p} : row'[q] = row[q]
    BY <1>8, UserWritesIs
  <2>2. UNCHANGED <<config, memory, out, stale, alive>> /\ out = NoPoll
    BY <1>8 DEF UserWrites, UserCall
  <2> QED BY <2>1, <2>2
<1>9. ASSUME NEW t \in Bits \cup Registers, NEW a \in 0 .. LastCell,
             NEW c \in IF t \in Bits THEN {0, 1} ELSE FieldWords, FieldChanges(t, a, c)
      PROVE  Typed'
  <2>1. IsDevice(memory')
    BY <1>9, FieldIs
  <2>2. UNCHANGED <<config, row, out, alive>> /\ stale' \subseteq Point
    BY <1>9 DEF FieldChanges
  <2> QED BY <2>1, <2>2 DEF OutOK
<1>10. \A u \in Registers : u \notin Bits
  BY DEF Bits, Registers
<1>15. CASE Dies
  <2>1. /\ UNCHANGED <<config, memory, row, out, stale>>
        /\ alive' \in BOOLEAN /\ (out = NoPoll \/ alive')
    BY <1>15, DiesIs
  <2> QED BY <2>1 DEF OutOK
<1>11. CASE \E p \in Point : Poll(p) /\ ~Dies
  BY <1>2, <1>3, <1>4, <1>5, <1>6, <1>7, <1>11 DEF Poll, FailsOnly, Dies
<1>12. CASE \E p \in Point : \E v \in Wishes(config[p]) : UserWrites(p, v)
  BY <1>8, <1>12
<1>13. CASE \E t \in Bits, a \in 0 .. LastCell, c \in {0, 1} : FieldChanges(t, a, c)
  BY <1>9, <1>13
<1>14. CASE \E t \in Registers, a \in 0 .. LastCell, c \in FieldWords : FieldChanges(t, a, c)
  BY <1>9, <1>10, <1>14
<1> QED BY <1>1, <1>11, <1>12, <1>13, <1>14, <1>15 DEF Next, Dies

\* The types hold in every state.
LEMMA TypedInvariant == Spec => []Typed
BY InitTyped, TypedStep, PTL DEF Spec

\* They are more than TypeOK.
LEMMA TypedIsTypeOK == Typed => TypeOK
<1> SUFFICES ASSUME Typed PROVE TypeOK
  OBVIOUS
<1>1. ASSUME NEW p \in Point
      PROVE  row[p] \in [read : BOOLEAN, write : BOOLEAN,
                         wv : Wishes(config[p]) \cup {NoValue}, ov : Int \cup {NoValue}]
  <2>1. row[p] \in PointRow /\ row[p].wv \in Wishes(config[p]) \cup {NoValue}
    BY DEF Typed
  <2> QED BY <2>1 DEF PointRow
<1> QED BY <1>1 DEF TypeOK, Typed, OutOK

\* The rows have values and flags, and a poll sleeps between its two requests (polling.go:150)
\* only for a bitwise point with a value to write and a register that can be read as bits.
THEOREM RequestsTyped == Spec => []TypeOK
BY TypedInvariant, TypedIsTypeOK, PTL

-----------------------------------------------------------------------------
\* The values, and the register that is read before the sleep.

\* What a point reports is the value of the device.
ValueHeld(p) ==
    p \notin stale /\ row[p].ov # NoValue =>
        CanRead(config[p]) /\ row[p].ov = Present(memory, config[p])

\* The points whose bits the register read for o.point has, if nothing else changed them.
Bystander(o, q) ==
    /\ Bitwise(config[q]) /\ q \notin stale
    /\ Table(config[o.point].object) = Table(config[q].object)
    /\ Cells(config[o.point]) \cap Cells(config[q]) # {}

\* The register read before the sleep is still the device's where it matters.
ReadHeld(o) ==
    CanWrite(config[o.point]) =>
        /\ o.read \div Q \in 0 .. Power(Base, Width(config[o.point].data)) - 1
        /\ \A q \in Point : Bystander(o, q) => o.read = ReadResponse(memory, config[o.point])

Held ==
    /\ Typed
    /\ out # NoPoll => ReadHeld(out)
    /\ \A p \in Point : ValueHeld(p)

\* What AsDocumented says of one point.
LEMMA PointDocumented ==
    ASSUME AsDocumented, config \in Configs, NEW p \in Point
    PROVE  /\ ReadAsDocumented(config[p])
           /\ IsWriteable(config[p].mode) /\ CanWrite(config[p]) =>
                 /\ CanRead(config[p]) /\ WrittenAsDocumented(config[p])
                 /\ Bitwise(config[p]) =>
                       /\ Table(config[p].object) \in Registers
                       /\ config[p].data \in IntegerTypes
                       /\ \A q \in Point : Bitwise(config[q]) =>
                             SameRegister(config[p], config[q]) /\ IsBitOfRegister(config[q])
<1>1. /\ ReadAsDocumented(config[p])
      /\ IsWriteable(config[p].mode) /\ CanWrite(config[p]) =>
            /\ WrittenAsDocumented(config[p])
            /\ Bitwise(config[p]) => \A q \in Point : Bitwise(config[q]) =>
                  SameRegister(config[p], config[q]) /\ IsBitOfRegister(config[q])
  BY DEF AsDocumented
<1>2. CanWrite(config[p]) => CanRead(config[p])
  BY <1>1, ConfigType, CanWriteIs
<1>3. WrittenAsDocumented(config[p]) /\ Bitwise(config[p]) =>
         Table(config[p].object) \in Registers /\ config[p].data \in IntegerTypes
  BY DEF WrittenAsDocumented, Registers
<1> QED BY <1>1, <1>2, <1>3

\* What a user writes to a bit is a bit.
LEMMA WishIsBit ==
    ASSUME AsDocumented, Typed, NEW p \in Point, WriteDue(p), CanWrite(config[p]),
           Bitwise(config[p])
    PROVE  row[p].wv \in {0, Q}
<1>1. row[p].wv \in Wishes(config[p]) /\ IsWriteable(config[p].mode)
  BY WriteDueIs
<1>2. WrittenAsDocumented(config[p])
  BY <1>1, PointDocumented DEF Typed
<1> QED BY <1>1, <1>2 DEF WrittenAsDocumented

\* Two bits that have a cell in common are bits of one register.
LEMMA BitsShareRegister ==
    ASSUME AsDocumented, Typed, NEW p \in Point, NEW q \in Point,
           IsWriteable(config[p].mode), CanWrite(config[p]),
           Bitwise(config[p]), Bitwise(config[q]),
           Table(config[p].object) = Table(config[q].object),
           Cells(config[p]) \cap Cells(config[q]) # {}
    PROVE  OneRegister(config[p], config[q]) /\ IsBitOfRegister(config[q])
<1>1. SameRegister(config[p], config[q]) /\ IsBitOfRegister(config[q])
  BY PointDocumented DEF Typed
<1> QED BY <1>1 DEF SameRegister, OneRegister

\* A write leaves the points alone that it has no bit in common with.
LEMMA WriteElsewhere ==
    ASSUME AsDocumented, Held, NEW p \in Point, NEW q \in Point,
           WriteDue(p), CanWrite(config[p]), NEW r \in Requests(p),
           q \notin stale \/ Read = ReadResponse(memory, config[p]),
           CanRead(config[q]), ~Overlap(p, q)
    PROVE  Present(Put(memory, config[p], r.cells), config[q]) = Present(memory, config[q])
<1> DEFINE x == config[p]
           y == config[q]
           wv == row[p].wv
<1>1. /\ Typed /\ IsDevice(memory) /\ config \in Configs /\ x \in Config /\ y \in Config
  BY ConfigType DEF Held, Typed
<1>2. /\ IsWriteable(x.mode) /\ Outgoing(x, wv, Read) \in Int
      /\ Bitwise(x) => out # NoPoll /\ out.point = p /\ Read = out.read
  BY <1>1, WriteDueIs
<1>3. ReadAsDocumented(x) /\ ReadAsDocumented(y) /\ CanRead(x) /\ WrittenAsDocumented(x)
  BY <1>1, <1>2, PointDocumented
<1>4. r \in WriteRequest(x, Outgoing(x, wv, Read))
  BY DEF Requests
<1>5. CASE Table(x.object) = Table(y.object) => Cells(x) \cap Cells(y) = {}
  <2>0. CanWrite(x) /\ CanRead(y)
    OBVIOUS
  <2> HIDE DEF x, y, wv
  <2>1. Present(Put(memory, x, r.cells), y) = Present(memory, y)
    <3> DEFINE v == Outgoing(x, wv, Read)
    <3>1. v \in Int /\ r \in WriteRequest(x, v)
      BY <1>2, <1>4
    <3> HIDE DEF v
    <3> QED BY <1>1, <1>3, <1>5, <2>0, <3>1, Unaffected
  <2> QED BY <2>1 DEF x, y
<1>6. CASE ~(Table(x.object) = Table(y.object) => Cells(x) \cap Cells(y) = {})
  <2>1. Bitwise(x) /\ Bitwise(y) /\ x.bit # y.bit
    BY <1>6 DEF Overlap
  <2>2. OneRegister(x, y) /\ IsBitOfRegister(y)
    BY <1>1, <1>2, <1>6, <2>1, BitsShareRegister
  <2>3. wv \in {0, Q}
    BY <1>1, <2>1, WishIsBit
  <2>4. q \notin stale => Bystander(out, q)
    BY <1>2, <1>6, <2>1 DEF Bystander
  <2>5. /\ out.read \div Q \in 0 .. Power(Base, Width(x.data)) - 1
        /\ out.read = ReadResponse(memory, x)
    BY <1>2, <2>1, <2>4 DEF Held, ReadHeld
  <2>6. r \in WriteRequest(x, Outgoing(x, wv, out.read))
    BY <1>2, <1>4, <2>1
  <2>7. CanWrite(x)
    OBVIOUS
  <2> HIDE DEF x, y, wv
  <2>8. Present(Put(memory, x, r.cells), y) = Bit1(out.read \div Q, y.bit)
    BY <1>1, <1>3, <2>1, <2>2, <2>3, <2>5, <2>6, <2>7, BitWritten
  <2>9. Present(memory, y) = Bit1(out.read \div Q, y.bit)
    BY <1>1, <1>3, <2>1, <2>2, <2>5, BitsBefore
  <2> QED BY <2>8, <2>9 DEF x, y
<1> QED BY <1>5, <1>6

\* What a write reports is the value that the device then has.
LEMMA WriteReported ==
    ASSUME AsDocumented, Held, NEW p \in Point,
           WriteDue(p), CanWrite(config[p]), NEW r \in Requests(p)
    PROVE  /\ CanRead(config[p])
           /\ Present(Put(memory, config[p], r.cells), config[p]) = Reported(p, r)
<1> DEFINE x == config[p]
           wv == row[p].wv
<1>1. Typed /\ IsDevice(memory) /\ config \in Configs /\ x \in Config
  BY ConfigType DEF Held, Typed
<1>2. /\ IsWriteable(x.mode) /\ wv \in Wishes(x) /\ wv \in Int
      /\ Bitwise(x) => out # NoPoll /\ out.point = p /\ Read = out.read
      /\ ~Bitwise(x) => Outgoing(x, wv, Read) = wv
  BY <1>1, WriteDueIs
<1>3. /\ ReadAsDocumented(x) /\ CanRead(x) /\ WrittenAsDocumented(x) /\ CanWrite(x)
      /\ r \in WriteRequest(x, Outgoing(x, wv, Read))
  BY <1>1, <1>2, PointDocumented DEF Requests
<1>4. CASE ~Bitwise(x)
  <2>1. r \in WriteRequest(x, wv) /\ Reported(p, r) = r.value
    BY <1>2, <1>3, <1>4 DEF Reported
  <2> HIDE DEF x, wv
  <2>2. Present(Put(memory, x, r.cells), x) = r.value
    BY <1>1, <1>2, <1>3, <1>4, <2>1, OwnValue
  <2> QED BY <1>3, <2>1, <2>2 DEF x
<1>5. CASE Bitwise(x)
  <2>1. wv \in {0, Q}
    BY <1>1, <1>5, WishIsBit
  <2>2. Reported(p, r) = wv
    BY <1>5, <2>1 DEF Reported, Q
  <2>3. out.read \div Q \in 0 .. Power(Base, Width(x.data)) - 1
    BY <1>2, <1>5 DEF Held, ReadHeld
  <2>4. r \in WriteRequest(x, Outgoing(x, wv, out.read))
    BY <1>2, <1>3, <1>5
  <2>5. OneRegister(x, x) /\ IsBitOfRegister(x)
    BY <1>3, <1>5 DEF OneRegister, WrittenAsDocumented
  <2> HIDE DEF x, wv
  <2>6. Present(Put(memory, x, r.cells), x) = wv
    BY <1>1, <1>3, <1>5, <2>1, <2>3, <2>4, <2>5, BitWritten
  <2> QED BY <1>3, <2>2, <2>6 DEF x
<1> QED BY <1>4, <1>5

\* The value of a point has not changed: neither has its row, nor its cells.
LEMMA ValueKept ==
    ASSUME NEW p \in Point, ValueHeld(p), config' = config, row'[p].ov = row[p].ov,
           p \notin stale' => p \notin stale,
           p \notin stale' /\ row[p].ov # NoValue /\ CanRead(config[p]) =>
               Present(memory', config[p]) = Present(memory, config[p])
    PROVE  ValueHeld(p)'
BY DEF ValueHeld

\* The device changes where a point has no cell.
LEMMA FieldElsewhere ==
    ASSUME AsDocumented, Typed, NEW t \in Bits \cup Registers, NEW a \in 0 .. LastCell,
           NEW c \in IF t \in Bits THEN {0, 1} ELSE FieldWords, FieldChanges(t, a, c),
           NEW p \in Point, CanRead(config[p]),
           Table(config[p].object) # t \/ a \notin Cells(config[p])
    PROVE  /\ Present(memory', config[p]) = Present(memory, config[p])
           /\ ReadResponse(memory', config[p]) = ReadResponse(memory, config[p])
<1> DEFINE x == config[p]
<1>1. x \in Config /\ ReadAsDocumented(x) /\ CanRead(x) /\ IsDevice(memory)
  BY ConfigType, PointDocumented DEF Typed
<1>2. /\ IsDevice(memory')
      /\ \A u \in Bits \cup Registers, b \in 0 .. LastCell :
            u # t \/ b # a => memory'[u][b] = memory[u][b]
  BY FieldIs
<1>3. Cells(x) \subseteq 0 .. LastCell /\ Table(x.object) \in Bits \cup Registers
  BY <1>1, CellsAre, PointType
<1>4. \A b \in Cells(x) : memory'[Table(x.object)][b] = memory[Table(x.object)][b]
  BY <1>2, <1>3
<1> DEFINE d == memory
           e == memory'
<1> HIDE DEF x, d, e
<1>5. Decoded(e, x) = Decoded(d, x) /\ Present(e, x) = Present(d, x)
  <2>1. \A b \in Cells(x) : e[Table(x.object)][b] = d[Table(x.object)][b]
    BY <1>4 DEF d, e
  <2> QED BY <1>1, <2>1, SameCells
<1>6. ReadResponse(e, x) = Decoded(e, x) /\ ReadResponse(d, x) = Decoded(d, x)
  <2>1. IsDevice(d) /\ IsDevice(e)
    BY <1>1, <1>2 DEF d, e
  <2> QED BY <1>1, <2>1, ReadIsDecoded
<1> QED BY <1>5, <1>6 DEF d, e, x

\* The register that is read before the sleep is one of bits.
LEMMA SleepHeld ==
    ASSUME AsDocumented, Typed, NEW p \in Point, ReadThenSleep(p)
    PROVE  ReadHeld(out)'
<1>1. /\ out'.point = p /\ out'.read = ReadResponse(memory, config[p])
      /\ CanRead(config[p]) /\ OutOK(out)'
  BY SleepIs
<1>2. UNCHANGED <<config, memory, stale>> /\ config \in Configs /\ IsDevice(memory)
  BY DEF ReadThenSleep, Typed
<1>3. /\ Bitwise(config[p]) /\ IsWriteable(config[p].mode) /\ BitReadable(out'.read)
  BY <1>1, <1>2 DEF OutOK
<1>4. ASSUME CanWrite(config[p])
      PROVE  out'.read \div Q \in 0 .. Power(Base, Width(config[p].data)) - 1
  <2>1. /\ ReadAsDocumented(config[p]) /\ Table(config[p].object) \in Registers
        /\ config[p].data \in IntegerTypes
    BY <1>2, <1>3, <1>4, PointDocumented
  <2>2. config[p] \in Config
    BY <1>2, ConfigType
  <2> QED BY <1>1, <1>2, <1>3, <2>1, <2>2, ReadNumber
<1> QED BY <1>1, <1>2, <1>4 DEF ReadHeld

\* A change in the field makes every bystander of the register stale.
LEMMA FieldReadHeld ==
    ASSUME AsDocumented, Held, out # NoPoll, NEW t \in Bits \cup Registers,
           NEW a \in 0 .. LastCell,
           NEW c \in IF t \in Bits THEN {0, 1} ELSE FieldWords, FieldChanges(t, a, c)
    PROVE  ReadHeld(out)'
<1> DEFINE p == out.point
           x == config[p]
<1>1. /\ Typed /\ ReadHeld(out) /\ p \in Point
      /\ Bitwise(x) /\ IsWriteable(x.mode) /\ CanRead(x)
  BY DEF Held, Typed, OutOK
<1>2. /\ UNCHANGED <<config, out>>
      /\ stale' = stale \cup {q \in Point : /\ Table(config[q].object) = t
                                            /\ a \in Cells(config[q])}
  BY DEF FieldChanges
<1>3. ASSUME CanWrite(x), NEW q \in Point, Bystander(out, q)'
      PROVE  out.read = ReadResponse(memory', x)
  <2>1. /\ Bitwise(config[q]) /\ q \notin stale'
        /\ Table(x.object) = Table(config[q].object) /\ Cells(x) \cap Cells(config[q]) # {}
    BY <1>2, <1>3 DEF Bystander
  <2>2. out.read = ReadResponse(memory, x)
    BY <1>1, <1>2, <1>3, <2>1 DEF ReadHeld, Bystander
  <2>3. OneRegister(x, config[q])
    BY <1>1, <1>3, <2>1, BitsShareRegister
  <2>4. Cells(x) = Cells(config[q])
    BY <2>3, OneRegisterIs
  <2>5. Table(x.object) # t \/ a \notin Cells(x)
    BY <1>2, <2>1, <2>4
  <2>6. ReadResponse(memory', x) = ReadResponse(memory, x)
    BY <1>1, <2>5, FieldElsewhere
  <2> QED BY <2>2, <2>6
<1> QED BY <1>1, <1>2, <1>3 DEF ReadHeld

-----------------------------------------------------------------------------
\* No point has a value yet.
LEMMA InitHeld == Init => Held
BY InitTyped DEF Init, Held, ValueHeld

\* A step of one point that leaves the rows of the others as they are.
LEMMA HeldAfterRead ==
    ASSUME AsDocumented, Held, NEW p \in Point, NEW v, RowChange(p, v),
           UNCHANGED <<config, memory>>, out' \in {out, NoPoll},
           stale' \subseteq stale \cup {p}, stale \ {p} \subseteq stale',
           p \notin stale' /\ v # NoValue =>
               \/ v = row[p].ov /\ p \notin stale
               \/ CanRead(config[p]) /\ v = Present(memory, config[p]),
           out' # NoPoll => stale \subseteq stale', Typed'
    PROVE  Held'
<1>1. ASSUME out' # NoPoll PROVE ReadHeld(out)'
  <2>1. out' = out /\ ReadHeld(out) /\ \A q : q \notin stale' => q \notin stale
    BY <1>1 DEF Held
  <2> QED BY <2>1 DEF ReadHeld, Bystander
<1>2. ASSUME NEW q \in Point PROVE ValueHeld(q)'
  <2>1. CASE q # p
    <3>1. row'[q] = row[q] /\ (q \notin stale' => q \notin stale) /\ ValueHeld(q)
      BY <2>1 DEF RowChange, Held
    <3> QED BY <3>1 DEF ValueHeld
  <2>2. CASE q = p
    <3>1. row'[p].ov = v /\ ValueHeld(p)
      BY DEF RowChange, Held
    <3> QED BY <2>2, <3>1 DEF ValueHeld
  <2> QED BY <2>1, <2>2
<1> QED BY <1>1, <1>2 DEF Held

\* Every step keeps the values and the register read.
LEMMA HeldStep == ASSUME AsDocumented PROVE Held /\ [Next]_vars => Held'
<1> SUFFICES ASSUME Held, [Next]_vars PROVE Held'
  OBVIOUS
<1>0. Typed /\ Typed' /\ IsDevice(memory) /\ config \in Configs
  BY TypedStep DEF Held, Typed
<1>1. CASE UNCHANGED vars
  BY <1>0, <1>1 DEF vars, Held, ValueHeld, ReadHeld, Bystander
<1>2. ASSUME NEW p \in Point, FailsOnly(p) PROVE Held'
  <2>1. /\ RowChange(p, row[p].ov) /\ UNCHANGED <<config, memory, stale>>
        /\ out' \in {out, NoPoll}
    BY <1>0, <1>2, FailsOnlyIs
  <2> QED BY <1>0, <2>1, HeldAfterRead
<1>3. ASSUME NEW p \in Point, ReadOk(p) PROVE Held'
  <2> DEFINE x == config[p]
             v == Bit(p, ReadResponse(memory, x))
  <2>1. CanRead(x) /\ RowChange(p, v)
    BY <1>0, <1>3, ReadOkIs
  <2>2. UNCHANGED <<config, memory, out>> /\ stale' = stale \ {p} /\ out = NoPoll
    BY <1>3 DEF ReadOk, Polled
  <2>3. v = Present(memory, x)
    <3>1. ReadResponse(memory, x) = Decoded(memory, x)
      BY <1>0, <2>1, PointDocumented, ConfigType, ReadIsDecoded
    <3> QED BY <3>1, PresentIsDecoded DEF Bit
  <2> HIDE DEF v
  <2>4. /\ stale' \subseteq stale \cup {p} /\ stale \ {p} \subseteq stale'
        /\ out' \in {out, NoPoll} /\ out' = NoPoll
    BY <2>2
  <2> QED BY <1>0, <2>1, <2>2, <2>3, <2>4, HeldAfterRead
<1>4. ASSUME NEW p \in Point, ReadThenSleep(p) PROVE Held'
  <2>1. ReadHeld(out)'
    BY <1>0, <1>4, SleepHeld
  <2>2. UNCHANGED <<config, memory, row, stale>>
    BY <1>4 DEF ReadThenSleep
  <2>3. \A q \in Point : ValueHeld(q)'
    BY <2>2 DEF Held, ValueHeld
  <2> QED BY <1>0, <2>1, <2>3 DEF Held
<1>5. ASSUME NEW p \in Point, WriteNothing(p) PROVE Held'
  <2> DEFINE v == 0
  <2>1. RowChange(p, v)
    BY <1>0, <1>5, WriteNothingIs
  <2>2. UNCHANGED <<config, memory, out>> /\ stale' = stale \cup {p}
    BY <1>5 DEF WriteNothing
  <2> HIDE DEF v
  <2>3. /\ stale' \subseteq stale \cup {p} /\ stale \ {p} \subseteq stale'
        /\ out' \in {out, NoPoll} /\ p \in stale' /\ stale \subseteq stale'
    BY <2>2
  <2> QED BY <1>0, <2>1, <2>2, <2>3, HeldAfterRead
<1>6. ASSUME NEW p \in Point, WriteOk(p) PROVE Held'
  <2>1. PICK r \in Requests(p) :
           memory' = Put(memory, config[p], r.cells) /\ RowChange(p, Reported(p, r))
    BY <1>0, <1>6, WriteOkIs
  <2>2. /\ config' = config /\ out' = NoPoll /\ stale' = (stale \cup Overlapped(p)) \ {p}
        /\ WriteDue(p) /\ CanWrite(config[p])
    BY <1>6 DEF WriteOk
  <2>3. ASSUME NEW q \in Point \ {p} PROVE ValueHeld(q)'
    <3>1. row'[q] = row[q] /\ ValueHeld(q)
      BY <2>1 DEF RowChange, Held
    <3>2. ASSUME q \notin stale', CanRead(config[q])
          PROVE  Present(memory', config[q]) = Present(memory, config[q])
      <4>1. q \notin stale /\ ~Overlap(p, q)
        BY <2>2, <3>2 DEF Overlapped
      <4> QED BY <2>1, <2>2, <3>2, <4>1, WriteElsewhere
    <3>3. q \notin stale' => q \notin stale
      BY <2>2
    <3> QED BY <2>2, <3>1, <3>2, <3>3, ValueKept
  <2>4. ValueHeld(p)'
    <3>1. CanRead(config[p]) /\ Present(Put(memory, config[p], r.cells), config[p]) = Reported(p, r)
      BY <2>2, WriteReported
    <3>2. row'[p].ov = Reported(p, r)
      BY <2>1 DEF RowChange
    <3> QED BY <2>1, <2>2, <3>1, <3>2 DEF ValueHeld
  <2> QED BY <1>0, <2>2, <2>3, <2>4 DEF Held
<1>7. ASSUME NEW p \in Point, WriteUnanswered(p) PROVE Held'
  <2>1. PICK r \in Requests(p) :
           memory' = Put(memory, config[p], r.cells) /\ RowChange(p, row[p].ov)
    BY <1>0, <1>7, UnansweredIs
  <2>2. /\ config' = config /\ out' = NoPoll /\ stale' = stale \cup Overlapped(p)
        /\ WriteDue(p) /\ CanWrite(config[p])
    BY <1>7 DEF WriteUnanswered
  <2>3. ASSUME NEW q \in Point PROVE ValueHeld(q)'
    <3>1. row'[q].ov = row[q].ov /\ ValueHeld(q)
      BY <2>1 DEF RowChange, Held
    <3>2. ASSUME q \notin stale', CanRead(config[q])
          PROVE  Present(memory', config[q]) = Present(memory, config[q])
      <4>1. q \notin stale /\ ~Overlap(p, q)
        BY <2>2, <3>2 DEF Overlapped
      <4> QED BY <2>1, <2>2, <3>2, <4>1, WriteElsewhere
    <3>3. q \notin stale' => q \notin stale
      BY <2>2
    <3> QED BY <2>2, <3>1, <3>2, <3>3, ValueKept
  <2> QED BY <1>0, <2>2, <2>3 DEF Held
<1>8. ASSUME NEW p \in Point, NEW v \in Wishes(config[p]), UserWrites(p, v) PROVE Held'
  <2>1. \A q \in Point : row'[q].ov = row[q].ov
    BY <1>0, <1>8, UserWritesIs
  <2>2. UNCHANGED <<config, memory, out, stale>> /\ out = NoPoll
    BY <1>8 DEF UserWrites, UserCall
  <2> QED BY <1>0, <2>1, <2>2 DEF Held, ValueHeld
<1>9. ASSUME NEW t \in Bits \cup Registers, NEW a \in 0 .. LastCell,
             NEW c \in IF t \in Bits THEN {0, 1} ELSE FieldWords, FieldChanges(t, a, c)
      PROVE  Held'
  <2>1. /\ UNCHANGED <<config, row, out>>
        /\ stale' = stale \cup {p \in Point : /\ Table(config[p].object) = t
                                              /\ a \in Cells(config[p])}
    BY <1>9 DEF FieldChanges
  <2>2. out' # NoPoll => ReadHeld(out)'
    BY <1>9, <2>1, FieldReadHeld
  <2>3. ASSUME NEW q \in Point PROVE ValueHeld(q)'
    <3>1. ASSUME q \notin stale', CanRead(config[q])
          PROVE  Present(memory', config[q]) = Present(memory, config[q])
      BY <1>0, <1>9, <2>1, <3>1, FieldElsewhere
    <3>2. ValueHeld(q) /\ (q \notin stale' => q \notin stale)
      BY <2>1 DEF Held
    <3> QED BY <2>1, <3>1, <3>2, ValueKept
  <2> QED BY <1>0, <2>2, <2>3 DEF Held
<1>10. \A u \in Registers : u \notin Bits
  BY DEF Bits, Registers
<1>15. CASE Dies
  <2>1. UNCHANGED <<config, memory, row, out, stale>>
    BY <1>15, DiesIs
  <2> QED BY <1>0, <2>1 DEF Held, ValueHeld, ReadHeld, Bystander
<1>11. CASE \E p \in Point : Poll(p) /\ ~Dies
  BY <1>2, <1>3, <1>4, <1>5, <1>6, <1>7, <1>11 DEF Poll, FailsOnly, Dies
<1>12. CASE \E p \in Point : \E v \in Wishes(config[p]) : UserWrites(p, v)
  BY <1>8, <1>12
<1>13. CASE \E t \in Bits, a \in 0 .. LastCell, c \in {0, 1} : FieldChanges(t, a, c)
  BY <1>9, <1>13
<1>14. CASE \E t \in Registers, a \in 0 .. LastCell, c \in FieldWords : FieldChanges(t, a, c)
  BY <1>9, <1>10, <1>14
<1> QED BY <1>1, <1>11, <1>12, <1>13, <1>14, <1>15 DEF Next, Dies

\* They are kept in every state.
LEMMA HeldInvariant == ASSUME AsDocumented PROVE Spec => []Held
BY InitHeld, HeldStep, PTL DEF Spec

\* The first part of it is the property.
LEMMA HeldIsTrue == Held => PresentIsTrue
BY DEF Held, ValueHeld, PresentIsTrue

\* For points that do what is documented: the present value of a point is the one in the
\* device, unless others or a failed request changed it since (utils.go:160, polling.go:189).
THEOREM PresentIsTrueHolds == ASSUME AsDocumented PROVE Spec => []PresentIsTrue
BY HeldInvariant, HeldIsTrue, PTL

\* A write that succeeds leaves the points alone it has no bit in common with.
LEMMA WriteChangesTheBit ==
    ASSUME AsDocumented, Held, NEW p \in Point, NEW q \in Point, ~Overlap(p, q),
           CanRead(config[q]), WriteOk(p), Read = ReadResponse(memory, config[p])
    PROVE  Present(memory', config'[q]) = Present(memory, config[q])
<1>1. PICK r \in Requests(p) : memory' = Put(memory, config[p], r.cells)
  BY WriteOkIs DEF Held
<1>2. config' = config /\ WriteDue(p) /\ CanWrite(config[p])
  BY DEF WriteOk
<1> QED BY <1>1, <1>2, WriteElsewhere

\* For points that do what is documented: a write of 0 or 1 to a bit, the register still
\* being as it was read, changes that bit of the register only (polling.go:189).
THEOREM OnlyTheBitHolds == ASSUME AsDocumented PROVE Spec => OnlyTheBit
<1>1. ASSUME Held
      PROVE  [\A p, q \in Point :
                 /\ Bitwise(config[p]) /\ row[p].wv \in {0, Q}
                 /\ ~Overlap(p, q) /\ CanRead(config[q])
                 /\ WriteOk(p) /\ Read = ReadResponse(memory, config[p])
                 => Present(memory, config[q])' = Present(memory, config[q])]_vars
  BY <1>1, WriteChangesTheBit
<1> QED BY <1>1, HeldInvariant, PTL DEF Spec, OnlyTheBit
=============================================================================
