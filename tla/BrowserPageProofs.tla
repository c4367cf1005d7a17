-------------------------- MODULE BrowserPageProofs -------------------------
(***************************************************************************)
(* What a browser's page holds and shows, for keys of any size, any root    *)
(* keys, channels, terminals and windows: base32 there and back, the host's *)
(* key or none, the session that the URL names, every frame read as it was  *)
(* written, and, for a terminal that is not small, the font that fits it.   *)
(***************************************************************************)
EXTENDS BrowserPage, SequenceTheorems, WellFoundedInduction, TLAPS

-----------------------------------------------------------------------------
(* Numbers. *)

LEMMA Quotient ==
  ASSUME NEW a \in Int, NEW b \in Nat, b > 0, NEW q \in Int, NEW r \in Int,
         a = b * q + r, 0 <= r, r < b
  PROVE  a \div b = q /\ a % b = r
OBVIOUS

LEMMA Division ==
  ASSUME NEW a \in Nat, NEW b \in Nat, b > 0
  PROVE  /\ a \div b \in Nat /\ a % b \in Nat /\ a % b < b
         /\ a = b * (a \div b) + (a % b)
OBVIOUS

LEMMA PowersOfTwo ==
  /\ Pow2[0] = 1 /\ Pow2[1] = 2 /\ Pow2[2] = 4 /\ Pow2[3] = 8 /\ Pow2[4] = 16 /\ Pow2[5] = 32
  /\ Pow2[6] = 64 /\ Pow2[7] = 128 /\ Pow2[8] = 256 /\ Pow2[9] = 512 /\ Pow2[10] = 1024
  /\ Pow2[11] = 2048
BY DEF Pow2

\* A set of numbers that is not empty has a least one.
LEMMA LeastNumber ==
  ASSUME NEW T \in SUBSET Nat, T # {}
  PROVE  \E x \in T : \A y \in T : x <= y
<1>. DEFINE R == OpToRel(<, Nat)
<1>1. IsWellFoundedOn(R, Nat)
  BY NatLessThanWellFounded
<1>2. PICK x \in T : \A y \in T : ~(<<y, x>> \in R)
  <2>. HIDE DEF R
  <2>. QED BY <1>1, WFMin
<1>3. \A m, n \in Nat : m < n => <<m, n>> \in R
  BY DEF OpToRel
<1>. HIDE DEF R
<1>4. ASSUME NEW y \in T PROVE x <= y
  <2>1. x \in Nat /\ y \in Nat /\ ~(y < x)
    BY <1>2, <1>3
  <2>. QED BY <2>1
<1>. QED BY <1>4

\* So a set of numbers with 0 and every successor up to n has all of them.
LEMMA UpTo ==
  ASSUME NEW n \in Nat, NEW T, 0 \in T, \A i \in 0..(n - 1) : i \in T => i + 1 \in T
  PROVE  \A i \in 0..n : i \in T
<1>. SUFFICES ASSUME NEW k \in 0..n, k \notin T PROVE FALSE
  OBVIOUS
<1>. DEFINE S == { i \in 0..n : i \notin T }
<1>1. S \in SUBSET Nat /\ S # {}
  OBVIOUS
<1>2. PICK x \in S : \A y \in S : x <= y
  <2>. HIDE DEF S
  <2>. QED BY <1>1, LeastNumber
<1>3. x \in 0..n /\ x \notin T /\ x # 0
  BY <1>2
<1>4. x - 1 \in 0..(n - 1) /\ (x - 1) + 1 = x /\ x - 1 \notin S
  BY <1>2, <1>3
<1>5. x - 1 \in T
  BY <1>3, <1>4
<1>. QED BY <1>3, <1>4, <1>5

-----------------------------------------------------------------------------
(* The loops of base32, turn by turn. *)

LEMMA TakeBytesUnfolds ==
  ASSUME NEW bytes, Len(bytes) \in Nat
  PROVE  /\ TakeBytes(bytes)[0] = Empty
         /\ \A n \in 1..Len(bytes) :
              TakeBytes(bytes)[n] = TakeByte(TakeBytes(bytes)[n - 1], bytes[n])
<1>. DEFINE m == Len(bytes)
            A(c, n) == /\ c = [i \in 0..n |-> c[i]] /\ c[0] = Empty
                       /\ \A i \in 1..n : c[i] = TakeByte(c[i - 1], bytes[i])
            D(f) == [i \in 0..m |-> IF i = 0 THEN Empty ELSE TakeByte(f[i - 1], bytes[i])]
            f0 == CHOOSE f : f = D(f)
            T == {n \in Nat : \E c : A(c, n)}
<1>2. 0 \in T
  <2>. DEFINE z == [i \in 0..0 |-> Empty]
  <2>1. A(z, 0)
    OBVIOUS
  <2>. HIDE DEF z, A
  <2>. QED BY <2>1
<1>3. ASSUME NEW n \in 0..(m - 1), n \in T PROVE n + 1 \in T
  <2>0. n \in Nat /\ \E c : A(c, n)
    <3>. HIDE DEF A
    <3>. QED BY <1>3
  <2>1. PICK c : A(c, n)
    <3>. HIDE DEF A
    <3>. QED BY <2>0
  <2>. DEFINE new == TakeByte(c[n], bytes[n + 1])
              d == [i \in 0..(n + 1) |-> IF i = n + 1 THEN new ELSE c[i]]
  <2>2. d[n + 1] = new /\ \A i \in 0..n : d[i] = c[i]
    <3>. HIDE DEF new
    <3>. QED BY <2>0
  <2>3. d[0] = Empty
    BY <2>0, <2>1, <2>2
  <2>4. d = [i \in 0..(n + 1) |-> d[i]]
    <3>. HIDE DEF new
    <3>. QED OBVIOUS
  <2>5. ASSUME NEW i \in 1..(n + 1)
        PROVE  d[i] = TakeByte(d[i - 1], bytes[i])
    <3>. HIDE DEF d
    <3>1. CASE i = n + 1
      <4>1. i - 1 = n /\ n \in 0..n
        BY <2>0, <3>1
      <4>. QED BY <2>2, <3>1, <4>1
    <3>2. CASE i # n + 1
      <4>1. i \in 1..n /\ i \in 0..n /\ i - 1 \in 0..n
        BY <2>0, <3>2
      <4>. QED BY <2>1, <2>2, <4>1
    <3>. QED BY <3>1, <3>2
  <2>6. A(d, n + 1)
    <3>. HIDE DEF d
    <3>. QED BY <2>3, <2>4, <2>5
  <2>. HIDE DEF A, d
  <2>. QED BY <2>0, <2>6
<1>4. \E c : A(c, m)
  <2>. HIDE DEF T
  <2>1. \A i \in 0..m : i \in T
    BY <1>2, <1>3, UpTo
  <2>2. m \in T
    BY <2>1
  <2>. QED BY <2>2 DEF T
<1>5. PICK c : A(c, m)
  <2>. HIDE DEF A
  <2>. QED BY <1>4
<1>6. c = D(c)
  <2>1. \A i \in 0..m : c[i] = IF i = 0 THEN Empty ELSE TakeByte(c[i - 1], bytes[i])
    BY <1>5
  <2>. QED BY <1>5, <2>1
<1>7. f0 = D(f0)
  <2>. HIDE DEF D
  <2>. QED BY <1>6
<1>8. TakeBytes(bytes) = f0
  BY DEF TakeBytes
<1>. HIDE DEF f0
<1>9. f0[0] = Empty /\ \A n \in 1..m : f0[n] = TakeByte(f0[n - 1], bytes[n])
  BY <1>7
<1>. QED BY <1>8, <1>9

LEMMA TakeDigitsUnfolds ==
  ASSUME NEW digits, Len(digits) \in Nat
  PROVE  /\ TakeDigits(digits)[0] = Empty
         /\ \A n \in 1..Len(digits) :
              TakeDigits(digits)[n] = TakeDigit(TakeDigits(digits)[n - 1], digits[n])
<1>. DEFINE m == Len(digits)
            A(c, n) == /\ c = [i \in 0..n |-> c[i]] /\ c[0] = Empty
                       /\ \A i \in 1..n : c[i] = TakeDigit(c[i - 1], digits[i])
            D(f) == [i \in 0..m |-> IF i = 0 THEN Empty ELSE TakeDigit(f[i - 1], digits[i])]
            f0 == CHOOSE f : f = D(f)
            T == {n \in Nat : \E c : A(c, n)}
<1>2. 0 \in T
  <2>. DEFINE z == [i \in 0..0 |-> Empty]
  <2>1. A(z, 0)
    OBVIOUS
  <2>. HIDE DEF z, A
  <2>. QED BY <2>1
<1>3. ASSUME NEW n \in 0..(m - 1), n \in T PROVE n + 1 \in T
  <2>0. n \in Nat /\ \E c : A(c, n)
    <3>. HIDE DEF A
    <3>. QED BY <1>3
  <2>1. PICK c : A(c, n)
    <3>. HIDE DEF A
    <3>. QED BY <2>0
  <2>. DEFINE new == TakeDigit(c[n], digits[n + 1])
              d == [i \in 0..(n + 1) |-> IF i = n + 1 THEN new ELSE c[i]]
  <2>2. d[n + 1] = new /\ \A i \in 0..n : d[i] = c[i]
    <3>. HIDE DEF new
    <3>. QED BY <2>0
  <2>3. d[0] = Empty
    BY <2>0, <2>1, <2>2
  <2>4. d = [i \in 0..(n + 1) |-> d[i]]
    <3>. HIDE DEF new
    <3>. QED OBVIOUS
  <2>5. ASSUME NEW i \in 1..(n + 1)
        PROVE  d[i] = TakeDigit(d[i - 1], digits[i])
    <3>. HIDE DEF d
    <3>1. CASE i = n + 1
      <4>1. i - 1 = n /\ n \in 0..n
        BY <2>0, <3>1
      <4>. QED BY <2>2, <3>1, <4>1
    <3>2. CASE i # n + 1
      <4>1. i \in 1..n /\ i \in 0..n /\ i - 1 \in 0..n
        BY <2>0, <3>2
      <4>. QED BY <2>1, <2>2, <4>1
    <3>. QED BY <3>1, <3>2
  <2>6. A(d, n + 1)
    <3>. HIDE DEF d
    <3>. QED BY <2>3, <2>4, <2>5
  <2>. HIDE DEF A, d
  <2>. QED BY <2>0, <2>6
<1>4. \E c : A(c, m)
  <2>. HIDE DEF T
  <2>1. \A i \in 0..m : i \in T
    BY <1>2, <1>3, UpTo
  <2>2. m \in T
    BY <2>1
  <2>. QED BY <2>2 DEF T
<1>5. PICK c : A(c, m)
  <2>. HIDE DEF A
  <2>. QED BY <1>4
<1>6. c = D(c)
  <2>1. \A i \in 0..m : c[i] = IF i = 0 THEN Empty ELSE TakeDigit(c[i - 1], digits[i])
    BY <1>5
  <2>. QED BY <1>5, <2>1
<1>7. f0 = D(f0)
  <2>. HIDE DEF D
  <2>. QED BY <1>6
<1>8. TakeDigits(digits) = f0
  BY DEF TakeDigits
<1>. HIDE DEF f0
<1>9. f0[0] = Empty /\ \A n \in 1..m : f0[n] = TakeDigit(f0[n - 1], digits[n])
  BY <1>7
<1>. QED BY <1>8, <1>9

-----------------------------------------------------------------------------
(* Digits become bytes. *)

\* A number keeps its thirteen lowest bits in a word.
LEMMA WordKeepsBits ==
  ASSUME NEW n \in Nat
  PROVE  n % Word \in Nat /\ \E p \in Nat : n = 8192 * p + (n % Word)
<1>. DEFINE m == Word \div 8192
            k == n \div Word
            r == n % Word
<1>. SUFFICES r \in Nat /\ \E p \in Nat : n = 8192 * p + r
  OBVIOUS
<1>1. Word \in Nat /\ Word > 0
  BY LinkAssumption
<1>2. Word = 8192 * m /\ m \in Nat
  BY LinkAssumption
<1>3. r \in Nat /\ n = Word * k + r /\ k \in Nat
  BY <1>1, Division
<1>. HIDE DEF m, k, r
<1>4. Word * k = 8192 * (m * k) /\ m * k \in Nat
  BY <1>2, <1>3
<1>. QED BY <1>3, <1>4

\* The number v, with the top bits of byte x waiting - all but those below Q, so that P is one
\* more than the most they can be - takes the five bits that follow them, and becomes w.
Takes(P, Q, v, d, x, y, w) ==
  /\ P \in Nat /\ Q \in Nat /\ v \in Nat /\ d \in Nat /\ x \in Byte /\ y \in Byte /\ w \in Nat
  /\ \E p \in Nat : 32 * v + d = 8192 * p + w
  /\ v % P = x \div Q
  /\ d = ((256 * x + y) \div (8 * Q)) % 32

\* Fewer than three bits are waiting, the top ones of byte x: the digit's five follow them.
LEMMA DigitKept ==
  ASSUME NEW P, NEW Q, NEW S \in Nat, NEW v, NEW d, NEW x, NEW y, NEW w,
         (P = 1 /\ Q = 256 /\ S = 8) \/ (P = 2 /\ Q = 128 /\ S = 4) \/ (P = 4 /\ Q = 64 /\ S = 2),
         Takes(P, Q, v, d, x, y, w)
  PROVE  w % (32 * P) = x \div S
<1>. SUFFICES ASSUME Q \in Nat, v \in Nat, d \in Nat, x \in Byte, y \in Byte, w \in Nat,
                     P \in Nat, NEW p \in Nat, 32 * v + d = 8192 * p + w, v % P = x \div Q,
                     d = ((256 * x + y) \div (8 * Q)) % 32
              PROVE  w % (32 * P) = x \div S
  BY DEF Takes
<1>. DEFINE a == x \div Q
            x0 == (x % Q) \div S
            z == x % S
            q == v \div P
<1>1. x = Q * a + S * x0 + z /\ a \in 0..(P - 1) /\ x0 \in 0..31 /\ z \in 0..(S - 1)
  <2>1. CASE P = 1 /\ Q = 256 /\ S = 8
    BY <2>1 DEF Byte
  <2>2. CASE P = 2 /\ Q = 128 /\ S = 4
    BY <2>2 DEF Byte
  <2>3. CASE P = 4 /\ Q = 64 /\ S = 2
    BY <2>3 DEF Byte
  <2>. QED BY <2>1, <2>2, <2>3
<1>2. v = P * q + a /\ q \in Nat
  BY Division
<1>. HIDE DEF a, x0, z, q
<1>3. (256 * x + y) \div (8 * Q) = 32 * a + x0
  <2>1. 256 * x + y = (8 * Q) * (32 * a + x0) + (256 * z + y)
    BY <1>1
  <2>2. 256 * z + y \in 0..(8 * Q - 1)
    BY <1>1 DEF Byte
  <2>. QED BY <1>1, <2>1, <2>2, Quotient
<1>4. d = x0
  BY <1>1, <1>3
<1>5. w = (32 * P) * (q - Q * p) + (32 * a + x0)
  BY <1>1, <1>2, <1>4
<1>6. w % (32 * P) = 32 * a + x0
  BY <1>1, <1>2, <1>5, Quotient
<1>7. x \div S = 32 * a + x0
  BY <1>1, Quotient
<1>. QED BY <1>6, <1>7

\* With three or more waiting, the digit completes x, and the rest of it begins byte y.
LEMMA DigitCompletes ==
  ASSUME NEW R \in Nat, NEW Q, NEW v, NEW d, NEW x, NEW y, NEW w,
         \/ (R = 1 /\ Q = 32) \/ (R = 2 /\ Q = 16) \/ (R = 4 /\ Q = 8)
         \/ (R = 8 /\ Q = 4) \/ (R = 16 /\ Q = 2),
         Takes(8 * R, Q, v, d, x, y, w)
  PROVE  (w \div R) % 256 = x /\ w % R = y \div (8 * Q)
<1>. SUFFICES ASSUME Q \in Nat, v \in Nat, d \in Nat, x \in Byte, y \in Byte, w \in Nat,
                     NEW p \in Nat, 32 * v + d = 8192 * p + w, v % (8 * R) = x \div Q,
                     d = ((256 * x + y) \div (8 * Q)) % 32
              PROVE  (w \div R) % 256 = x /\ w % R = y \div (8 * Q)
  BY DEF Takes
<1>. DEFINE top == w \div R
            low == w % R
            a == x \div Q
            x0 == x % Q
            q == v \div (8 * R)
            b == y \div (8 * Q)
            y0 == y % (8 * Q)
<1>1. x = Q * a + x0 /\ a \in Nat /\ x0 \in 0..(Q - 1)
  BY Division DEF Byte
<1>2. v = 8 * R * q + a /\ q \in Nat
  <2>. DEFINE m == 8 * R
  <2>1. m \in Nat /\ m > 0
    OBVIOUS
  <2>2. v % m = a /\ q = v \div m
    OBVIOUS
  <2>. HIDE DEF m, a, q
  <2>3. v = m * q + a /\ q \in Nat
    BY <2>1, <2>2, Division
  <2>. QED BY <2>3 DEF m
<1>3. y = 8 * Q * b + y0 /\ b \in 0..(R - 1) /\ y0 \in 0..(8 * Q - 1)
  <2>1. CASE R = 1 /\ Q = 32
    BY <2>1 DEF Byte
  <2>2. CASE R = 2 /\ Q = 16
    BY <2>2 DEF Byte
  <2>3. CASE R = 4 /\ Q = 8
    BY <2>3 DEF Byte
  <2>4. CASE R = 8 /\ Q = 4
    BY <2>4 DEF Byte
  <2>5. CASE R = 16 /\ Q = 2
    BY <2>5 DEF Byte
  <2>. QED BY <2>1, <2>2, <2>3, <2>4, <2>5
<1>. SUFFICES top % 256 = x /\ low = b
  OBVIOUS
<1>. HIDE DEF a, x0, q, b, y0
<1>4. (256 * x + y) \div (8 * Q) = 32 * a + R * x0 + b
  <2>1. 256 * x + y = (8 * Q) * (32 * a + R * x0 + b) + y0
    BY <1>1, <1>3
  <2>2. 32 * a + R * x0 + b \in Int
    BY <1>1, <1>3
  <2>. QED BY <2>1, <2>2, <1>3, Quotient
<1>5. d = R * x0 + b
  BY <1>1, <1>3, <1>4
<1>6. w = R * (256 * (q - Q * p) + x) + b
  <2>1. w = 32 * (8 * R * q + a) + (R * x0 + b) - 8192 * p
    BY <1>1, <1>2, <1>3, <1>5
  <2>2. R * x = 32 * a + R * x0
    BY <1>1
  <2>3. 8192 * p = R * (256 * (Q * p))
    OBVIOUS
  <2>4. R * (256 * (q - Q * p) + x) = 256 * (R * q) - R * (256 * (Q * p)) + R * x
    BY <1>2 DEF Byte
  <2>. QED BY <1>1, <1>2, <1>3, <2>1, <2>2, <2>3, <2>4
<1>. DEFINE u == 256 * (q - Q * p) + x
<1>7. u \in Int /\ u % 256 = x
  BY <1>2, Quotient DEF Byte
<1>. HIDE DEF u
<1>8. top = u /\ low = b
  <2>1. w = R * u + b
    BY <1>6 DEF u
  <2>. QED BY <1>3, <1>7, <2>1, Quotient
<1>. HIDE DEF top, low
<1>. QED BY <1>7, <1>8

\* What a digit does to the loop, whatever the digit.
LoopState == [value : Nat, bits : Nat, out : Seq(Byte)]

LEMMA TakeDigitPutsOut ==
  ASSUME NEW s, NEW d, ~(s.bits + 5 < 8)
  PROVE  TakeDigit(s, d) =
           [value |-> ShiftIn(s.value, 5, d), bits |-> (s.bits + 5) - 8,
            out |-> Append(s.out, BitsAt(ShiftIn(s.value, 5, d), (s.bits + 5) - 8, 8))]
BY DEF TakeDigit

LEMMA TakeDigitType ==
  ASSUME NEW s \in LoopState, s.bits \in 0..7, NEW d \in Nat
  PROVE  LET t == TakeDigit(s, d)
             value == ShiftIn(s.value, 5, d)
         IN  /\ t \in LoopState /\ t.value = value
             /\ s.bits < 3 => t.bits = s.bits + 5 /\ t.out = s.out
             /\ s.bits >= 3 => /\ t.bits = s.bits - 3 /\ BitsAt(value, s.bits - 3, 8) \in Byte
                               /\ t.out = Append(s.out, BitsAt(value, s.bits - 3, 8))
<1>. DEFINE b == s.bits
            value == ShiftIn(s.value, 5, d)
            t == TakeDigit(s, d)
<1>1. value \in Nat
  <2>. DEFINE n == s.value * Pow2[5] + d
  <2>1. n \in Nat
    <3>1. s.value \in Nat
      BY DEF LoopState
    <3>. QED BY <3>1, PowersOfTwo
  <2>2. value = n % Word
    BY DEF ShiftIn
  <2>. HIDE DEF n, value
  <2>. QED BY <2>1, <2>2, WordKeepsBits
<1>2. CASE b < 3
  <2>1. t = [value |-> value, bits |-> b + 5, out |-> s.out]
    BY <1>2 DEF TakeDigit, LoopState
  <2>. HIDE DEF value, t
  <2>2. t \in LoopState /\ t.value = value /\ t.bits = b + 5 /\ t.out = s.out
    BY <1>1, <2>1 DEF LoopState
  <2>. QED BY <1>2, <2>2 DEF t, value
<1>3. CASE b >= 3
  <2>. DEFINE byte == BitsAt(value, b - 3, 8)
  <2>1. byte \in Byte
    <3>. DEFINE rest == value \div Pow2[b - 3]
    <3>1. Pow2[b - 3] \in Nat /\ Pow2[b - 3] > 0
      <4>1. b = 3 \/ b = 4 \/ b = 5 \/ b = 6 \/ b = 7
        BY <1>3
      <4>. HIDE DEF b
      <4>. QED BY <4>1, PowersOfTwo
    <3>2. rest \in Nat
      <4>. HIDE DEF value, b
      <4>. QED BY <1>1, <3>1, Division
    <3>3. byte = rest % 256
      BY PowersOfTwo DEF BitsAt
    <3>. HIDE DEF rest, byte
    <3>. QED BY <3>2, <3>3 DEF Byte
  <2>2. t = [value |-> value, bits |-> b - 3, out |-> Append(s.out, byte)]
    <3>. DEFINE n == s.bits + 5 - 8
    <3>1. ~(s.bits + 5 < 8) /\ n = b - 3
      BY <1>3
    <3>2. t = [value |-> value, bits |-> n, out |-> Append(s.out, BitsAt(value, n, 8))]
      BY <3>1, TakeDigitPutsOut
    <3>. HIDE DEF value, n, t
    <3>. QED BY <3>1, <3>2
  <2>. HIDE DEF value, t, byte
  <2>3. Append(s.out, byte) \in Seq(Byte) /\ b - 3 \in Nat
    BY <1>3, <2>1, AppendProperties DEF LoopState
  <2>4. t \in LoopState /\ t.value = value /\ t.bits = b - 3 /\ t.out = Append(s.out, byte)
    BY <1>1, <2>2, <2>3 DEF LoopState
  <2>. QED BY <1>3, <2>1, <2>4 DEF t, value, byte
<1>. QED BY <1>2, <1>3

\* The digit is the next five bits of the row: those of x that are still to come, and y's.
LEMMA DigitTaken ==
  ASSUME NEW s \in LoopState, s.bits \in 0..7, NEW x \in Byte, NEW y \in Byte,
         s.value % Pow2[s.bits] = x \div Pow2[8 - s.bits]
  PROVE  LET t == TakeDigit(s, ((256 * x + y) \div Pow2[11 - s.bits]) % 32)
         IN  /\ t \in LoopState
             /\ s.bits < 3 => /\ t.bits = s.bits + 5 /\ t.out = s.out
                              /\ t.value % Pow2[t.bits] = x \div Pow2[8 - t.bits]
             /\ s.bits >= 3 => /\ t.bits = s.bits - 3 /\ t.out = Append(s.out, x)
                               /\ t.value % Pow2[t.bits] = y \div Pow2[8 - t.bits]
<1>. DEFINE b == s.bits
            v == s.value
            d == ((256 * x + y) \div Pow2[11 - b]) % 32
            t == TakeDigit(s, d)
            w == ShiftIn(v, 5, d)
<1>1. d \in Nat /\ v \in Nat
  <2>1. Pow2[11 - b] \in Nat /\ Pow2[11 - b] > 0
    <3>1. b = 0 \/ b = 1 \/ b = 2 \/ b = 3 \/ b = 4 \/ b = 5 \/ b = 6 \/ b = 7
      OBVIOUS
    <3>. HIDE DEF b
    <3>. QED BY <3>1, PowersOfTwo
  <2>2. 256 * x + y \in Nat
    BY DEF Byte
  <2>3. (256 * x + y) \div Pow2[11 - b] \in Nat
    <3>. HIDE DEF b
    <3>. QED BY <2>1, <2>2, Division
  <2>. HIDE DEF b
  <2>. QED BY <2>3 DEF LoopState
<1>2. w \in Nat /\ \E p \in Nat : 32 * v + d = 8192 * p + w
  <2>. HIDE DEF d
  <2>. DEFINE n == v * Pow2[5] + d
  <2>1. n = 32 * v + d /\ n \in Nat
    BY <1>1, PowersOfTwo
  <2>2. w = n % Word
    BY DEF ShiftIn
  <2>. HIDE DEF n, w, v
  <2>. QED BY <2>1, <2>2, WordKeepsBits
<1>3. /\ t \in LoopState /\ t.value = w
      /\ b < 3 => t.bits = b + 5 /\ t.out = s.out
      /\ b >= 3 => t.bits = b - 3 /\ t.out = Append(s.out, BitsAt(w, b - 3, 8))
  <2>. HIDE DEF d
  <2>. QED BY <1>1, TakeDigitType
<1>4. v % Pow2[b] = x \div Pow2[8 - b] /\ d = ((256 * x + y) \div Pow2[11 - b]) % 32 /\ b \in 0..7
  OBVIOUS
<1>. HIDE DEF d, w, t, b, v
<1>5. ASSUME b < 3
      PROVE  w % Pow2[b + 5] = x \div Pow2[8 - (b + 5)]
  <2>. DEFINE P == Pow2[b]
              Q == Pow2[8 - b]
              S == Pow2[8 - (b + 5)]
  <2>1. /\ \/ (P = 1 /\ Q = 256 /\ S = 8) \/ (P = 2 /\ Q = 128 /\ S = 4) \/ (P = 4 /\ Q = 64 /\ S = 2)
        /\ Pow2[b + 5] = 32 * P /\ Pow2[11 - b] = 8 * Q
    <3>1. b = 0 \/ b = 1 \/ b = 2
      BY <1>4, <1>5
    <3>. QED BY <3>1, PowersOfTwo
  <2>2. P \in Nat /\ Q \in Nat /\ S \in Nat
    <3>. HIDE DEF P, Q, S
    <3>. QED BY <2>1
  <2>3. v % P = x \div Q /\ d = ((256 * x + y) \div (8 * Q)) % 32
    BY <1>4, <2>1
  <2>. HIDE DEF P, Q, S
  <2>4. Takes(P, Q, v, d, x, y, w)
    BY <1>1, <1>2, <2>2, <2>3 DEF Takes
  <2>5. w % (32 * P) = x \div S
    BY <2>1, <2>2, <2>4, DigitKept
  <2>. QED BY <2>1, <2>5 DEF S
<1>6. ASSUME b >= 3
      PROVE  BitsAt(w, b - 3, 8) = x /\ w % Pow2[b - 3] = y \div Pow2[8 - (b - 3)]
  <2>. DEFINE R == Pow2[b - 3]
              Q == Pow2[8 - b]
  <2>1. /\ \/ (R = 1 /\ Q = 32) \/ (R = 2 /\ Q = 16) \/ (R = 4 /\ Q = 8)
           \/ (R = 8 /\ Q = 4) \/ (R = 16 /\ Q = 2)
        /\ Pow2[b] = 8 * R /\ Pow2[11 - b] = 8 * Q /\ Pow2[8 - (b - 3)] = 8 * Q
    <3>1. b = 3 \/ b = 4 \/ b = 5 \/ b = 6 \/ b = 7
      BY <1>4, <1>6
    <3>. QED BY <3>1, PowersOfTwo
  <2>2. R \in Nat /\ Q \in Nat
    <3>. HIDE DEF R, Q
    <3>. QED BY <2>1
  <2>3. v % (8 * R) = x \div Q /\ d = ((256 * x + y) \div (8 * Q)) % 32
    BY <1>4, <2>1
  <2>4. BitsAt(w, b - 3, 8) = (w \div R) % 256
    BY PowersOfTwo DEF BitsAt
  <2>. HIDE DEF R, Q
  <2>5. Takes(8 * R, Q, v, d, x, y, w)
    BY <1>1, <1>2, <2>2, <2>3 DEF Takes
  <2>6. (w \div R) % 256 = x /\ w % R = y \div (8 * Q)
    BY <2>1, <2>2, <2>5, DigitCompletes
  <2>. QED BY <2>1, <2>4, <2>6 DEF R
<1>. QED BY <1>3, <1>5, <1>6 DEF t, d, b, v

LEMMA EmptyType == Empty \in LoopState /\ Empty.value = 0 /\ Empty.bits = 0 /\ Empty.out = <<>>
<1>1. <<>> \in Seq(Byte)
  OBVIOUS
<1>. QED BY <1>1 DEF Empty, LoopState

LEMMA RowOfBytes ==
  ASSUME NEW bytes \in Seq(Byte), NEW j
  PROVE  ByteOrZero(bytes, j) \in Byte
<1>1. CASE j \in DOMAIN bytes
  <2>1. bytes[j] \in Byte
    BY <1>1, ElementOfSeq
  <2>. QED BY <1>1, <2>1 DEF ByteOrZero
<1>2. CASE j \notin DOMAIN bytes
  BY <1>2 DEF ByteOrZero, Byte
<1>. QED BY <1>1, <1>2

\* How many bytes are complete after n digits, and how many bits are waiting.
LEMMA CompleteBytes ==
  ASSUME NEW n \in Nat
  PROVE  /\ (5 * n) \div 8 \in Nat /\ (5 * n) % 8 \in 0..7
         /\ (5 * n) % 8 < 3 => /\ (5 * (n + 1)) % 8 = ((5 * n) % 8) + 5
                               /\ (5 * (n + 1)) \div 8 = (5 * n) \div 8
         /\ (5 * n) % 8 >= 3 => /\ (5 * (n + 1)) % 8 = ((5 * n) % 8) - 3
                                /\ (5 * (n + 1)) \div 8 = ((5 * n) \div 8) + 1
OBVIOUS

\* After n digits of a row of bytes, those bytes are out that they complete, and the bits that
\* wait are the first of the next one.
HasDecoded(s, bytes, n) ==
  LET complete == (5 * n) \div 8 IN
  /\ s \in LoopState /\ s.bits = (5 * n) % 8
  /\ Len(s.out) = complete /\ \A j \in 1..complete : s.out[j] = ByteOrZero(bytes, j)
  /\ s.value % Pow2[s.bits] = ByteOrZero(bytes, complete + 1) \div Pow2[8 - s.bits]

LEMMA DecodesRow ==
  ASSUME NEW bytes \in Seq(Byte), NEW s, NEW n \in Nat, HasDecoded(s, bytes, n)
  PROVE  HasDecoded(TakeDigit(s, FiveBits(bytes, 5 * n)), bytes, n + 1)
<1>. DEFINE c == (5 * n) \div 8
            b == (5 * n) % 8
            x == ByteOrZero(bytes, c + 1)
            y == ByteOrZero(bytes, (c + 1) + 1)
            t == TakeDigit(s, FiveBits(bytes, 5 * n))
            c1 == (5 * (n + 1)) \div 8
            b1 == (5 * (n + 1)) % 8
<1>1. /\ c \in Nat /\ b \in 0..7
      /\ b < 3 => b1 = b + 5 /\ c1 = c
      /\ b >= 3 => b1 = b - 3 /\ c1 = c + 1
  BY CompleteBytes
<1>2. FiveBits(bytes, 5 * n) = ((256 * x + y) \div Pow2[11 - b]) % 32
  BY DEF FiveBits
<1>3. x \in Byte /\ y \in Byte
  BY RowOfBytes
<1>4. /\ s \in LoopState /\ s.bits = b
      /\ Len(s.out) = c /\ \A j \in 1..c : s.out[j] = ByteOrZero(bytes, j)
      /\ s.value % Pow2[b] = x \div Pow2[8 - b]
  BY DEF HasDecoded
<1>5. SUFFICES /\ t \in LoopState /\ t.bits = b1
               /\ Len(t.out) = c1 /\ \A j \in 1..c1 : t.out[j] = ByteOrZero(bytes, j)
               /\ t.value % Pow2[b1] = ByteOrZero(bytes, c1 + 1) \div Pow2[8 - b1]
  BY DEF HasDecoded
<1>6. t = TakeDigit(s, ((256 * x + y) \div Pow2[11 - s.bits]) % 32)
  BY <1>2, <1>4
<1>. DEFINE first == c + 1
            second == (c + 1) + 1
<1>7. x = ByteOrZero(bytes, first) /\ y = ByteOrZero(bytes, second)
      /\ first = c + 1 /\ second = c + 2
  BY <1>1
<1>. HIDE DEF c, b, x, y, c1, b1, t, first, second
<1>8. /\ t \in LoopState
      /\ b < 3 => /\ t.bits = b + 5 /\ t.out = s.out
                  /\ t.value % Pow2[t.bits] = x \div Pow2[8 - t.bits]
      /\ b >= 3 => /\ t.bits = b - 3 /\ t.out = Append(s.out, x)
                   /\ t.value % Pow2[t.bits] = y \div Pow2[8 - t.bits]
  <2>1. s.bits \in 0..7 /\ s.value % Pow2[s.bits] = x \div Pow2[8 - s.bits]
    BY <1>1, <1>4
  <2>. DEFINE u == TakeDigit(s, ((256 * x + y) \div Pow2[11 - s.bits]) % 32)
  <2>2. /\ u \in LoopState
        /\ s.bits < 3 => /\ u.bits = s.bits + 5 /\ u.out = s.out
                         /\ u.value % Pow2[u.bits] = x \div Pow2[8 - u.bits]
        /\ s.bits >= 3 => /\ u.bits = s.bits - 3 /\ u.out = Append(s.out, x)
                          /\ u.value % Pow2[u.bits] = y \div Pow2[8 - u.bits]
    <3>1. s \in LoopState
      BY <1>4
    <3>. QED BY <1>3, <2>1, <3>1, DigitTaken
  <2>3. t = u
    BY <1>6
  <2>. HIDE DEF u
  <2>. QED BY <1>4, <2>2, <2>3
<1>9. CASE b < 3
  <2>1. b1 = b + 5 /\ c1 = c /\ c1 + 1 = first
    BY <1>1, <1>7, <1>9
  <2>. QED BY <1>4, <1>7, <1>8, <1>9, <2>1
<1>10. CASE b >= 3
  <2>1. b1 = b - 3 /\ c1 = first /\ c1 + 1 = second
    BY <1>1, <1>7, <1>10
  <2>2. t.out = Append(s.out, x) /\ s.out \in Seq(Byte)
    BY <1>4, <1>8, <1>10 DEF LoopState
  <2>3. /\ Len(t.out) = c + 1 /\ t.out[c + 1] = x
        /\ \A j \in 1..c : t.out[j] = s.out[j]
    BY <1>3, <1>4, <2>2, AppendProperties
  <2>4. ASSUME NEW j \in 1..c1
        PROVE  t.out[j] = ByteOrZero(bytes, j)
    <3>1. CASE j = first
      BY <1>7, <2>3, <3>1
    <3>2. CASE j # first
      <4>1. j \in 1..c
        BY <1>1, <1>7, <2>1, <3>2
      <4>. QED BY <1>4, <2>3, <4>1
    <3>. QED BY <3>1, <3>2
  <2>. QED BY <1>7, <1>8, <1>10, <2>1, <2>3, <2>4
<1>. QED BY <1>1, <1>9, <1>10

\* What Go encodes, the browser decodes: base32 of any bytes, there and back.
THEOREM DecodesWhatGoEncodes ==
  ASSUME NEW bytes \in Seq(Byte)
  PROVE  DecodeBase32(GoBase32(bytes)) = bytes
<1>. DEFINE m == Len(bytes)
            g == GoBase32(bytes)
            N == GoDigits(m)
            T == {n \in Nat : HasDecoded(TakeDigits(g)[n], bytes, n)}
<1>1. m \in Nat /\ DOMAIN bytes = 1..m
  BY LenProperties
<1>2. N \in Nat /\ (5 * N) \div 8 = m
  <2>1. N = (8 * m + 4) \div 5
    BY DEF GoDigits
  <2>. HIDE DEF N, m
  <2>. QED BY <1>1, <2>1
<1>3. g = [i \in 1..N |-> FiveBits(bytes, 5 * (i - 1))]
  BY DEF GoBase32
<1>. HIDE DEF N, g
<1>4. Len(g) = N
  BY <1>2, <1>3
<1>5. 0 \in T
  <2>1. TakeDigits(g)[0] = Empty
    BY <1>2, <1>4, TakeDigitsUnfolds
  <2>2. HasDecoded(Empty, bytes, 0)
    <3>. DEFINE x == ByteOrZero(bytes, 1)
    <3>1. x \in Byte
      BY RowOfBytes
    <3>2. x \div 256 = 0
      <4>. HIDE DEF x
      <4>. QED BY <3>1 DEF Byte
    <3>3. (5 * 0) \div 8 = 0 /\ (5 * 0) % 8 = 0 /\ 8 - 0 = 8 /\ 0 + 1 = 1 /\ 0 % 1 = 0
      OBVIOUS
    <3>. HIDE DEF x
    <3>. QED BY <3>2, <3>3, EmptyType, PowersOfTwo DEF HasDecoded, x
  <2>. QED BY <2>1, <2>2
<1>6. ASSUME NEW n \in 0..(N - 1), n \in T PROVE n + 1 \in T
  <2>1. n \in Nat /\ n + 1 \in Nat /\ n + 1 \in 1..N /\ (n + 1) - 1 = n
    BY <1>2
  <2>2. g[n + 1] = FiveBits(bytes, 5 * n)
    BY <1>3, <2>1
  <2>3. TakeDigits(g)[n + 1] = TakeDigit(TakeDigits(g)[n], g[n + 1])
    BY <1>2, <1>4, <2>1, TakeDigitsUnfolds
  <2>. QED BY <1>6, <2>1, <2>2, <2>3, DecodesRow
<1>. HIDE DEF T
<1>7. N \in T
  <2>1. \A n \in 0..N : n \in T
    BY <1>2, <1>5, <1>6, UpTo
  <2>. QED BY <1>2, <2>1
<1>8. HasDecoded(TakeDigits(g)[N], bytes, N)
  BY <1>7 DEF T
<1>. DEFINE out == TakeDigits(g)[N].out
<1>9. out \in Seq(Byte) /\ Len(out) = m /\ \A j \in 1..m : out[j] = bytes[j]
  BY <1>1, <1>2, <1>8 DEF HasDecoded, LoopState, ByteOrZero
<1>. HIDE DEF out
<1>10. out = bytes
  BY <1>1, <1>9, SeqEqual
<1>. QED BY <1>4, <1>10 DEF DecodeBase32, out, g

\* A ticket that is cut decodes, if at all, to fewer bytes.
LEMMA DecodedLength ==
  ASSUME NEW digits, Len(digits) \in Nat, \A i \in 1..Len(digits) : digits[i] \in Nat
  PROVE  DecodeBase32(digits) \in Seq(Byte) /\ Len(DecodeBase32(digits)) = (5 * Len(digits)) \div 8
<1>. DEFINE N == Len(digits)
            s(n) == TakeDigits(digits)[n]
            Right(n) == /\ s(n) \in LoopState /\ s(n).bits = (5 * n) % 8
                        /\ Len(s(n).out) = (5 * n) \div 8
            T == {n \in Nat : Right(n)}
<1>1. 0 \in T
  <2>1. s(0) = Empty
    BY TakeDigitsUnfolds
  <2>2. Len(<<>>) = 0 /\ (5 * 0) % 8 = 0 /\ (5 * 0) \div 8 = 0
    OBVIOUS
  <2>3. Right(0)
    BY <2>1, <2>2, EmptyType
  <2>. QED BY <2>3
<1>2. ASSUME NEW n \in 0..(N - 1), n \in T PROVE n + 1 \in T
  <2>. DEFINE a == s(n)
              t == s(n + 1)
              d == digits[n + 1]
              b == (5 * n) % 8
              c == (5 * n) \div 8
  <2>1. n \in Nat /\ n + 1 \in Nat /\ n + 1 \in 1..N /\ (n + 1) - 1 = n
    OBVIOUS
  <2>2. t = TakeDigit(a, d) /\ d \in Nat
    BY <2>1, TakeDigitsUnfolds
  <2>3. a \in LoopState /\ a.bits = b /\ Len(a.out) = c
    BY <1>2
  <2>4. /\ c \in Nat /\ b \in 0..7
        /\ b < 3 => (5 * (n + 1)) % 8 = b + 5 /\ (5 * (n + 1)) \div 8 = c
        /\ b >= 3 => (5 * (n + 1)) % 8 = b - 3 /\ (5 * (n + 1)) \div 8 = c + 1
    BY <2>1, CompleteBytes
  <2>. HIDE DEF a, t, d, b, c
  <2>5. /\ t \in LoopState
        /\ a.bits < 3 => t.bits = a.bits + 5 /\ t.out = a.out
        /\ a.bits >= 3 => /\ t.bits = a.bits - 3
                          /\ \E byte \in Byte : t.out = Append(a.out, byte)
    <3>1. a.bits \in 0..7
      BY <2>3, <2>4
    <3>. QED BY <2>2, <2>3, <3>1, TakeDigitType
  <2>6. \A byte \in Byte : Len(Append(a.out, byte)) = c + 1
    BY <2>3, AppendProperties DEF LoopState
  <2>7. t \in LoopState /\ t.bits = (5 * (n + 1)) % 8 /\ Len(t.out) = (5 * (n + 1)) \div 8
    <3>1. CASE b < 3
      BY <2>3, <2>4, <2>5, <3>1
    <3>2. CASE b >= 3
      BY <2>3, <2>4, <2>5, <2>6, <3>2
    <3>. QED BY <2>4, <3>1, <3>2
  <2>. QED BY <2>1, <2>7 DEF t
<1>. HIDE DEF T
<1>3. N \in T
  <2>1. \A n \in 0..N : n \in T
    BY <1>1, <1>2, UpTo
  <2>. QED BY <2>1
<1>4. Right(N)
  BY <1>3 DEF T
<1>. QED BY <1>4 DEF DecodeBase32, LoopState

-----------------------------------------------------------------------------
(* Bytes become digits. *)

LEMMA PowersAbout ==
  ASSUME NEW b \in 0..4
  PROVE  /\ b > 0 => /\ \/ (Pow2[b] = 2 /\ Pow2[5 - b] = 16) \/ (Pow2[b] = 4 /\ Pow2[5 - b] = 8)
                        \/ (Pow2[b] = 8 /\ Pow2[5 - b] = 4) \/ (Pow2[b] = 16 /\ Pow2[5 - b] = 2)
                     /\ Pow2[b + 3] = 8 * Pow2[b]
<1>1. CASE b = 0
  BY <1>1
<1>2. CASE b = 1
  BY <1>2, PowersOfTwo
<1>3. CASE b = 2
  BY <1>3, PowersOfTwo
<1>4. CASE b = 3
  BY <1>4, PowersOfTwo
<1>5. CASE b = 4
  BY <1>5, PowersOfTwo
<1>. QED BY <1>1, <1>2, <1>3, <1>4, <1>5

LEMMA PowersBelow ==
  ASSUME NEW e \in 0..7
  PROVE  Pow2[11 - e] \in Nat /\ Pow2[11 - e] > 0
<1>1. e = 0 \/ e = 1 \/ e = 2 \/ e = 3 \/ e = 4 \/ e = 5 \/ e = 6 \/ e = 7
  OBVIOUS
<1>. QED BY <1>1, PowersOfTwo

\* The number v, whose last bits are those of byte x - P is one more than the most they can
\* be - takes byte y and becomes w.
Follows(P, v, x, y, w) ==
  /\ v \in Nat /\ x \in Byte /\ y \in Byte /\ w \in Nat
  /\ \E p \in Nat : 256 * v + y = 8192 * p + w
  /\ v % P = x % P

\* Its last bits are y's.
LEMMA LastByte ==
  ASSUME NEW P, NEW v, NEW x, NEW y, NEW w, Follows(P, v, x, y, w)
  PROVE  \E u \in Int : w = 256 * u + y
<1>1. PICK p \in Nat : 256 * v + y = 8192 * p + w
  BY DEF Follows
<1>2. w = 256 * (v - 32 * p) + y /\ v - 32 * p \in Int
  BY <1>1 DEF Follows, Byte
<1>. QED BY <1>2

LEMMA LastBits ==
  ASSUME NEW w \in Nat, NEW y \in Byte, NEW u \in Int, w = 256 * u + y
  PROVE  /\ w % 1 = y % 1 /\ w % 2 = y % 2 /\ w % 4 = y % 4 /\ w % 8 = y % 8 /\ w % 16 = y % 16
         /\ (w \div 8) % 32 = y \div 8
         /\ (w \div 1) % 32 = (y \div 1) % 32 /\ (w \div 2) % 32 = (y \div 2) % 32
         /\ (w \div 4) % 32 = (y \div 4) % 32
<1>1. w % 1 = y % 1 /\ w % 2 = y % 2 /\ w % 4 = y % 4
  BY DEF Byte
<1>2. w % 8 = y % 8 /\ w % 16 = y % 16
  BY DEF Byte
<1>3. w \div 1 = 256 * u + y /\ y \div 1 = y /\ w \div 2 = 128 * u + (y \div 2)
  BY DEF Byte
<1>4. w \div 4 = 64 * u + (y \div 4) /\ w \div 8 = 32 * u + (y \div 8)
  BY DEF Byte
<1>5. ASSUME NEW n \in Nat
      PROVE  (256 * u + n) % 32 = n % 32 /\ (128 * u + n) % 32 = n % 32
             /\ (64 * u + n) % 32 = n % 32 /\ (32 * u + n) % 32 = n % 32
  OBVIOUS
<1>6. y \in Nat /\ y \div 2 \in Nat /\ y \div 4 \in Nat /\ y \div 8 \in 0..31 /\ (y \div 8) % 32 = y \div 8
  BY DEF Byte
<1>. QED BY <1>1, <1>2, <1>3, <1>4, <1>5, <1>6

\* A digit of the row that begins in byte y, with nothing of the byte after it.
LEMMA WithinByte ==
  ASSUME NEW y \in Byte, NEW z \in Byte
  PROVE  /\ ((256 * y + z) \div 2048) % 32 = y \div 8
         /\ ((256 * y + z) \div 256) % 32 = (y \div 1) % 32
         /\ ((256 * y + z) \div 512) % 32 = (y \div 2) % 32
         /\ ((256 * y + z) \div 1024) % 32 = (y \div 4) % 32
<1>1. (256 * y + z) \div 256 = y
  BY DEF Byte
<1>2. (256 * y + z) \div 512 = y \div 2
  BY DEF Byte
<1>3. (256 * y + z) \div 1024 = y \div 4
  BY DEF Byte
<1>4. (256 * y + z) \div 2048 = y \div 8 /\ (y \div 8) % 32 = y \div 8
  BY DEF Byte
<1>5. y \div 1 = y
  BY DEF Byte
<1>. QED BY <1>1, <1>2, <1>3, <1>4, <1>5

\* A digit of the row that begins with the last bits of x and ends in y.
LEMMA AcrossBytes ==
  ASSUME NEW P, NEW v, NEW x, NEW y, NEW w, Follows(P, v, x, y, w),
         P = 2 \/ P = 4 \/ P = 8 \/ P = 16
  PROVE  (w \div (8 * P)) % 32 = ((256 * x + y) \div (8 * P)) % 32
<1>0. PICK K \in Nat : (P = 2 /\ K = 16) \/ (P = 4 /\ K = 8) \/ (P = 8 /\ K = 4) \/ (P = 16 /\ K = 2)
  OBVIOUS
<1>. SUFFICES ASSUME v \in Nat, x \in Byte, y \in Byte, w \in Nat, v % P = x % P,
                     NEW p \in Nat, 256 * v + y = 8192 * p + w
              PROVE  (w \div (8 * P)) % 32 = ((256 * x + y) \div (8 * P)) % 32
  BY DEF Follows
<1>. DEFINE D == 8 * P
            r == x % P
            q == v \div P
            q2 == x \div P
            h == y \div D
            l == y % D
            m == K * r + h
<1>1. D \in Nat /\ D > 0 /\ P > 0 /\ P \in Nat
  BY <1>0
<1>2. x = P * q2 + r /\ q2 \in Nat /\ r \in Nat /\ r < P
  BY <1>1, Division DEF Byte
<1>3. v = P * q + r /\ q \in Nat
  BY <1>1, Division
<1>4. y = D * h + l /\ h \in Nat /\ l \in Nat /\ l < D
  <2>. HIDE DEF D
  <2>. QED BY <1>1, Division DEF Byte
<1>. HIDE DEF r, q, q2, h, l
<1>5. m \in 0..31
  <2>1. CASE P = 2 /\ K = 16
    BY <1>2, <1>4, <2>1 DEF Byte
  <2>2. CASE P = 4 /\ K = 8
    BY <1>2, <1>4, <2>2 DEF Byte
  <2>3. CASE P = 8 /\ K = 4
    BY <1>2, <1>4, <2>3 DEF Byte
  <2>4. CASE P = 16 /\ K = 2
    BY <1>2, <1>4, <2>4 DEF Byte
  <2>. QED BY <1>0, <2>1, <2>2, <2>3, <2>4
<1>. DEFINE u == 32 * (q - K * p) + m
            u2 == 32 * q2 + m
<1>6. w = D * u + l /\ 256 * x + y = D * u2 + l
  <2>1. CASE P = 2 /\ K = 16
    BY <1>2, <1>3, <1>4, <2>1
  <2>2. CASE P = 4 /\ K = 8
    BY <1>2, <1>3, <1>4, <2>2
  <2>3. CASE P = 8 /\ K = 4
    BY <1>2, <1>3, <1>4, <2>3
  <2>4. CASE P = 16 /\ K = 2
    BY <1>2, <1>3, <1>4, <2>4
  <2>. QED BY <1>0, <2>1, <2>2, <2>3, <2>4
<1>. HIDE DEF m
<1>7. u % 32 = m /\ u2 % 32 = m /\ u \in Int /\ u2 \in Int
  BY <1>2, <1>3, <1>5, Quotient
<1>. HIDE DEF u, u2, D
<1>8. w \div D = u /\ (256 * x + y) \div D = u2
  BY <1>1, <1>4, <1>6, <1>7, Quotient DEF Byte
<1>. QED BY <1>7, <1>8 DEF D

\* The bits left over at the end, with zeros behind them.
Pads(P, K, v, x, w) ==
  /\ P \in Nat /\ K \in Nat /\ v \in Nat /\ x \in Byte /\ w \in Nat /\ v % P = x % P
  /\ \E p \in Nat : K * v = 8192 * p + w
  /\ (P = 2 /\ K = 16) \/ (P = 4 /\ K = 8) \/ (P = 8 /\ K = 4) \/ (P = 16 /\ K = 2)

LEMMA PaddedBits ==
  ASSUME NEW P, NEW K, NEW v, NEW x, NEW w, Pads(P, K, v, x, w)
  PROVE  (w \div 1) % 32 = ((256 * x + 0) \div (8 * P)) % 32
<1>. SUFFICES ASSUME P \in Nat, K \in Nat, v \in Nat, x \in Byte, w \in Nat, v % P = x % P,
                     NEW p \in Nat, K * v = 8192 * p + w,
                     (P = 2 /\ K = 16) \/ (P = 4 /\ K = 8) \/ (P = 8 /\ K = 4) \/ (P = 16 /\ K = 2)
              PROVE  (w \div 1) % 32 = ((256 * x + 0) \div (8 * P)) % 32
  BY DEF Pads
<1>. DEFINE r == x % P
            q == v \div P
            q2 == x \div P
<1>1. x = P * q2 + r /\ q2 \in Nat /\ r \in Nat /\ r < P
  BY Division DEF Byte
<1>2. v = P * q + r /\ q \in Nat
  BY Division
<1>. HIDE DEF r, q, q2
<1>3. w = 32 * (q - 8 * 32 * p) + K * r /\ K * r \in 0..31 /\ (256 * x + 0) \div (8 * P) = 32 * q2 + K * r
  <2>1. CASE P = 2 /\ K = 16
    BY <1>1, <1>2, <2>1
  <2>2. CASE P = 4 /\ K = 8
    BY <1>1, <1>2, <2>2
  <2>3. CASE P = 8 /\ K = 4
    BY <1>1, <1>2, <2>3
  <2>4. CASE P = 16 /\ K = 2
    BY <1>1, <1>2, <2>4
  <2>. QED BY <2>1, <2>2, <2>3, <2>4
<1>. DEFINE k == K * r
<1>4. k \in 0..31 /\ w = 32 * (q - 8 * 32 * p) + k /\ (256 * x + 0) \div (8 * P) = 32 * q2 + k
  BY <1>3
<1>. HIDE DEF k
<1>5. w % 32 = k /\ (32 * q2 + k) % 32 = k /\ w \div 1 = w
  BY <1>1, <1>2, <1>4, Quotient
<1>. QED BY <1>4, <1>5

\* How many digits are complete after n bytes, and where in the row the next ones begin.
DigitsAt(n, b, c) == b = (8 * n) % 5 /\ c = (8 * n) \div 5

LEMMA CompleteDigits ==
  ASSUME NEW n \in Nat, NEW b, NEW c, DigitsAt(n, b, c)
  PROVE  /\ c \in Nat /\ b \in 0..4
         /\ (8 * (n + 1)) % 5 = (b + 8) % 5
         /\ b < 2 => (b + 8) \div 5 = 1 /\ (8 * (n + 1)) \div 5 = c + 1
         /\ b >= 2 => (b + 8) \div 5 = 2 /\ (8 * (n + 1)) \div 5 = c + 2
         /\ b = 0 => (5 * c) \div 8 = n /\ (5 * c) % 8 = 0 /\ (8 * n + 4) \div 5 = c
         /\ b > 0 => (5 * c) \div 8 = n - 1 /\ (5 * c) % 8 = 8 - b /\ (8 * n + 4) \div 5 = c + 1
         /\ b >= 2 => (5 * (c + 1)) \div 8 = n /\ (5 * (c + 1)) % 8 = 5 - b
<1>1. c \in Nat /\ b \in 0..4 /\ 8 * n = 5 * c + b
  BY DEF DigitsAt
<1>2. (8 * (n + 1)) % 5 = (b + 8) % 5
  BY DEF DigitsAt
<1>3. b < 2 => (b + 8) \div 5 = 1 /\ (8 * (n + 1)) \div 5 = c + 1
  BY <1>1
<1>4. b >= 2 => (b + 8) \div 5 = 2 /\ (8 * (n + 1)) \div 5 = c + 2
  BY <1>1
<1>5. b = 0 => (5 * c) \div 8 = n /\ (5 * c) % 8 = 0 /\ (8 * n + 4) \div 5 = c
  BY <1>1
<1>6. b > 0 => (5 * c) \div 8 = n - 1 /\ (5 * c) % 8 = 8 - b /\ (8 * n + 4) \div 5 = c + 1
  BY <1>1
<1>7. b >= 2 => (5 * (c + 1)) \div 8 = n /\ (5 * (c + 1)) % 8 = 5 - b
  BY <1>1
<1>. QED BY <1>1, <1>2, <1>3, <1>4, <1>5, <1>6, <1>7

DigitState == [value : Nat, bits : Nat, out : Seq(Digit)]

LEMMA FiveBitsType ==
  ASSUME NEW bytes \in Seq(Byte), NEW n \in Nat
  PROVE  FiveBits(bytes, n) \in Digit
<1>. DEFINE pair == 256 * ByteOrZero(bytes, (n \div 8) + 1) + ByteOrZero(bytes, (n \div 8) + 1 + 1)
            two == Pow2[11 - (n % 8)]
            q == pair \div two
<1>1. pair \in Nat
  <2>. DEFINE x == ByteOrZero(bytes, (n \div 8) + 1)
              y == ByteOrZero(bytes, (n \div 8) + 1 + 1)
  <2>1. x \in Byte /\ y \in Byte
    BY RowOfBytes
  <2>. HIDE DEF x, y
  <2>2. 256 * x + y \in Nat
    BY <2>1 DEF Byte
  <2>. QED BY <2>2 DEF x, y
<1>2. two \in Nat /\ two > 0
  <2>. DEFINE e == n % 8
  <2>1. e \in 0..7
    OBVIOUS
  <2>. HIDE DEF e
  <2>2. Pow2[11 - e] \in Nat /\ Pow2[11 - e] > 0
    BY <2>1, PowersBelow
  <2>. QED BY <2>2 DEF e
<1>3. FiveBits(bytes, n) = q % 32
  BY DEF FiveBits
<1>. HIDE DEF pair, two
<1>4. q \in Nat
  BY <1>1, <1>2, Division
<1>. HIDE DEF q
<1>. QED BY <1>3, <1>4 DEF Digit

\* After n bytes of the row, the digits are out that they complete, and the rest of the last
\* byte waits.
HasEncoded(s, bytes, n) ==
  LET complete == (8 * n) \div 5 IN
  /\ s \in DigitState /\ s.bits = (8 * n) % 5
  /\ Len(s.out) = complete /\ \A i \in 1..complete : s.out[i] = FiveBits(bytes, 5 * (i - 1))
  /\ s.value % Pow2[s.bits] = ByteOrZero(bytes, n) % Pow2[s.bits]

\* What one more byte makes of the number.
LEMMA ByteShiftedIn ==
  ASSUME NEW v \in Nat, NEW x \in Byte, NEW y \in Byte, NEW P, v % P = x % P
  PROVE  ShiftIn(v, 8, y) \in Nat /\ Follows(P, v, x, y, ShiftIn(v, 8, y))
<1>. DEFINE n == v * Pow2[8] + y
            w == ShiftIn(v, 8, y)
<1>1. n \in Nat /\ n = 256 * v + y
  BY PowersOfTwo DEF Byte
<1>2. w = n % Word
  BY DEF ShiftIn
<1>. HIDE DEF n, w
<1>3. w \in Nat /\ \E p \in Nat : n = 8192 * p + w
  BY <1>1, <1>2, WordKeepsBits
<1>4. Follows(P, v, x, y, w)
  BY <1>1, <1>3 DEF Follows
<1>. QED BY <1>3, <1>4 DEF w

\* The digits a byte completes are the next ones of the row.
LEMMA FirstDigit ==
  ASSUME NEW bytes \in Seq(Byte), NEW n \in Nat, NEW b, NEW c, DigitsAt(n, b, c),
         NEW v, NEW w,
         Follows(Pow2[b], v, ByteOrZero(bytes, n), ByteOrZero(bytes, n + 1), w)
  PROVE  BitsAt(w, b + 3, 5) = FiveBits(bytes, 5 * c)
<1>. DEFINE x == ByteOrZero(bytes, n)
            y == ByteOrZero(bytes, n + 1)
            z == ByteOrZero(bytes, n + 1 + 1)
<1>1. x \in Byte /\ y \in Byte /\ z \in Byte
  BY RowOfBytes
<1>2. /\ c \in Nat /\ b \in 0..4
      /\ b = 0 => (5 * c) \div 8 = n /\ (5 * c) % 8 = 0
      /\ b > 0 => (5 * c) \div 8 = n - 1 /\ (5 * c) % 8 = 8 - b
  BY CompleteDigits
<1>3. CASE b = 0
  <2>1. FiveBits(bytes, 5 * c) = ((256 * y + z) \div 2048) % 32
    <3>1. FiveBits(bytes, 5 * c) = ((256 * y + z) \div Pow2[11 - 0]) % 32
      BY <1>2, <1>3 DEF FiveBits
    <3>2. 11 - 0 = 11
      OBVIOUS
    <3>. QED BY <3>1, <3>2, PowersOfTwo
  <2>2. BitsAt(w, b + 3, 5) = (w \div 8) % 32
    <3>1. b + 3 = 3
      BY <1>3
    <3>. QED BY <3>1, PowersOfTwo DEF BitsAt
  <2>. HIDE DEF x, y, z
  <2>3. PICK u \in Int : w = 256 * u + y
    BY LastByte DEF x, y
  <2>4. w \in Nat
    BY DEF Follows
  <2>5. (w \div 8) % 32 = y \div 8
    BY <1>1, <2>3, <2>4, LastBits
  <2>6. ((256 * y + z) \div 2048) % 32 = y \div 8
    BY <1>1, WithinByte
  <2>. QED BY <2>1, <2>2, <2>5, <2>6
<1>4. CASE b > 0
  <2>. DEFINE P == Pow2[b]
              K == Pow2[5 - b]
  <2>1. /\ \/ (P = 2 /\ K = 16) \/ (P = 4 /\ K = 8) \/ (P = 8 /\ K = 4) \/ (P = 16 /\ K = 2)
        /\ Pow2[b + 3] = 8 * P
    <3>1. b \in 0..4
      BY <1>2
    <3>2. \/ (P = 2 /\ K = 16) \/ (P = 4 /\ K = 8) \/ (P = 8 /\ K = 4) \/ (P = 16 /\ K = 2)
      BY <1>4, <3>1, PowersAbout
    <3>3. Pow2[b + 3] = 8 * P
      BY <1>4, <3>1, PowersAbout
    <3>. QED BY <3>2, <3>3
  <2>2. FiveBits(bytes, 5 * c) = ((256 * x + y) \div (8 * P)) % 32
    <3>1. (5 * c) \div 8 + 1 = n /\ 11 - ((5 * c) % 8) = b + 3
      BY <1>2, <1>4
    <3>2. FiveBits(bytes, 5 * c) = ((256 * x + y) \div Pow2[b + 3]) % 32
      BY <3>1 DEF FiveBits
    <3>. QED BY <2>1, <3>2
  <2>3. BitsAt(w, b + 3, 5) = (w \div (8 * P)) % 32
    BY <2>1, PowersOfTwo DEF BitsAt
  <2>4. P \in Nat /\ K \in Nat /\ Follows(P, v, x, y, w)
    <3>1. P \in Nat /\ K \in Nat
      <4>. HIDE DEF P, K
      <4>. QED BY <2>1
    <3>. QED BY <3>1
  <2>. HIDE DEF P, K, x, y
  <2>5. (w \div (8 * P)) % 32 = ((256 * x + y) \div (8 * P)) % 32
    <3>1. P = 2 \/ P = 4 \/ P = 8 \/ P = 16
      BY <2>1
    <3>. QED BY <2>4, <3>1, AcrossBytes
  <2>. QED BY <2>2, <2>3, <2>5
<1>. QED BY <1>2, <1>3, <1>4

LEMMA SecondDigit ==
  ASSUME NEW bytes \in Seq(Byte), NEW n \in Nat, NEW b, NEW c, DigitsAt(n, b, c),
         b >= 2, NEW v, NEW w,
         Follows(Pow2[b], v, ByteOrZero(bytes, n), ByteOrZero(bytes, n + 1), w)
  PROVE  BitsAt(w, b - 2, 5) = FiveBits(bytes, 5 * (c + 1))
<1>. DEFINE x == ByteOrZero(bytes, n)
            y == ByteOrZero(bytes, n + 1)
            z == ByteOrZero(bytes, n + 1 + 1)
            e == Pow2[b - 2]
            f == Pow2[b + 6]
<1>1. y \in Byte /\ z \in Byte
  BY RowOfBytes
<1>2. b \in 0..4 /\ (5 * (c + 1)) \div 8 = n /\ (5 * (c + 1)) % 8 = 5 - b
  BY CompleteDigits
<1>3. (e = 1 /\ f = 256) \/ (e = 2 /\ f = 512) \/ (e = 4 /\ f = 1024)
  <2>1. b \in 0..4
    BY <1>2
  <2>2. CASE b = 2
    BY <2>2, PowersOfTwo
  <2>3. CASE b = 3
    BY <2>3, PowersOfTwo
  <2>4. CASE b = 4
    BY <2>4, PowersOfTwo
  <2>. QED BY <2>1, <2>2, <2>3, <2>4
<1>4. FiveBits(bytes, 5 * (c + 1)) = ((256 * y + z) \div f) % 32
  <2>1. 11 - ((5 * (c + 1)) % 8) = b + 6
    BY <1>2
  <2>. QED BY <1>2, <2>1 DEF FiveBits
<1>5. BitsAt(w, b - 2, 5) = (w \div e) % 32
  BY PowersOfTwo DEF BitsAt
<1>. HIDE DEF x, y, z, e, f
<1>6. PICK u \in Int : w = 256 * u + y
  BY LastByte DEF x, y
<1>7. w \in Nat
  BY DEF Follows
<1>8. /\ (w \div 1) % 32 = (y \div 1) % 32 /\ (w \div 2) % 32 = (y \div 2) % 32
      /\ (w \div 4) % 32 = (y \div 4) % 32
  <2>1. (w \div 1) % 32 = (y \div 1) % 32
    BY <1>1, <1>6, <1>7, LastBits
  <2>2. (w \div 2) % 32 = (y \div 2) % 32
    BY <1>1, <1>6, <1>7, LastBits
  <2>3. (w \div 4) % 32 = (y \div 4) % 32
    BY <1>1, <1>6, <1>7, LastBits
  <2>. QED BY <2>1, <2>2, <2>3
<1>9. /\ ((256 * y + z) \div 256) % 32 = (y \div 1) % 32
      /\ ((256 * y + z) \div 512) % 32 = (y \div 2) % 32
      /\ ((256 * y + z) \div 1024) % 32 = (y \div 4) % 32
  BY <1>1, WithinByte
<1>. QED BY <1>3, <1>4, <1>5, <1>8, <1>9

LEMMA TakeBytePutsOut ==
  ASSUME NEW s, NEW y
  PROVE  TakeByte(s, y) =
           [value |-> ShiftIn(s.value, 8, y), bits |-> (s.bits + 8) % 5,
            out |-> s.out \o [i \in 1..((s.bits + 8) \div 5) |->
                               BitsAt(ShiftIn(s.value, 8, y), (s.bits + 8) - 5 * i, 5)]]
BY DEF TakeByte

LEMMA EncodesRow ==
  ASSUME NEW bytes \in Seq(Byte), NEW s, NEW n \in Nat, HasEncoded(s, bytes, n)
  PROVE  HasEncoded(TakeByte(s, ByteOrZero(bytes, n + 1)), bytes, n + 1)
<1>. DEFINE b == s.bits
            c == (8 * n) \div 5
            b1 == (8 * (n + 1)) % 5
            c1 == (8 * (n + 1)) \div 5
            x == ByteOrZero(bytes, n)
            y == ByteOrZero(bytes, n + 1)
            w == ShiftIn(s.value, 8, y)
            k == (b + 8) \div 5
            new == [i \in 1..k |-> BitsAt(w, (b + 8) - 5 * i, 5)]
            t == TakeByte(s, y)
            five(i) == FiveBits(bytes, 5 * (i - 1))
<1>1. /\ s \in DigitState /\ b = (8 * n) % 5
      /\ Len(s.out) = c /\ \A i \in 1..c : s.out[i] = five(i)
      /\ s.value % Pow2[b] = x % Pow2[b]
  BY DEF HasEncoded
<1>2. SUFFICES /\ t \in DigitState /\ t.bits = b1
               /\ Len(t.out) = c1 /\ \A i \in 1..c1 : t.out[i] = five(i)
               /\ t.value % Pow2[b1] = y % Pow2[b1]
  BY DEF HasEncoded
<1>3. DigitsAt(n, b, c)
  BY <1>1 DEF DigitsAt
<1>4. t = [value |-> w, bits |-> (b + 8) % 5, out |-> s.out \o new]
  <2>. HIDE DEF y
  <2>. QED BY TakeBytePutsOut
<1>. HIDE DEF b, c
<1>5. /\ c \in Nat /\ b \in 0..4 /\ b1 = (b + 8) % 5
      /\ b < 2 => k = 1 /\ c1 = c + 1
      /\ b >= 2 => k = 2 /\ c1 = c + 2
  BY <1>3, CompleteDigits
<1>6. x \in Byte /\ y \in Byte
  BY RowOfBytes
<1>. HIDE DEF x, y, w, b1, c1, k, t
<1>7. w \in Nat /\ Follows(Pow2[b], s.value, x, y, w)
  BY <1>1, <1>6, ByteShiftedIn DEF w, DigitState
<1>8. BitsAt(w, b + 3, 5) = FiveBits(bytes, 5 * c)
  BY <1>3, <1>7, FirstDigit DEF x, y
<1>9. b >= 2 => BitsAt(w, b - 2, 5) = FiveBits(bytes, 5 * (c + 1))
  BY <1>3, <1>7, SecondDigit DEF x, y
<1>. HIDE DEF new
<1>10. k \in Nat /\ c1 = c + k /\ Len(new) = k /\ new \in Seq(Digit) /\ \A i \in 1..k : new[i] = five(c + i)
  <2>1. k \in Nat /\ c1 = c + k /\ (k = 1 \/ (k = 2 /\ b >= 2))
    BY <1>5
  <2>2. Len(new) = k /\ DOMAIN new = 1..k /\ \A i \in 1..k : new[i] = BitsAt(w, (b + 8) - 5 * i, 5)
    BY <2>1 DEF new
  <2>3. ASSUME NEW i \in 1..k
        PROVE  new[i] = five(c + i) /\ new[i] \in Digit
    <3>1. CASE i = 1
      <4>1. (b + 8) - 5 * i = b + 3 /\ (c + i) - 1 = c /\ 5 * c \in Nat
        BY <1>5, <3>1
      <4>. QED BY <1>8, <2>2, <4>1, FiveBitsType
    <3>2. CASE i = 2
      <4>1. (b + 8) - 5 * i = b - 2 /\ (c + i) - 1 = c + 1 /\ b >= 2 /\ 5 * (c + 1) \in Nat
        BY <1>5, <2>1, <3>2
      <4>. QED BY <1>9, <2>2, <4>1, FiveBitsType
    <3>. QED BY <2>1, <3>1, <3>2
  <2>4. new = [i \in 1..k |-> new[i]]
    BY <2>1 DEF new
  <2>5. new \in Seq(Digit)
    <3>. HIDE DEF five
    <3>. QED BY <2>1, <2>3, <2>4
  <2>. QED BY <2>1, <2>2, <2>3, <2>5
<1>. DEFINE out == s.out \o new
<1>11. out \in Seq(Digit) /\ Len(out) = c1 /\ \A i \in 1..c1 : out[i] = five(i)
  <2>1. /\ out \in Seq(Digit) /\ Len(out) = c + k
        /\ \A i \in 1..(c + k) : out[i] = IF i <= c THEN s.out[i] ELSE new[i - c]
    <3>1. s.out \in Seq(Digit)
      BY <1>1 DEF DigitState
    <3>2. Len(s.out) = c /\ Len(new) = k /\ new \in Seq(Digit)
      BY <1>1, <1>10
    <3>. HIDE DEF five
    <3>3. /\ out \in Seq(Digit) /\ Len(out) = Len(s.out) + Len(new)
          /\ \A i \in 1..(Len(s.out) + Len(new)) :
               out[i] = IF i <= Len(s.out) THEN s.out[i] ELSE new[i - Len(s.out)]
      BY <3>1, <3>2, ConcatProperties
    <3>. HIDE DEF out
    <3>. QED BY <3>2, <3>3
  <2>. HIDE DEF out
  <2>2. ASSUME NEW i \in 1..c1
        PROVE  out[i] = five(i)
    <3>1. CASE i <= c
      <4>1. i \in 1..c
        BY <1>5, <1>10, <3>1
      <4>. QED BY <1>1, <1>10, <2>1, <3>1, <4>1
    <3>2. CASE ~(i <= c)
      <4>1. i - c \in 1..k /\ c + (i - c) = i
        BY <1>5, <1>10, <3>2
      <4>. QED BY <1>10, <2>1, <3>2, <4>1
    <3>. QED BY <3>1, <3>2
  <2>. QED BY <1>10, <2>1, <2>2
<1>12. w % Pow2[b1] = y % Pow2[b1]
  <2>1. PICK u \in Int : w = 256 * u + y
    BY <1>7, LastByte
  <2>2. w % 1 = y % 1 /\ w % 2 = y % 2 /\ w % 4 = y % 4 /\ w % 8 = y % 8 /\ w % 16 = y % 16
    BY <1>6, <1>7, <2>1, LastBits
  <2>3. b1 = 0 \/ b1 = 1 \/ b1 = 2 \/ b1 = 3 \/ b1 = 4
    BY <1>5
  <2>. QED BY <2>2, <2>3, PowersOfTwo
<1>. HIDE DEF out, five
<1>13. t = [value |-> w, bits |-> b1, out |-> out]
  BY <1>4, <1>5 DEF out
<1>14. b1 \in Nat
  BY <1>5
<1>. QED BY <1>7, <1>11, <1>12, <1>13, <1>14 DEF DigitState

\* Go and the browser encode any bytes alike: no bit is lost at the end, or in the number the
\* browser shifts them through.
THEOREM EncodesAsGo ==
  ASSUME NEW bytes \in Seq(Byte)
  PROVE  EncodeBase32(bytes) = GoBase32(bytes)
<1>. DEFINE m == Len(bytes)
            g == GoBase32(bytes)
            s(n) == TakeBytes(bytes)[n]
            T == {n \in Nat : HasEncoded(s(n), bytes, n)}
            b == (8 * m) % 5
            c == (8 * m) \div 5
            x == ByteOrZero(bytes, m)
            N == GoDigits(m)
            e == EncodeBase32(bytes)
<1>1. m \in Nat /\ DOMAIN bytes = 1..m
  BY LenProperties
<1>2. 0 \in T
  <2>1. s(0) = Empty
    BY <1>1, TakeBytesUnfolds
  <2>2. Empty \in DigitState /\ Len(Empty.out) = 0
    <3>1. <<>> \in Seq(Digit) /\ Len(<<>>) = 0
      OBVIOUS
    <3>. QED BY <3>1 DEF Empty, DigitState
  <2>3. ByteOrZero(bytes, 0) = 0
    BY <1>1 DEF ByteOrZero
  <2>4. (8 * 0) \div 5 = 0 /\ (8 * 0) % 5 = 0
    OBVIOUS
  <2>5. HasEncoded(Empty, bytes, 0)
    BY <2>2, <2>3, <2>4, EmptyType DEF HasEncoded
  <2>. QED BY <2>1, <2>5
<1>3. ASSUME NEW n \in 0..(m - 1), n \in T PROVE n + 1 \in T
  <2>1. n \in Nat /\ n + 1 \in Nat /\ n + 1 \in 1..m /\ (n + 1) - 1 = n
    BY <1>1
  <2>2. ByteOrZero(bytes, n + 1) = bytes[n + 1]
    BY <1>1, <2>1 DEF ByteOrZero
  <2>3. s(n + 1) = TakeByte(s(n), bytes[n + 1])
    BY <1>1, <2>1, TakeBytesUnfolds
  <2>. QED BY <1>3, <2>1, <2>2, <2>3, EncodesRow
<1>. HIDE DEF T
<1>4. m \in T
  <2>1. \A n \in 0..m : n \in T
    BY <1>1, <1>2, <1>3, UpTo
  <2>. QED BY <1>1, <2>1
<1>. DEFINE a == s(m)
<1>5. /\ a \in DigitState /\ a.bits = b
      /\ Len(a.out) = c /\ \A i \in 1..c : a.out[i] = FiveBits(bytes, 5 * (i - 1))
      /\ a.value % Pow2[b] = x % Pow2[b]
  BY <1>4 DEF T, HasEncoded
<1>6. DigitsAt(m, b, c)
  BY DEF DigitsAt
<1>7. e = IF a.bits = 0 THEN a.out
          ELSE Append(a.out, BitsAt(ShiftIn(a.value, 5 - a.bits, 0), 0, 5))
  BY DEF EncodeBase32
<1>8. g = [i \in 1..N |-> FiveBits(bytes, 5 * (i - 1))] /\ N = (8 * m + 4) \div 5
  BY DEF GoBase32, GoDigits
<1>. HIDE DEF m, g, b, c, a, e, N
<1>9. /\ c \in Nat /\ b \in 0..4
      /\ b = 0 => N = c
      /\ b > 0 => /\ N = c + 1
                  /\ (5 * c) \div 8 = m - 1 /\ (5 * c) % 8 = 8 - b
  BY <1>1, <1>6, <1>8, CompleteDigits
<1>10. g \in Seq(Digit) /\ Len(g) = N /\ DOMAIN g = 1..N /\ N \in Nat
  <2>1. N \in Nat
    BY <1>9
  <2>2. \A i \in 1..N : 5 * (i - 1) \in Nat
    BY <2>1
  <2>3. \A i \in 1..N : FiveBits(bytes, 5 * (i - 1)) \in Digit
    BY <2>2, FiveBitsType
  <2>. QED BY <1>8, <2>1, <2>3
<1>11. a.out \in Seq(Digit)
  BY <1>5 DEF DigitState
<1>12. CASE b = 0
  <2>1. e = a.out
    BY <1>5, <1>7, <1>12
  <2>2. \A i \in 1..N : e[i] = g[i]
    BY <1>5, <1>8, <1>9, <1>12, <2>1
  <2>. QED BY <1>5, <1>9, <1>10, <1>11, <1>12, <2>1, <2>2, SeqEqual DEF e, g
<1>13. CASE b > 0
  <2>. DEFINE P == Pow2[b]
              K == Pow2[5 - b]
              n == a.value * K + 0
              w == ShiftIn(a.value, 5 - b, 0)
              d == BitsAt(w, 0, 5)
  <2>1. \/ (P = 2 /\ K = 16) \/ (P = 4 /\ K = 8) \/ (P = 8 /\ K = 4) \/ (P = 16 /\ K = 2)
    BY <1>9, <1>13, PowersAbout
  <2>2. Pow2[b + 3] = 8 * P
    BY <1>9, <1>13, PowersAbout
  <2>3. w = n % Word
    BY DEF ShiftIn
  <2>4. x \in Byte
    BY RowOfBytes
  <2>5. a.value \in Nat /\ a.value % P = x % P
    BY <1>5 DEF DigitState
  <2>6. d = (w \div 1) % 32
    BY PowersOfTwo DEF BitsAt
  <2>7. FiveBits(bytes, 5 * c) = ((256 * x + 0) \div (8 * P)) % 32
    <3>1. (5 * c) \div 8 + 1 = m /\ 11 - ((5 * c) % 8) = b + 3 /\ m + 1 \notin 1..m
      BY <1>1, <1>9, <1>13
    <3>2. ByteOrZero(bytes, m + 1) = 0
      BY <1>1, <3>1 DEF ByteOrZero
    <3>3. FiveBits(bytes, 5 * c) = ((256 * x + 0) \div Pow2[b + 3]) % 32
      BY <3>1, <3>2 DEF FiveBits
    <3>. QED BY <2>2, <3>3
  <2>. HIDE DEF P, K, w, x, d
  <2>8. n = K * a.value /\ P \in Nat /\ K \in Nat
    BY <2>1, <2>5
  <2>9. n \in Nat
    BY <2>1, <2>5
  <2>. HIDE DEF n
  <2>10. w \in Nat /\ \E p \in Nat : n = 8192 * p + w
    BY <2>3, <2>9, WordKeepsBits
  <2>11. (w \div 1) % 32 = ((256 * x + 0) \div (8 * P)) % 32
    <3>1. Pads(P, K, a.value, x, w)
      BY <2>1, <2>4, <2>5, <2>8, <2>10 DEF Pads
    <3>. QED BY <3>1, PaddedBits
  <2>12. d = FiveBits(bytes, 5 * c)
    BY <2>6, <2>7, <2>11
  <2>13. e = Append(a.out, d)
    BY <1>5, <1>7, <1>13 DEF d, w
  <2>14. d \in Digit
    <3>1. 5 * c \in Nat
      BY <1>9
    <3>. QED BY <2>12, <3>1, FiveBitsType
  <2>15. /\ e \in Seq(Digit) /\ Len(e) = c + 1 /\ e[c + 1] = d
         /\ \A i \in 1..c : e[i] = a.out[i]
    BY <1>5, <1>11, <2>13, <2>14, AppendProperties
  <2>16. ASSUME NEW i \in 1..N
         PROVE  e[i] = g[i]
    <3>1. g[i] = FiveBits(bytes, 5 * (i - 1))
      BY <1>8
    <3>2. CASE i = c + 1
      <4>1. i - 1 = c
        BY <1>9, <3>2
      <4>. QED BY <2>12, <2>15, <3>1, <3>2, <4>1
    <3>3. CASE i # c + 1
      <4>1. i \in 1..c
        BY <1>9, <1>13, <3>3
      <4>. QED BY <1>5, <2>15, <3>1, <4>1
    <3>. QED BY <3>2, <3>3
  <2>. QED BY <1>9, <1>10, <1>13, <2>15, <2>16, SeqEqual DEF e, g
<1>. QED BY <1>9, <1>12, <1>13

-----------------------------------------------------------------------------
(* Keys. *)

Key == [1..KeySize -> Byte]
Shared == [root : Roots, kind : {"none", "root", "viewer"}]

\* What the host's ticket carries.
HostKey ==
  IF shared.kind = "none" THEN NoKey
  ELSE [key |-> IF shared.kind = "root" THEN shared.root ELSE HostKeys.reading,
        kind |-> shared.kind]

LEMMA KeyIsBytes ==
  ASSUME NEW key \in Key
  PROVE  key \in Seq(Byte) /\ Len(key) = KeySize /\ DOMAIN key = 1..KeySize /\ key # <<>>
<1>1. KeySize \in Nat \ {0}
  BY LinkAssumption
<1>2. key \in Seq(Byte)
  BY <1>1, SeqDef DEF Key
<1>3. DOMAIN key = 1..KeySize /\ 1 \in 1..KeySize
  BY <1>1 DEF Key
<1>4. Len(key) = KeySize
  BY <1>1, <1>2, <1>3, LenProperties
<1>. QED BY <1>1, <1>2, <1>3, <1>4

LEMMA DerivedKey ==
  ASSUME NEW key \in Key, NEW session, NEW info
  PROVE  Derive(session, key, info) \in Key
<1>. DEFINE shift == (IF info = "host to guest" THEN 100 ELSE 50) + (IF session = "s" THEN 0 ELSE 25)
<1>1. shift \in Nat
  <2>. DEFINE a == IF info = "host to guest" THEN 100 ELSE 50
              b == IF session = "s" THEN 0 ELSE 25
  <2>1. a \in Nat /\ b \in Nat
    OBVIOUS
  <2>. HIDE DEF a, b
  <2>2. a + b \in Nat
    BY <2>1
  <2>. QED BY <2>2 DEF a, b
<1>2. Derive(session, key, info) = [i \in 1..KeySize |-> (key[i] + shift) % 256]
  BY KeyIsBytes DEF Derive
<1>. HIDE DEF shift
<1>3. ASSUME NEW i \in 1..KeySize
      PROVE  (key[i] + shift) % 256 \in Byte
  <2>1. key[i] \in Nat
    <3>1. key[i] \in Byte
      BY DEF Key
    <3>. QED BY <3>1 DEF Byte
  <2>2. \A n \in Nat : n % 256 \in Byte
    BY DEF Byte
  <2>. QED BY <1>1, <2>1, <2>2
<1>. QED BY <1>2, <1>3 DEF Key

LEMMA HostKeyType ==
  ASSUME shared \in Shared
  PROVE  /\ shared.root \in Key /\ HostKeys.reading \in Key /\ HostKeys.writing \in Key
         /\ shared.kind # "none" => HostKey.key \in Key /\ HostKey.kind = shared.kind
<1>1. shared.root \in Key
  BY PageAssumption DEF Shared, Key
<1>2. HostKeys.reading \in Key /\ HostKeys.writing \in Key
  BY <1>1, DerivedKey DEF HostKeys, FromTicketKey
<1>. HIDE DEF HostKeys
<1>. QED BY <1>1, <1>2 DEF HostKey, Shared

-----------------------------------------------------------------------------
(* Tickets. *)

\* The fields behind the token of a ticket with its key.
Field(k) == [letter |-> Letter[k.kind], digits |-> GoBase32(k.key)]

LEMMA Letters ==
  /\ DOMAIN Letter = {"root", "viewer"} /\ Letter["root"] = "k" /\ Letter["viewer"] = "v"
BY DEF Letter

LEMMA PrintedFields ==
  ASSUME shared \in Shared
  PROVE  Printed = [token |-> "token",
                    fields |-> IF shared.kind = "none" THEN <<>> ELSE <<Field(HostKey)>>]
<1>1. CASE shared.kind = "none"
  BY <1>1 DEF Printed
<1>2. CASE shared.kind = "root"
  BY <1>2, Letters DEF Printed, Field, HostKey
<1>3. CASE shared.kind = "viewer"
  <2>. HIDE DEF HostKeys
  <2>. QED BY <1>3, Letters DEF Printed, Field, HostKey
<1>. QED BY <1>1, <1>2, <1>3 DEF Shared

LEMMA DigitsOfKey ==
  ASSUME NEW key \in Key
  PROVE  /\ GoBase32(key) \in Seq(Digit) /\ NotADigit \notin ToSet(GoBase32(key))
         /\ (5 * Len(GoBase32(key))) \div 8 = KeySize
         /\ 5 * (Len(GoBase32(key)) - 1) < 8 * KeySize
<1>. DEFINE g == GoBase32(key)
            N == GoDigits(KeySize)
            e(i) == FiveBits(key, 5 * (i - 1))
<1>1. key \in Seq(Byte) /\ Len(key) = KeySize /\ KeySize \in Nat
  BY KeyIsBytes, LinkAssumption
<1>2. g = [i \in 1..N |-> e(i)]
  BY <1>1 DEF GoBase32
<1>3. N = (8 * KeySize + 4) \div 5
  BY DEF GoDigits
<1>. HIDE DEF g, N
<1>4. N \in Nat /\ (5 * N) \div 8 = KeySize /\ 5 * (N - 1) < 8 * KeySize
  BY <1>1, <1>3
<1>5. ASSUME NEW i \in 1..N
      PROVE  e(i) \in Digit
  <2>1. 5 * (i - 1) \in Nat
    BY <1>4
  <2>. QED BY <1>1, <2>1, FiveBitsType
<1>. HIDE DEF e
<1>6. g \in [1..N -> Digit]
  BY <1>2, <1>5
<1>7. g \in Seq(Digit)
  BY <1>4, <1>6, SeqDef
<1>8. Len(g) = N
  BY <1>4, <1>6, <1>7, LenProperties
<1>9. NotADigit \notin ToSet(g)
  <2>1. NotADigit \notin Digit
    BY DEF NotADigit, Digit
  <2>2. ToSet(g) \subseteq Digit
    BY <1>6 DEF ToSet
  <2>. QED BY <2>1, <2>2
<1>. QED BY <1>4, <1>7, <1>8, <1>9 DEF g

\* The field is read back ...
LEMMA FieldRead ==
  ASSUME NEW key \in Key, NEW kind \in {"root", "viewer"}
  PROVE  ParseKeyField(Field([key |-> key, kind |-> kind])) = {[key |-> key, kind |-> kind]}
<1>. DEFINE k == [key |-> key, kind |-> kind]
            f == Field(k)
<1>1. f.letter = Letter[kind] /\ f.digits = GoBase32(key)
  BY DEF Field
<1>2. DecodeBase32(f.digits) = key /\ Len(key) = KeySize /\ NotADigit \notin ToSet(f.digits)
  BY <1>1, KeyIsBytes, DigitsOfKey, DecodesWhatGoEncodes
<1>. HIDE DEF f
<1>3. \A x \in DOMAIN Letter : Letter[x] = f.letter <=> x = kind
  BY <1>1, Letters
<1>4. kind \in DOMAIN Letter
  BY Letters
<1>5. ParseKeyField(f) = { [key |-> key, kind |-> x] : x \in { x \in DOMAIN Letter : x = kind } }
  BY <1>2, <1>3 DEF ParseKeyField
<1>. QED BY <1>4, <1>5 DEF f

\* ... and refused when it was cut, misread or capitalised.
LEMMA FieldRefused ==
  ASSUME NEW key \in Key, NEW kind \in {"root", "viewer"}, NEW field,
         \/ \E n \in 0..(Len(GoBase32(key)) - 1) : field.digits = SubSeq(GoBase32(key), 1, n)
         \/ NotADigit \in ToSet(field.digits)
         \/ field.letter \notin {"k", "v"}
  PROVE  ParseKeyField(field) = {}
<1>1. CASE \E n \in 0..(Len(GoBase32(key)) - 1) : field.digits = SubSeq(GoBase32(key), 1, n)
  <2>. DEFINE g == GoBase32(key)
              d == field.digits
  <2>1. /\ g \in Seq(Digit) /\ 5 * (Len(g) - 1) < 8 * KeySize /\ Len(g) \in Nat /\ KeySize \in Nat
    BY DigitsOfKey, LenProperties, LinkAssumption
  <2>. HIDE DEF g
  <2>2. PICK n \in 0..(Len(g) - 1) : d = SubSeq(g, 1, n)
    BY <1>1 DEF g
  <2>3. n \in Nat /\ 1 \in Nat /\ n <= Len(g) /\ 1..n \subseteq 1..Len(g)
    BY <2>1
  <2>4. d \in Seq(Digit) /\ Len(d) = n
    <3>. HIDE DEF d
    <3>. QED BY <2>1, <2>2, <2>3
  <2>5. Len(d) \in Nat /\ \A i \in 1..Len(d) : d[i] \in Nat
    <3>1. Digit \subseteq Nat
      BY DEF Digit
    <3>. HIDE DEF d
    <3>. QED BY <2>3, <2>4, <3>1, ElementOfSeq
  <2>6. Len(DecodeBase32(d)) = (5 * n) \div 8
    BY <2>4, <2>5, DecodedLength
  <2>7. (5 * n) \div 8 # KeySize
    BY <2>1, <2>2
  <2>. QED BY <2>6, <2>7 DEF ParseKeyField
<1>2. CASE NotADigit \in ToSet(field.digits)
  BY <1>2 DEF ParseKeyField
<1>3. CASE field.letter \notin {"k", "v"}
  BY <1>3, Letters DEF ParseKeyField
<1>. QED BY <1>1, <1>2, <1>3

LEMMA KeysOfFields ==
  /\ KeysOf(<<>>) = {NoKey}
  /\ \A field : KeysOf(<<field>>) = ParseKeyField(field)
  /\ \A fields : Len(fields) = 2 => KeysOf(fields) = {}
<1>1. KeysOf(<<>>) = {NoKey}
  BY DEF KeysOf
<1>2. ASSUME NEW field
      PROVE  KeysOf(<<field>>) = ParseKeyField(field)
  <2>1. Len(<<field>>) = 1 /\ <<field>>[1] = field
    OBVIOUS
  <2>. QED BY <2>1 DEF KeysOf
<1>3. ASSUME NEW fields, Len(fields) = 2
      PROVE  KeysOf(fields) = {}
  BY <1>3 DEF KeysOf
<1>. QED BY <1>1, <1>2, <1>3

LEMMA PrintedKeys ==
  ASSUME shared \in Shared
  PROVE  KeysOf(Printed.fields) = {HostKey}
<1>1. CASE shared.kind = "none"
  BY <1>1, PrintedFields, KeysOfFields DEF HostKey
<1>2. CASE shared.kind # "none"
  <2>1. HostKey.key \in Key /\ HostKey.kind \in {"root", "viewer"}
    BY <1>2, HostKeyType DEF Shared
  <2>2. HostKey = [key |-> HostKey.key, kind |-> HostKey.kind]
    BY <1>2 DEF HostKey
  <2>3. ParseKeyField(Field(HostKey)) = {HostKey}
    BY <2>1, <2>2, FieldRead
  <2>4. Printed.fields = <<Field(HostKey)>>
    BY <1>2, PrintedFields
  <2>. QED BY <2>3, <2>4, KeysOfFields
<1>. QED BY <1>1, <1>2

\* A field of digits has, if it is taken, one key of the host's size.
AnyKey == [key : Key, kind : {"root", "viewer"}]

LEMMA DecodedKey ==
  ASSUME NEW digits \in Seq(Digit), Len(DecodeBase32(digits)) = KeySize
  PROVE  DecodeBase32(digits) \in Key
<1>. DEFINE key == DecodeBase32(digits)
<1>1. Len(digits) \in Nat /\ \A i \in 1..Len(digits) : digits[i] \in Nat
  <2>1. Digit \subseteq Nat
    BY DEF Digit
  <2>. QED BY <2>1, LenProperties, ElementOfSeq
<1>2. key \in Seq(Byte)
  BY <1>1, DecodedLength
<1>. HIDE DEF key
<1>3. key \in [1..KeySize -> Byte]
  BY <1>2, LenProperties DEF key
<1>. QED BY <1>3 DEF Key, key

LEMMA FieldTaken ==
  ASSUME NEW field, field.digits \in Seq(Digit)
  PROVE  \/ ParseKeyField(field) = {}
         \/ \E k \in AnyKey : /\ ParseKeyField(field) = {k} /\ Letter[k.kind] = field.letter
                              /\ k.key = DecodeBase32(field.digits)
<1>. DEFINE key == DecodeBase32(field.digits)
<1>1. CASE Len(key) # KeySize \/ NotADigit \in ToSet(field.digits) \/ field.letter \notin {"k", "v"}
  BY <1>1, Letters DEF ParseKeyField
<1>2. ASSUME Len(key) = KeySize, NotADigit \notin ToSet(field.digits),
             NEW kind \in {"root", "viewer"}, Letter[kind] = field.letter
      PROVE  \E k \in AnyKey : /\ ParseKeyField(field) = {k} /\ Letter[k.kind] = field.letter
                               /\ k.key = key
  <2>1. key \in Key
    BY <1>2, DecodedKey
  <2>. DEFINE k == [key |-> key, kind |-> kind]
  <2>2. ParseKeyField(field) = { [key |-> key, kind |-> x] :
                                   x \in { x \in DOMAIN Letter : Letter[x] = field.letter } }
    BY <1>2 DEF ParseKeyField
  <2>3. { x \in DOMAIN Letter : Letter[x] = field.letter } = {kind}
    BY <1>2, Letters
  <2>. HIDE DEF key
  <2>4. ParseKeyField(field) = {k}
    BY <2>2, <2>3
  <2>5. k \in AnyKey /\ k.kind = kind /\ k.key = key
    BY <2>1 DEF AnyKey
  <2>. HIDE DEF k
  <2>. QED BY <1>2, <2>4, <2>5
<1>3. field.letter \in {"k", "v"} => \E kind \in {"root", "viewer"} : Letter[kind] = field.letter
  BY Letters
<1>. HIDE DEF key
<1>. QED BY <1>1, <1>2, <1>3 DEF key

\* A misread field has the host's key or the host's letter, but not both.
LEMMA FieldMisread ==
  ASSUME shared \in Shared, shared.kind # "none", NEW g \in MisreadFields(Field(HostKey))
  PROVE  \/ ParseKeyField(g) = {}
         \/ \E k \in AnyKey : /\ ParseKeyField(g) = {k}
                              /\ k.kind = HostKey.kind \/ k.key = HostKey.key
<1>. DEFINE f == Field(HostKey)
            d == GoBase32(HostKey.key)
<1>1. HostKey.key \in Key /\ HostKey.kind \in {"root", "viewer"}
  BY HostKeyType DEF Shared
<1>2. f = [letter |-> Letter[HostKey.kind], digits |-> d]
  BY DEF Field
<1>3. d \in Seq(Digit) /\ DecodeBase32(d) = HostKey.key
  BY <1>1, KeyIsBytes, DigitsOfKey, DecodesWhatGoEncodes
<1>. HIDE DEF d, f, HostKey
<1>4. \/ \E n \in 1..Len(f.digits) : \E x \in Misread : g = [f EXCEPT !.digits[n] = x]
      \/ \E letter \in {"k", "v"} : g = [f EXCEPT !.letter = letter]
  <2>. DEFINE Other(n) == { [f EXCEPT !.digits[n] = x] : x \in Misread \ {f.digits[n]} }
              Letters2 == { [f EXCEPT !.letter = letter] : letter \in {"k", "v"} \ {f.letter} }
  <2>1. g \in Letters2 \cup (UNION { Other(n) : n \in 1..Len(f.digits) })
    BY DEF MisreadFields, f
  <2>2. \A n : g \in Other(n) => \E x \in Misread : g = [f EXCEPT !.digits[n] = x]
    OBVIOUS
  <2>3. g \in Letters2 => \E letter \in {"k", "v"} : g = [f EXCEPT !.letter = letter]
    OBVIOUS
  <2>. HIDE DEF Other, Letters2
  <2>. QED BY <2>1, <2>2, <2>3
<1>5. ASSUME NEW n \in 1..Len(f.digits), NEW x \in Misread, g = [f EXCEPT !.digits[n] = x]
      PROVE  g.letter = Letter[HostKey.kind] /\ g.digits \in Seq(Digit)
  <2>1. g.letter = Letter[HostKey.kind] /\ g.digits = [d EXCEPT ![n] = x] /\ f.digits = d
    BY <1>2, <1>5
  <2>2. x \in Digit
    BY PageAssumption
  <2>. QED BY <1>3, <1>5, <2>1, <2>2, ExceptSeq
<1>6. ASSUME NEW letter \in {"k", "v"}, g = [f EXCEPT !.letter = letter]
      PROVE  g.digits = d
  BY <1>2, <1>6
<1>7. CASE \E n \in 1..Len(f.digits) : \E x \in Misread : g = [f EXCEPT !.digits[n] = x]
  <2>1. g.letter = Letter[HostKey.kind] /\ g.digits \in Seq(Digit)
    BY <1>5, <1>7
  <2>2. \A kind \in {"root", "viewer"} : Letter[kind] = g.letter => kind = HostKey.kind
    BY <1>1, <2>1, Letters
  <2>3. \A k \in AnyKey : k.kind \in {"root", "viewer"}
    BY DEF AnyKey
  <2>. QED BY <2>1, <2>2, <2>3, FieldTaken
<1>8. CASE \E letter \in {"k", "v"} : g = [f EXCEPT !.letter = letter]
  <2>1. g.digits = d
    BY <1>6, <1>8
  <2>. QED BY <1>3, <2>1, FieldTaken
<1>. QED BY <1>4, <1>7, <1>8

LEMMA PrintedField ==
  ASSUME shared \in Shared
  PROVE  /\ Printed.token = "token"
         /\ shared.kind = "none" => Printed.fields = <<>> /\ ToSet(Printed.fields) = {}
         /\ shared.kind # "none" => /\ Printed.fields = <<Field(HostKey)>>
                                    /\ ToSet(Printed.fields) = {Field(HostKey)}
<1>1. \A x : ToSet(<<x>>) = {x}
  BY DEF ToSet
<1>2. ToSet(<<>>) = {}
  BY DEF ToSet
<1>3. /\ Printed.token = "token"
      /\ shared.kind = "none" => Printed.fields = <<>>
      /\ shared.kind # "none" => Printed.fields = <<Field(HostKey)>>
  BY PrintedFields
<1>. QED BY <1>1, <1>2, <1>3

LEMMA TextMisread ==
  ASSUME shared \in Shared, NEW text \in MisreadTexts(Printed)
  PROVE  /\ shared.kind # "none"
         /\ \E g \in MisreadFields(Field(HostKey)) : text = [token |-> "token", fields |-> <<g>>]
<1>1. PICK f \in ToSet(Printed.fields) :
             text \in { [token |-> Printed.token, fields |-> <<g>>] : g \in MisreadFields(f) }
  BY DEF MisreadTexts
<1>2. shared.kind # "none" /\ f = Field(HostKey) /\ Printed.token = "token"
  BY <1>1, PrintedField
<1>. QED BY <1>1, <1>2

\* The keys of misread tickets, and of all that pages hold.
LEMMA MisreadKeysAre ==
  ASSUME shared \in Shared
  PROVE  /\ \A k \in MisreadKeys : /\ shared.kind # "none" /\ k \in AnyKey
                                   /\ k.kind = HostKey.kind \/ k.key = HostKey.key
         /\ \A text \in MisreadTexts(Printed) :
              KeysOf(text.fields) = {} \/ \E k \in MisreadKeys : KeysOf(text.fields) = {k}
<1>1. ASSUME NEW text \in MisreadTexts(Printed)
      PROVE  /\ shared.kind # "none"
             /\ \/ KeysOf(text.fields) = {}
                \/ \E k \in AnyKey : /\ KeysOf(text.fields) = {k}
                                     /\ k.kind = HostKey.kind \/ k.key = HostKey.key
  <2>1. shared.kind # "none"
    BY TextMisread
  <2>2. PICK g \in MisreadFields(Field(HostKey)) : text = [token |-> "token", fields |-> <<g>>]
    BY TextMisread
  <2>3. text.fields = <<g>>
    BY <2>2
  <2>4. KeysOf(text.fields) = ParseKeyField(g)
    BY <2>3, KeysOfFields
  <2>. QED BY <2>1, <2>4, FieldMisread
<1>. DEFINE keysOf(text) == KeysOf(text.fields)
<1>2. MisreadKeys = UNION { keysOf(text) : text \in MisreadTexts(Printed) }
  BY DEF MisreadKeys
<1>3. \A text \in MisreadTexts(Printed) :
        /\ shared.kind # "none"
        /\ \/ keysOf(text) = {}
           \/ \E k \in AnyKey : /\ keysOf(text) = {k}
                                /\ k.kind = HostKey.kind \/ k.key = HostKey.key
  BY <1>1
<1>. HIDE DEF keysOf
<1>4. ASSUME NEW k \in MisreadKeys
      PROVE  /\ shared.kind # "none" /\ k \in AnyKey
             /\ k.kind = HostKey.kind \/ k.key = HostKey.key
  <2>1. PICK text \in MisreadTexts(Printed) : k \in keysOf(text)
    BY <1>2
  <2>. QED BY <1>3, <2>1
<1>5. ASSUME NEW text \in MisreadTexts(Printed)
      PROVE  keysOf(text) = {} \/ \E k \in MisreadKeys : keysOf(text) = {k}
  <2>1. ASSUME NEW k, keysOf(text) = {k}
        PROVE  k \in MisreadKeys
    BY <1>2, <2>1
  <2>. QED BY <1>3, <2>1
<1>. QED BY <1>4, <1>5 DEF keysOf

Token == {"", "cut", "token", "broken", "escaped", "dotted"}
HeldKeys == {NoKey, HostKey} \cup MisreadKeys

LEMMA HeldKeysAre ==
  ASSUME shared \in Shared, NEW k \in HeldKeys
  PROVE  k = NoKey \/ k \in AnyKey
<1>1. CASE k = HostKey
  <2>1. CASE shared.kind = "none"
    BY <1>1, <2>1 DEF HostKey
  <2>2. CASE shared.kind # "none"
    <3>1. HostKey.key \in Key /\ HostKey.kind \in {"root", "viewer"}
      BY <2>2, HostKeyType DEF Shared
    <3>2. HostKey = [key |-> HostKey.key, kind |-> HostKey.kind]
      BY <2>2 DEF HostKey
    <3>. HIDE DEF HostKey
    <3>. QED BY <1>1, <3>1, <3>2 DEF AnyKey
  <2>. QED BY <2>1, <2>2
<1>. QED BY <1>1, MisreadKeysAre DEF HeldKeys

HasKeys(fields) == KeysOf(fields) = {} \/ \E k \in HeldKeys : KeysOf(fields) = {k}

\* What is mangled was misread, or has the key it had, none, or none that is taken.
LEMMA MangledKeys ==
  ASSUME shared \in Shared, NEW text \in Mangled(Printed)
  PROVE  /\ text = [token |-> text.token, fields |-> text.fields]
         /\ text.token \in Token /\ HasKeys(text.fields)
<1>. DEFINE p == Printed
            f == Field(HostKey)
            Form(x) == /\ x = [token |-> x.token, fields |-> x.fields]
                       /\ x.token \in Token /\ HasKeys(x.fields)
            Cut == { [token |-> p.token, fields |-> << [f EXCEPT !.digits = SubSeq(@, 1, n)] >>] :
                       n \in 0..(Len(f.digits) - 1) }
            Blurred == { [token |-> p.token, fields |-> << [f EXCEPT !.digits[n] = NotADigit] >>] :
                           n \in 1..Len(f.digits) }
            Capital == [token |-> p.token, fields |-> << [f EXCEPT !.letter = "K"] >>]
            More == [token |-> p.token, fields |-> Append(p.fields, NotAField)]
            Plainly == { [token |-> "", fields |-> <<>>], [token |-> "cut", fields |-> <<>>],
                         [token |-> p.token, fields |-> <<>>], More }
            S(g) == { [token |-> p.token, fields |-> << [g EXCEPT !.digits = SubSeq(@, 1, n)] >>] :
                        n \in 0..(Len(g.digits) - 1) }
                    \cup { [token |-> p.token, fields |-> << [g EXCEPT !.digits[n] = NotADigit] >>] :
                             n \in 1..Len(g.digits) }
                    \cup { [token |-> p.token, fields |-> << [g EXCEPT !.letter = "K"] >>] }
            Percent == { [token |-> token, fields |-> <<>>] : token \in Escaping }
            Escaped == { [token |-> token, fields |-> p.fields] : token \in Escaping }
<1>1. /\ p.token = "token"
      /\ p.fields = IF shared.kind = "none" THEN <<>> ELSE <<f>>
  BY PrintedFields
<1>2. shared.kind # "none" =>
        /\ HostKey.key \in Key /\ HostKey.kind \in {"root", "viewer"}
        /\ f = [letter |-> Letter[HostKey.kind], digits |-> GoBase32(HostKey.key)]
  BY HostKeyType DEF Shared, Field
<1>3. \/ text \in MisreadTexts(p) \/ text \in Percent \/ text \in Escaped \/ text \in Plainly
      \/ shared.kind # "none" /\ (text \in Cut \/ text \in Blurred \/ text = Capital)
  <2>1. Mangled(p) = MisreadTexts(p) \cup Plainly \cup Percent \cup Escaped
                     \cup (UNION { S(g) : g \in ToSet(p.fields) })
    <3>. HIDE DEF p
    <3>. QED BY DEF Mangled
  <2>2. S(f) = (Cut \cup Blurred) \cup {Capital}
    <3>. HIDE DEF p, f
    <3>. QED OBVIOUS
  <2>3. /\ shared.kind = "none" => ToSet(p.fields) = {}
        /\ shared.kind # "none" => ToSet(p.fields) = {f}
    BY PrintedField
  <2>4. text \in Mangled(p)
    OBVIOUS
  <2>. HIDE DEF S, Cut, Blurred, Capital, Plainly, Percent, Escaped, p, f
  <2>5. CASE shared.kind = "none"
    BY <2>1, <2>3, <2>4, <2>5
  <2>6. CASE shared.kind # "none"
    BY <2>1, <2>2, <2>3, <2>4, <2>6
  <2>. QED BY <2>5, <2>6
<1>. HIDE DEF p, f, Cut, Blurred, Capital, More, Plainly, Percent, Escaped, S
<1>4. HasKeys(<<>>) /\ HasKeys(p.fields)
  <2>1. KeysOf(<<>>) = {NoKey} /\ KeysOf(p.fields) = {HostKey}
    BY KeysOfFields, PrintedKeys DEF p
  <2>. QED BY <2>1 DEF HasKeys, HeldKeys
<1>5. CASE text \in Plainly /\ text # More
  <2>1. CASE text = [token |-> "", fields |-> <<>>]
    BY <1>4, <2>1 DEF Token
  <2>2. CASE text = [token |-> "cut", fields |-> <<>>]
    BY <1>4, <2>2 DEF Token
  <2>3. CASE text = [token |-> p.token, fields |-> <<>>]
    <3>1. text = [token |-> "token", fields |-> <<>>]
      BY <1>1, <2>3
    <3>. QED BY <1>4, <3>1 DEF Token
  <2>. QED BY <1>5, <2>1, <2>2, <2>3 DEF Plainly
<1>6. CASE text \in Percent \/ text \in Escaped
  <2>1. PICK token \in Escaping :
               \/ text = [token |-> token, fields |-> <<>>]
               \/ text = [token |-> token, fields |-> p.fields]
    BY <1>6 DEF Percent, Escaped
  <2>2. token \in Token
    BY DEF Escaping, Token
  <2>3. CASE text = [token |-> token, fields |-> <<>>]
    BY <1>4, <2>2, <2>3
  <2>4. CASE text = [token |-> token, fields |-> p.fields]
    BY <1>4, <2>2, <2>4
  <2>. QED BY <2>1, <2>3, <2>4
<1>7. CASE text = More
  <2>1. text.fields = Append(p.fields, NotAField) /\ text.token = "token"
    BY <1>1, <1>7 DEF More
  <2>2. KeysOf(text.fields) = {}
    <3>1. CASE shared.kind = "none"
      <4>1. p.fields = <<>>
        BY <1>1, <3>1
      <4>2. \A x : Append(<<>>, x) = <<x>>
        OBVIOUS
      <4>3. text.fields = <<NotAField>>
        BY <2>1, <4>1, <4>2
      <4>4. ParseKeyField(NotAField) = {}
        BY Letters DEF ParseKeyField, NotAField
      <4>. QED BY <4>3, <4>4, KeysOfFields
    <3>2. CASE shared.kind # "none"
      <4>1. p.fields = <<f>>
        BY <1>1, <3>2
      <4>2. \A x, y : Len(Append(<<y>>, x)) = 2
        OBVIOUS
      <4>3. Len(text.fields) = 2
        BY <2>1, <4>1, <4>2
      <4>. QED BY <4>3, KeysOfFields
    <3>. QED BY <3>1, <3>2
  <2>. QED BY <1>7, <2>1, <2>2 DEF More, HasKeys, Token
<1>8. ASSUME NEW g, text = [token |-> p.token, fields |-> <<g>>], ParseKeyField(g) = {}
      PROVE  Form(text)
  <2>1. text.fields = <<g>> /\ text.token = "token"
    BY <1>1, <1>8
  <2>2. KeysOf(text.fields) = {}
    BY <1>8, <2>1, KeysOfFields
  <2>. QED BY <1>8, <2>1, <2>2 DEF HasKeys, Token
<1>9. CASE text \in MisreadTexts(p)
  <2>1. text \in MisreadTexts(Printed)
    BY <1>9 DEF p
  <2>2. PICK g : text = [token |-> "token", fields |-> <<g>>]
    BY <2>1, TextMisread
  <2>3. HasKeys(text.fields)
    BY <2>1, MisreadKeysAre DEF HasKeys, HeldKeys
  <2>. QED BY <2>2, <2>3 DEF Token
<1>. HIDE DEF Form
<1>10. ASSUME shared.kind # "none", text \in Cut
       PROVE  Form(text)
  <2>1. PICK n \in 0..(Len(f.digits) - 1) :
               text = [token |-> p.token, fields |-> << [f EXCEPT !.digits = SubSeq(@, 1, n)] >>]
    BY <1>10 DEF Cut
  <2>. DEFINE g == [f EXCEPT !.digits = SubSeq(@, 1, n)]
  <2>2. g.digits = SubSeq(GoBase32(HostKey.key), 1, n) /\ f.digits = GoBase32(HostKey.key)
    BY <1>2, <1>10
  <2>. HIDE DEF g
  <2>3. ParseKeyField(g) = {}
    BY <1>2, <1>10, <2>2, FieldRefused
  <2>. QED BY <1>8, <2>1, <2>3 DEF g
<1>11. ASSUME shared.kind # "none", text \in Blurred
       PROVE  Form(text)
  <2>1. PICK n \in 1..Len(f.digits) :
               text = [token |-> p.token, fields |-> << [f EXCEPT !.digits[n] = NotADigit] >>]
    BY <1>11 DEF Blurred
  <2>. DEFINE g == [f EXCEPT !.digits[n] = NotADigit]
  <2>2. NotADigit \in ToSet(g.digits)
    <3>1. g.digits = [GoBase32(HostKey.key) EXCEPT ![n] = NotADigit] /\ f.digits = GoBase32(HostKey.key)
      BY <1>2, <1>11
    <3>2. DOMAIN f.digits = 1..Len(f.digits)
      BY <1>2, <1>11, <3>1, DigitsOfKey, LenProperties
    <3>. HIDE DEF g
    <3>3. n \in DOMAIN g.digits /\ g.digits[n] = NotADigit
      BY <2>1, <3>1, <3>2
    <3>4. n \in 1..Len(g.digits)
      <4>1. GoBase32(HostKey.key) \in Seq(Nat) /\ NotADigit \in Nat
        <5>1. Digit \subseteq Nat /\ NotADigit \in Nat
          BY DEF Digit, NotADigit
        <5>2. GoBase32(HostKey.key) \in Seq(Digit)
          BY <1>2, <1>11, DigitsOfKey
        <5>. QED BY <5>1, <5>2, SeqMonotonic
      <4>2. Len(g.digits) = Len(GoBase32(HostKey.key))
        BY <2>1, <3>1, <4>1, ExceptSeq
      <4>. QED BY <2>1, <3>1, <4>2
    <3>. QED BY <3>3, <3>4 DEF ToSet
  <2>. HIDE DEF g
  <2>3. ParseKeyField(g) = {}
    BY <1>2, <1>11, <2>2, FieldRefused
  <2>. QED BY <1>8, <2>1, <2>3 DEF g
<1>12. ASSUME shared.kind # "none", text = Capital
       PROVE  Form(text)
  <2>. DEFINE g == [f EXCEPT !.letter = "K"]
  <2>1. g.letter \notin {"k", "v"}
    BY <1>2, <1>12
  <2>. HIDE DEF g
  <2>2. ParseKeyField(g) = {}
    BY <1>2, <1>12, <2>1, FieldRefused
  <2>. QED BY <1>8, <1>12, <2>2 DEF g, Capital
<1>. QED BY <1>3, <1>5, <1>6, <1>7, <1>9, <1>10, <1>11, <1>12 DEF Form

\* What sessionURL writes for a key, and what any fragment holds.
FieldsFor(k) == IF k.kind = "none" THEN <<>> ELSE <<Field(k)>>

Rewritten ==
  UNION { { [token |-> token, fields |-> FieldsFor(k)] : token \in Token } : k \in HeldKeys }

Texts == Tickets \cup Rewritten

LEMMA KeyWritten ==
  ASSUME shared \in Shared, NEW k \in HeldKeys
  PROVE  KeysOf(FieldsFor(k)) = {k}
<1>1. CASE k = NoKey
  <2>1. FieldsFor(k) = <<>>
    BY <1>1 DEF FieldsFor, NoKey
  <2>. QED BY <1>1, <2>1, KeysOfFields
<1>2. CASE k \in AnyKey
  <2>1. k = [key |-> k.key, kind |-> k.kind] /\ k.key \in Key /\ k.kind \in {"root", "viewer"}
    BY <1>2 DEF AnyKey
  <2>2. FieldsFor(k) = <<Field(k)>>
    BY <2>1 DEF FieldsFor
  <2>3. ParseKeyField(Field(k)) = {k}
    BY <2>1, FieldRead
  <2>. QED BY <2>2, <2>3, KeysOfFields
<1>. QED BY <1>1, <1>2, HeldKeysAre

LEMMA RewrittenHas ==
  ASSUME NEW token \in Token, NEW k \in HeldKeys
  PROVE  [token |-> token, fields |-> FieldsFor(k)] \in Texts
BY DEF Texts, Rewritten

LEMMA TicketKeys ==
  ASSUME shared \in Shared, NEW text \in Tickets
  PROVE  text.token \in Token /\ HasKeys(text.fields)
<1>1. CASE text = Printed
  <2>1. KeysOf(text.fields) = {HostKey} /\ text.token = "token"
    BY <1>1, PrintedFields, PrintedKeys
  <2>. QED BY <2>1 DEF Token, HasKeys, HeldKeys
<1>2. CASE text \in Mangled(Printed)
  BY <1>2, MangledKeys
<1>. QED BY <1>1, <1>2 DEF Tickets

LEMMA TextKeys ==
  ASSUME shared \in Shared, NEW text \in Texts
  PROVE  text.token \in Token /\ HasKeys(text.fields)
<1>1. CASE text \in Tickets
  BY <1>1, TicketKeys
<1>2. CASE text \in Rewritten
  <2>1. PICK k \in HeldKeys : text \in { [token |-> token, fields |-> FieldsFor(k)] : token \in Token }
    BY <1>2 DEF Rewritten
  <2>2. text.token \in Token /\ text.fields = FieldsFor(k)
    BY <2>1
  <2>. QED BY <2>2, KeyWritten DEF HasKeys
<1>. QED BY <1>1, <1>2 DEF Texts

\* What decodeURIComponent makes of it.
LEMMA Unescaped ==
  ASSUME shared \in Shared, NEW text \in Texts
  PROVE  /\ text.token \notin Escaping => Unescape(text) = {text}
         /\ \/ Unescape(text) = {}
            \/ \E t : Unescape(text) = {t} /\ t.token \in Token /\ HasKeys(t.fields)
<1>1. text.token \in Token /\ HasKeys(text.fields)
  BY TextKeys
<1>2. CASE text.token = "broken"
  BY <1>2 DEF Unescape, Escaping
<1>3. CASE text.token = "escaped"
  <2>. DEFINE t == [token |-> "token", fields |-> text.fields]
  <2>1. Unescape(text) = {t}
    BY <1>3 DEF Unescape
  <2>2. t.token \in Token /\ t.fields = text.fields
    BY DEF Token
  <2>. HIDE DEF t
  <2>. QED BY <1>1, <1>3, <2>1, <2>2 DEF Escaping
<1>4. CASE text.token = "dotted"
  <2>. DEFINE t == [token |-> "cut", fields |-> <<NotAField>>]
  <2>1. Unescape(text) = {t}
    BY <1>4 DEF Unescape
  <2>2. t.token \in Token /\ t.fields = <<NotAField>>
    BY DEF Token
  <2>3. ParseKeyField(NotAField) = {}
    BY Letters DEF ParseKeyField, NotAField
  <2>. HIDE DEF t
  <2>4. HasKeys(t.fields)
    BY <2>2, <2>3, KeysOfFields DEF HasKeys
  <2>. QED BY <1>4, <2>1, <2>2, <2>4 DEF Escaping
<1>5. CASE text.token \notin Escaping
  <2>1. Unescape(text) = {text}
    BY <1>5 DEF Unescape, Escaping
  <2>. QED BY <1>1, <2>1
<1>. QED BY <1>2, <1>3, <1>4, <1>5 DEF Escaping

\* What any page of the session may join as.
Located == UNION { { Locator("s", token, k) : token \in Token } : k \in HeldKeys }

LEMMA LocatedHas ==
  ASSUME NEW token \in Token, NEW k \in HeldKeys
  PROVE  Locator("s", token, k) \in Located
BY DEF Located

\* What a page of the session reads in its URL, once it is unescaped.
LocatorsOf(t) == { Locator("s", t.token, k) : k \in IF t.token = "" THEN {} ELSE KeysOf(t.fields) }

LEMMA PageRead ==
  ASSUME NEW page, page.path = "session", page.session = "s",
         NEW t, Unescape(page.text) = {t}
  PROVE  ParseSessionURL(page) = LocatorsOf(t)
<1>. DEFINE Read(text) == { Locator(page.session, text.token, k) : k \in KeysIn(page.path, text) }
<1>1. ParseSessionURL(page) = UNION { Read(text) : text \in Unescape(page.text) }
  BY DEF ParseSessionURL
<1>2. Read(t) = LocatorsOf(t)
  BY DEF KeysIn, LocatorsOf
<1>. HIDE DEF Read
<1>3. ParseSessionURL(page) = Read(t)
  BY <1>1
<1>. QED BY <1>2, <1>3

LEMMA NotASession ==
  ASSUME NEW page, page.path # "session"
  PROVE  ParseSessionURL(page) = {}
<1>. DEFINE Read(text) == { Locator(page.session, text.token, k) : k \in KeysIn(page.path, text) }
<1>1. ParseSessionURL(page) = UNION { Read(text) : text \in Unescape(page.text) }
  BY DEF ParseSessionURL
<1>2. \A text : Read(text) = {}
  BY DEF KeysIn
<1>. HIDE DEF Read
<1>. QED BY <1>1, <1>2

LEMMA TextLocated ==
  ASSUME shared \in Shared, NEW text \in Texts, NEW page,
         page.path = "session", page.session = "s", page.text = text
  PROVE  ParseSessionURL(page) = {} \/ \E l \in Located : ParseSessionURL(page) = {l}
<1>1. CASE Unescape(text) = {}
  BY <1>1 DEF ParseSessionURL
<1>2. ASSUME NEW t, Unescape(text) = {t}, t.token \in Token, HasKeys(t.fields)
      PROVE  ParseSessionURL(page) = {} \/ \E l \in Located : ParseSessionURL(page) = {l}
  <2>1. ParseSessionURL(page) = LocatorsOf(t)
    <3>1. Unescape(page.text) = {t}
      BY <1>2
    <3>. QED BY <3>1, PageRead
  <2>2. CASE t.token = "" \/ KeysOf(t.fields) = {}
    BY <2>1, <2>2 DEF LocatorsOf
  <2>3. ASSUME NEW k \in HeldKeys, KeysOf(t.fields) = {k}, t.token # ""
        PROVE  \E l \in Located : ParseSessionURL(page) = {l}
    <3>1. ParseSessionURL(page) = {Locator("s", t.token, k)}
      BY <2>1, <2>3 DEF LocatorsOf
    <3>2. Locator("s", t.token, k) \in Located
      BY <1>2, <2>3, LocatedHas
    <3>. QED BY <3>1, <3>2
  <2>. QED BY <1>2, <2>2, <2>3 DEF HasKeys
<1>. QED BY <1>1, <1>2, Unescaped

SessionPage(text) == [path |-> "session", session |-> "s", text |-> text]

\* A ticket that the form takes names the page that it leads to, where its token has no percent
\* sign.
LEMMA TicketPage ==
  ASSUME shared \in Shared, NEW text \in Tickets, NEW l \in ParseTicket("s", text)
  PROVE  /\ ParseTicket("s", text) = {l}
         /\ \E t \in Texts :
              /\ SessionURL(l) = SessionPage(t)
              /\ l.token \notin Escaping =>
                   ~Malformed(t) /\ ParseSessionURL(SessionPage(t)) = {l}
<1>1. text.token \in Token /\ HasKeys(text.fields)
  BY TicketKeys
<1>2. text.token # ""
  BY DEF ParseTicket
<1>3. ParseTicket("s", text) = { Locator("s", text.token, k) : k \in KeysOf(text.fields) }
  <2>1. "s" # ""
    OBVIOUS
  <2>. QED BY <1>2, <2>1 DEF ParseTicket
<1>4. PICK k \in HeldKeys : KeysOf(text.fields) = {k}
  <2>1. KeysOf(text.fields) # {}
    BY <1>3
  <2>. QED BY <1>1, <2>1 DEF HasKeys
<1>5. l = Locator("s", text.token, k) /\ ParseTicket("s", text) = {l}
  BY <1>3, <1>4
<1>6. l.session = "s" /\ l.token = text.token /\ l.key = k.key /\ l.kind = k.kind
  BY <1>5 DEF Locator
<1>. DEFINE t == [token |-> text.token, fields |-> FieldsFor(k)]
<1>7. t \in Texts
  BY <1>1, RewrittenHas
<1>8. SessionURL(l) = SessionPage(t)
  <2>1. CASE k = NoKey
    <3>1. l.kind = "none" /\ FieldsFor(k) = <<>>
      BY <1>6, <2>1 DEF NoKey, FieldsFor
    <3>. QED BY <1>6, <3>1 DEF SessionURL, SessionPage
  <2>2. CASE k \in AnyKey
    <3>1. k.key \in Key /\ k.kind \in {"root", "viewer"}
      BY <2>2 DEF AnyKey
    <3>2. EncodeBase32(l.key) = GoBase32(l.key)
      BY <1>6, <3>1, KeyIsBytes, EncodesAsGo
    <3>3. << [letter |-> Letter[l.kind], digits |-> EncodeBase32(l.key)] >> = FieldsFor(k)
      BY <1>6, <3>1, <3>2 DEF Field, FieldsFor
    <3>4. l.kind # "none"
      BY <1>6, <3>1
    <3>. QED BY <1>6, <3>3, <3>4 DEF SessionURL, SessionPage
  <2>. QED BY <2>1, <2>2, HeldKeysAre
<1>9. ASSUME l.token \notin Escaping
      PROVE  ~Malformed(t) /\ ParseSessionURL(SessionPage(t)) = {l}
  <2>1. t.token = text.token /\ t.fields = FieldsFor(k)
    OBVIOUS
  <2>. HIDE DEF t
  <2>2. Unescape(t) = {t}
    BY <1>6, <1>7, <1>9, <2>1, Unescaped
  <2>3. /\ SessionPage(t).path = "session" /\ SessionPage(t).session = "s"
        /\ SessionPage(t).text = t
    BY DEF SessionPage
  <2>4. ParseSessionURL(SessionPage(t)) = LocatorsOf(t)
    <3>. DEFINE page == SessionPage(t)
    <3>1. page.path = "session" /\ page.session = "s" /\ Unescape(page.text) = {t}
      BY <2>2, <2>3
    <3>. HIDE DEF page
    <3>2. ParseSessionURL(page) = LocatorsOf(t)
      BY <3>1, PageRead
    <3>. QED BY <3>2 DEF page
  <2>5. KeysOf(t.fields) = {k}
    BY <2>1, KeyWritten
  <2>6. ParseSessionURL(SessionPage(t)) = {Locator("s", t.token, k)}
    BY <1>2, <2>1, <2>4, <2>5 DEF LocatorsOf
  <2>. QED BY <1>5, <2>1, <2>2, <2>6 DEF Malformed
<1>. HIDE DEF t
<1>. QED BY <1>5, <1>7, <1>8, <1>9

-----------------------------------------------------------------------------
(* The page's session. *)

\* What crypto holds for a page that joined as l.
KeysFor(l) == IF l.kind = "none" THEN NoKeys ELSE FromTicketKey(l.session, l.key, l.kind)

\* The URL is one that a host, a user or the form wrote; the landing page is left for good.
URLInv ==
  /\ shared \in Shared
  /\ url \in [path : {"session", "landing"}, session : {"s", ""}, text : Texts]
  /\ url.path = "session" => url.session = "s"
  /\ url.path = "landing" => view \in {"loading", "landing", "rejected"} /\ ~hashchange
  /\ view \in {"landing", "rejected"} => url.path = "landing"

\* A session view has the locator and the keys it was opened with, also while an edit of the
\* URL waits to be noticed.
ViewInv ==
  /\ view = "loading" => ~hashchange
  /\ view = "session" => \E l \in Located : locator = {l}
  /\ view # "session" => locator = {} /\ ~ready
  /\ ready => \A l \in locator : keys = KeysFor(l)

\* What the form was left with is what the URL says.
SubmittedInv ==
  submitted # {} /\ ~hashchange /\ (\A l \in submitted : l.token \notin Escaping) =>
    url.path = "session" /\ ~Malformed(url.text) /\ ParseSessionURL(url) = submitted

LinkInv == URLInv /\ ViewInv /\ SubmittedInv /\ PageFollowsURL

LEMMA TicketsStay ==
  ASSUME UNCHANGED shared
  PROVE  /\ Tickets' = Tickets /\ Texts' = Texts /\ Located' = Located
         /\ (shared \in Shared)' <=> shared \in Shared
<1>1. HostKeys' = HostKeys
  BY DEF HostKeys
<1>2. Printed' = Printed
  BY <1>1 DEF Printed
<1>3. HostKey' = HostKey
  BY <1>1 DEF HostKey
<1>4. Tickets' = Tickets
  BY <1>2 DEF Tickets
<1>5. MisreadKeys' = MisreadKeys
  BY <1>2 DEF MisreadKeys
<1>6. HeldKeys' = HeldKeys
  BY <1>3, <1>5 DEF HeldKeys
<1>. QED BY <1>4, <1>6 DEF Texts, Rewritten, Located

LEMMA LinkInvInit == Init => LinkInv
<1>. SUFFICES ASSUME Init PROVE LinkInv
  OBVIOUS
<1>1. shared \in Shared
  BY DEF Init, Shared
<1>2. /\ url \in [path : {"session", "landing"}, session : {"s", ""}, text : Texts]
      /\ url.path = "session" => url.session = "s"
  <2>. DEFINE none == [token |-> "", fields |-> <<>>]
  <2>1. none \in Texts
    <3>1. FieldsFor(NoKey) = <<>> /\ "" \in Token /\ NoKey \in HeldKeys
      BY DEF FieldsFor, NoKey, Token, HeldKeys
    <3>. QED BY <3>1, RewrittenHas
  <2>. HIDE DEF none
  <2>2. \/ url \in [path : {"session"}, session : {"s"}, text : Tickets]
        \/ url = [path |-> "landing", session |-> "", text |-> none]
    BY DEF Init, none
  <2>3. CASE url \in [path : {"session"}, session : {"s"}, text : Tickets]
    BY <2>3 DEF Texts
  <2>4. CASE url = [path |-> "landing", session |-> "", text |-> none]
    BY <2>1, <2>4
  <2>. QED BY <2>2, <2>3, <2>4
<1>. QED BY <1>1, <1>2 DEF Init, LinkInv, URLInv, ViewInv, SubmittedInv, PageFollowsURL

LEMMA LinkInvNext == LinkInv /\ [Next]_vars => LinkInv'
<1>. SUFFICES ASSUME LinkInv, [Next]_vars PROVE LinkInv'
  OBVIOUS
<1>. USE DEF LinkInv
<1>1. CASE Load
  <2>1. URLInv'
    <3>1. /\ view = "loading" /\ UNCHANGED <<shared, url, hashchange>>
          /\ \/ view' = "landing" /\ url.path # "session"
             \/ view' \in {"blank", "incomplete"} /\ url.path = "session"
             \/ view' = "session" /\ ParseSessionURL(url) # {}
      BY <1>1 DEF Load
    <3>2. url.path # "session" => ParseSessionURL(url) = {}
      BY NotASession
    <3>3. url.path \in {"session", "landing"}
      BY DEF URLInv
    <3>. QED BY <3>1, <3>2, <3>3, TicketsStay DEF URLInv
  <2>. DEFINE found == ParseSessionURL(url)
  <2>2. url.path # "session" => found = {}
    BY NotASession
  <2>3. url.path = "session" => found = {} \/ \E l \in Located : found = {l}
    BY TextLocated DEF URLInv
  <2>. HIDE DEF found
  <2>4. view = "loading" /\ ~hashchange /\ locator = {} /\ ~ready
    BY <1>1 DEF Load, ViewInv
  <2>5. /\ UNCHANGED <<shared, url, hashchange, submitted, ready>>
        /\ IF url.path = "session" /\ Malformed(url.text)
           THEN view' = "blank" /\ locator' = {}
           ELSE IF found # {} THEN view' = "session" /\ locator' = found
           ELSE view' = (IF url.path = "session" THEN "incomplete" ELSE "landing") /\ locator' = {}
    BY <1>1, <2>4 DEF Load, found
  <2>6. found' = found /\ Malformed(url.text)' = Malformed(url.text) /\ Located' = Located
    BY <2>5, TicketsStay DEF found
  <2>7. ViewInv'
    BY <2>2, <2>3, <2>4, <2>5, <2>6 DEF ViewInv
  <2>8. SubmittedInv'
    BY <2>5, <2>6 DEF SubmittedInv, found
  <2>9. PageFollowsURL'
    <3>1. url.path = "session" => IF Malformed(url.text) THEN view' = "blank"
                                  ELSE locator' = found /\ (view' = "session" <=> locator' # {})
      BY <2>5
    <3>. QED BY <2>5, <2>6, <3>1 DEF PageFollowsURL, found
  <2>. QED BY <2>1, <2>7, <2>8, <2>9
<1>2. CASE KeysReady
  <2>1. /\ UNCHANGED <<shared, url, hashchange, submitted, view, locator>>
        /\ view = "session" /\ \E l \in locator : keys' = KeysFor(l)
    BY <1>2 DEF KeysReady, KeysFor
  <2>2. URLInv' /\ SubmittedInv' /\ PageFollowsURL'
    <3>1. URLInv'
      BY <2>1, TicketsStay DEF URLInv
    <3>2. SubmittedInv'
      BY <2>1 DEF SubmittedInv
    <3>3. PageFollowsURL'
      BY <2>1 DEF PageFollowsURL
    <3>. QED BY <3>1, <3>2, <3>3
  <2>3. PICK l \in Located : locator = {l}
    BY <2>1 DEF ViewInv
  <2>4. keys' = KeysFor(l)
    BY <2>1, <2>3
  <2>5. \A x \in locator' : (keys = KeysFor(x))'
    BY <2>1, <2>3, <2>4 DEF KeysFor
  <2>6. ViewInv'
    BY <2>1, <2>3, <2>5, TicketsStay DEF ViewInv
  <2>. QED BY <2>2, <2>6
<1>3. CASE EditFragment
  <2>1. /\ view # "loading" /\ url.path = "session" /\ hashchange' = TRUE
        /\ UNCHANGED <<shared, submitted, view, locator, keys, ready>>
    BY <1>3 DEF EditFragment
  <2>2. PICK text \in Tickets : url' = [url EXCEPT !.text = text]
    BY <1>3 DEF EditFragment
  <2>3. /\ url' \in [path : {"session", "landing"}, session : {"s", ""}, text : Texts]
        /\ url'.path = url.path /\ url'.session = url.session
    BY <2>2 DEF URLInv, Texts
  <2>4. URLInv'
    BY <2>1, <2>3, TicketsStay DEF URLInv
  <2>5. ViewInv'
    BY <2>1, TicketsStay DEF ViewInv, KeysFor
  <2>6. SubmittedInv' /\ PageFollowsURL'
    BY <2>1 DEF SubmittedInv, PageFollowsURL
  <2>. QED BY <2>4, <2>5, <2>6
<1>4. CASE Reload
  <2>1. /\ hashchange' = FALSE /\ submitted' = {} /\ view' = "loading" /\ locator' = {} /\ ready' = FALSE
        /\ UNCHANGED <<shared, url>> /\ hashchange
    BY <1>4 DEF Reload, Loading
  <2>2. URLInv'
    BY <2>1, TicketsStay DEF URLInv
  <2>. QED BY <2>1, <2>2 DEF ViewInv, SubmittedInv, PageFollowsURL
<1>5. CASE Submit
  <2>1. view \in {"landing", "rejected"} /\ UNCHANGED <<shared, hashchange>>
    BY <1>5 DEF Submit
  <2>2. url.path = "landing" /\ ~hashchange /\ locator = {} /\ ~ready
    BY <2>1 DEF URLInv, ViewInv
  <2>3. PICK text \in Tickets :
               LET parsed == ParseTicket("s", text) IN
               IF parsed = {}
               THEN view' = "rejected" /\ UNCHANGED <<url, submitted, locator, keys, ready, live>>
               ELSE /\ \E l \in parsed : url' = SessionURL(l)
                    /\ submitted' = parsed
                    /\ Loading
    BY <1>5 DEF Submit
  <2>4. CASE ParseTicket("s", text) = {}
    <3>1. view' = "rejected" /\ UNCHANGED <<url, submitted, locator, keys, ready>>
      BY <2>3, <2>4
    <3>2. URLInv'
      BY <2>1, <2>2, <3>1, TicketsStay DEF URLInv
    <3>3. ViewInv'
      BY <2>1, <2>2, <3>1 DEF ViewInv
    <3>4. SubmittedInv'
      BY <2>1, <3>1 DEF SubmittedInv
    <3>5. PageFollowsURL'
      BY <2>2, <3>1 DEF PageFollowsURL
    <3>. QED BY <3>2, <3>3, <3>4, <3>5
  <2>5. CASE ParseTicket("s", text) # {}
    <3>1. PICK l \in ParseTicket("s", text) : url' = SessionURL(l)
      BY <2>3, <2>5
    <3>2. /\ submitted' = ParseTicket("s", text)
          /\ view' = "loading" /\ locator' = {} /\ ready' = FALSE
      BY <2>3, <2>5 DEF Loading
    <3>3. PICK t \in Texts :
                 /\ url' = SessionPage(t) /\ submitted' = {l}
                 /\ l.token \notin Escaping =>
                      ~Malformed(t) /\ ParseSessionURL(SessionPage(t)) = {l}
      BY <3>1, <3>2, TicketPage DEF URLInv
    <3>4. /\ url' \in [path : {"session", "landing"}, session : {"s", ""}, text : Texts]
          /\ url'.path = "session" /\ url'.session = "s" /\ url'.text = t
      BY <3>3 DEF SessionPage
    <3>5. URLInv'
      BY <2>1, <3>2, <3>4, TicketsStay DEF URLInv
    <3>6. ViewInv'
      BY <2>1, <2>2, <3>2 DEF ViewInv
    <3>7. SubmittedInv'
      BY <3>3, <3>4 DEF SubmittedInv
    <3>8. PageFollowsURL'
      BY <3>2 DEF PageFollowsURL
    <3>. QED BY <3>5, <3>6, <3>7, <3>8
  <2>. QED BY <2>4, <2>5
<1>6. CASE UNCHANGED linkVars
  <2>1. URLInv'
    BY <1>6, TicketsStay DEF URLInv, linkVars
  <2>2. ViewInv'
    BY <1>6, TicketsStay DEF ViewInv, KeysFor, linkVars
  <2>3. SubmittedInv'
    BY <1>6 DEF SubmittedInv, linkVars
  <2>4. PageFollowsURL'
    BY <1>6 DEF PageFollowsURL, linkVars
  <2>. QED BY <2>1, <2>2, <2>3, <2>4
<1>7. CASE OutputArrives
  BY <1>6, <1>7 DEF OutputArrives
<1>8. CASE KeyArrives
  BY <1>6, <1>8 DEF KeyArrives
<1>9. CASE HostResizes
  BY <1>6, <1>9 DEF HostResizes
<1>10. CASE WindowResizes
  BY <1>6, <1>10 DEF WindowResizes
<1>11. CASE Reconnect
  BY <1>6, <1>11 DEF Reconnect
<1>12. CASE UNCHANGED vars
  BY <1>6, <1>12 DEF vars
<1>. QED
  BY <1>1, <1>2, <1>3, <1>4, <1>5, <1>7, <1>8, <1>9, <1>10, <1>11, <1>12 DEF Next

\* The inductive invariant: any URL of the session is one that a host or the form wrote, a
\* session view has the locator and keys it was opened with, and what was submitted is what the
\* URL says.
THEOREM LinkInvariance == Spec => []LinkInv
BY LinkInvInit, LinkInvNext, PTL DEF Spec

\* Another key derives another, and no key derives itself.
LEMMA DerivedApart ==
  ASSUME NEW key \in Key, NEW other \in Key, NEW info, key # other
  PROVE  Derive("s", key, info) # Derive("s", other, info)
<1>. DEFINE shift == IF info = "host to guest" THEN 100 ELSE 50
            a == Derive("s", key, info)
            b == Derive("s", other, info)
<1>1. PICK i \in 1..KeySize : key[i] # other[i]
  <2>1. SUFFICES ASSUME \A i \in 1..KeySize : key[i] = other[i] PROVE FALSE
    OBVIOUS
  <2>2. key = [i \in 1..KeySize |-> key[i]] /\ other = [i \in 1..KeySize |-> other[i]]
    BY DEF Key
  <2>3. key = other
    BY <2>1, <2>2
  <2>. QED BY <2>3
<1>2. key[i] \in Byte /\ other[i] \in Byte
  BY DEF Key
<1>3. a[i] = (key[i] + (shift + 0)) % 256 /\ b[i] = (other[i] + (shift + 0)) % 256
  BY KeyIsBytes DEF Derive
<1>. HIDE DEF a, b
<1>4. a[i] # b[i]
  <2>1. \A x, y \in Byte : x # y => /\ (x + (100 + 0)) % 256 # (y + (100 + 0)) % 256
                                    /\ (x + (50 + 0)) % 256 # (y + (50 + 0)) % 256
    <3>1. \A x \in Byte : (x + (100 + 0)) % 256 = IF x < 156 THEN x + 100 ELSE x - 156
      BY DEF Byte
    <3>2. \A x \in Byte : (x + (50 + 0)) % 256 = IF x < 206 THEN x + 50 ELSE x - 206
      BY DEF Byte
    <3>3. \A x, y \in Byte : x # y =>
            /\ (IF x < 156 THEN x + 100 ELSE x - 156) # (IF y < 156 THEN y + 100 ELSE y - 156)
            /\ (IF x < 206 THEN x + 50 ELSE x - 206) # (IF y < 206 THEN y + 50 ELSE y - 206)
      BY DEF Byte
    <3>. QED BY <3>1, <3>2, <3>3
  <2>2. shift = 100 \/ shift = 50
    OBVIOUS
  <2>. HIDE DEF shift
  <2>. QED BY <1>1, <1>2, <1>3, <2>1, <2>2
<1>. QED BY <1>4 DEF a, b

LEMMA DerivedMoves ==
  ASSUME NEW key \in Key
  PROVE  Derive("s", key, "host to guest") # key
<1>. DEFINE a == Derive("s", key, "host to guest")
<1>1. 1 \in 1..KeySize
  BY LinkAssumption
<1>2. key[1] \in Byte
  BY <1>1 DEF Key
<1>3. a[1] = (key[1] + (100 + 0)) % 256
  BY <1>1, KeyIsBytes DEF Derive
<1>. HIDE DEF a
<1>4. a[1] # key[1]
  BY <1>2, <1>3 DEF Byte
<1>. QED BY <1>4 DEF a

\* So a key that was misread has no part in the session.
LEMMA MisreadApart ==
  ASSUME shared \in Shared, shared.kind # "none", NEW k \in AnyKey, k # HostKey,
         k.kind = HostKey.kind \/ k.key = HostKey.key
  PROVE  LET t == FromTicketKey("s", k.key, k.kind)
         IN  t.reading # HostKeys.reading /\ t.writing # HostKeys.writing
<1>. DEFINE root == shared.root
            reading == Derive("s", root, "host to guest")
            writing == Derive("s", root, "guest to host")
            t == FromTicketKey("s", k.key, k.kind)
<1>1. HostKeys = [reading |-> reading, writing |-> writing]
  BY DEF HostKeys, FromTicketKey
<1>2. /\ HostKey.key = IF shared.kind = "root" THEN root ELSE reading
      /\ HostKey.kind = shared.kind /\ HostKey = [key |-> HostKey.key, kind |-> HostKey.kind]
  BY <1>1 DEF HostKey
<1>3. root \in Key /\ reading \in Key /\ writing \in Key /\ reading # root
  <2>1. root \in Key
    BY HostKeyType
  <2>. QED BY <2>1, DerivedKey, DerivedMoves
<1>4. /\ k = [key |-> k.key, kind |-> k.kind] /\ k.key \in Key /\ k.kind \in {"root", "viewer"}
      /\ shared.kind \in {"root", "viewer"}
  BY DEF AnyKey, Shared
<1>5. /\ k.kind = "viewer" => t.reading = k.key /\ t.writing = <<>>
      /\ k.kind = "root" => /\ t.reading = Derive("s", k.key, "host to guest")
                            /\ t.writing = Derive("s", k.key, "guest to host")
  BY DEF FromTicketKey
<1>6. HostKeys.reading = reading /\ HostKeys.writing = writing
  BY <1>1
<1>7. writing # <<>>
  BY <1>3, KeyIsBytes
<1>8. k.key # HostKey.key \/ k.kind # HostKey.kind
  BY <1>2, <1>4
<1>9. k.kind = "root" => k.key # root
  BY <1>2, <1>3, <1>4, <1>8
<1>10. k.kind = "viewer" => k.key # reading
  BY <1>2, <1>3, <1>4, <1>8
<1>11. CASE k.kind = "viewer"
  <2>. HIDE DEF t, reading, writing, root
  <2>. QED BY <1>5, <1>6, <1>7, <1>10, <1>11 DEF t
<1>12. CASE k.kind = "root"
  <2>1. Derive("s", k.key, "host to guest") # reading
    BY <1>3, <1>4, <1>9, <1>12, DerivedApart
  <2>2. Derive("s", k.key, "guest to host") # writing
    BY <1>3, <1>4, <1>9, <1>12, DerivedApart
  <2>. HIDE DEF t, reading, writing, root
  <2>. QED BY <1>5, <1>6, <1>12, <2>1, <2>2 DEF t
<1>. QED BY <1>4, <1>11, <1>12

\* What any page of the session holds, of what the host holds.
LEMMA LocatedKeys ==
  ASSUME shared \in Shared, NEW l \in Located
  PROVE  /\ l.kind = "none" => KeysFor(l) = NoKeys
         /\ l.kind # "none" =>
              /\ shared.kind # "none"
              /\ KeysFor(l) # NoKeys
              /\ \/ /\ KeysFor(l).reading = HostKeys.reading
                    /\ KeysFor(l).writing = IF shared.kind = "viewer" THEN <<>> ELSE HostKeys.writing
                 \/ /\ [key |-> l.key, kind |-> l.kind] \in MisreadKeys
                    /\ KeysFor(l).reading # HostKeys.reading
                    /\ KeysFor(l).writing # HostKeys.writing
<1>1. l.kind = "none" => KeysFor(l) = NoKeys
  BY DEF KeysFor
<1>2. ASSUME l.kind # "none"
      PROVE  /\ shared.kind # "none"
             /\ KeysFor(l) # NoKeys
             /\ \/ /\ KeysFor(l).reading = HostKeys.reading
                   /\ KeysFor(l).writing = IF shared.kind = "viewer" THEN <<>> ELSE HostKeys.writing
                \/ /\ [key |-> l.key, kind |-> l.kind] \in MisreadKeys
                   /\ KeysFor(l).reading # HostKeys.reading
                   /\ KeysFor(l).writing # HostKeys.writing
  <2>1. PICK k \in HeldKeys : l \in { Locator("s", token, k) : token \in Token }
    BY DEF Located
  <2>2. l.session = "s" /\ l.key = k.key /\ l.kind = k.kind
    <3>1. PICK token \in Token : l = Locator("s", token, k)
      BY <2>1
    <3>. QED BY <3>1 DEF Locator
  <2>3. k \in AnyKey /\ shared.kind # "none"
    <3>1. NoKey.kind = "none" /\ (shared.kind = "none" => HostKey = NoKey)
      BY DEF NoKey, HostKey
    <3>2. k # NoKey
      BY <1>2, <2>2, <3>1
    <3>. QED BY <3>1, <3>2, HeldKeysAre, MisreadKeysAre DEF HeldKeys
  <2>4. k = [key |-> l.key, kind |-> l.kind] /\ k.key \in Key /\ k.kind \in {"root", "viewer"}
    BY <2>2, <2>3 DEF AnyKey
  <2>5. KeysFor(l) = FromTicketKey("s", k.key, k.kind)
    BY <1>2, <2>2 DEF KeysFor
  <2>6. NoKeys.reading = <<>>
    BY DEF NoKeys
  <2>7. KeysFor(l).reading \in Key
    <3>1. CASE k.kind = "viewer"
      BY <2>4, <2>5, <3>1 DEF FromTicketKey
    <3>2. CASE k.kind = "root"
      <4>1. KeysFor(l).reading = Derive("s", k.key, "host to guest")
        <5>. DEFINE r == Derive("s", k.key, "host to guest")
                    w == Derive("s", k.key, "guest to host")
        <5>1. FromTicketKey("s", k.key, k.kind) = [reading |-> r, writing |-> w]
          BY <3>2 DEF FromTicketKey
        <5>. HIDE DEF r, w
        <5>2. KeysFor(l).reading = r
          BY <2>5, <5>1
        <5>. QED BY <5>2 DEF r
      <4>. QED BY <2>4, <4>1, DerivedKey
    <3>. QED BY <2>4, <3>1, <3>2
  <2>8. KeysFor(l) # NoKeys
    BY <2>6, <2>7, KeyIsBytes
  <2>9. CASE k = HostKey
    <3>1. HostKey.kind = shared.kind
      BY <2>3, HostKeyType
    <3>2. CASE shared.kind = "root"
      <4>1. HostKey.key = shared.root
        BY <3>2 DEF HostKey
      <4>2. KeysFor(l) = HostKeys
        BY <2>5, <2>9, <3>1, <3>2, <4>1 DEF HostKeys
      <4>. QED BY <2>3, <2>8, <3>2, <4>2
    <3>3. CASE shared.kind = "viewer"
      <4>1. HostKey.key = HostKeys.reading
        BY <3>3 DEF HostKey
      <4>. HIDE DEF HostKeys
      <4>2. KeysFor(l) = [reading |-> HostKeys.reading, writing |-> <<>>]
        BY <2>5, <2>9, <3>1, <3>3, <4>1 DEF FromTicketKey
      <4>. QED BY <2>3, <2>8, <3>3, <4>2
    <3>. QED BY <2>3, <3>2, <3>3 DEF Shared
  <2>10. CASE k # HostKey
    <3>1. k \in MisreadKeys
      <4>1. k # NoKey
        BY <1>2, <2>2 DEF NoKey
      <4>. QED BY <2>10, <4>1 DEF HeldKeys
    <3>2. KeysFor(l).reading # HostKeys.reading /\ KeysFor(l).writing # HostKeys.writing
      BY <2>3, <2>5, <2>10, <3>1, MisreadKeysAre, MisreadApart
    <3>. QED BY <2>3, <2>4, <2>8, <3>1, <3>2
  <2>. QED BY <2>9, <2>10
<1>. QED BY <1>1, <1>2

\* A key that a page joins with is the host's, unless a digit or the letter was misread; then
\* the page can neither read nor write.
THEOREM KeyIsTheHostsHolds == Spec => []KeyIsTheHosts
<1>1. LinkInv => KeyIsTheHosts
  <2>. SUFFICES ASSUME LinkInv, ready, keys # NoKeys
                PROVE  \/ /\ keys.reading = HostKeys.reading
                          /\ keys.writing = IF shared.kind = "viewer" THEN <<>> ELSE HostKeys.writing
                       \/ /\ \A l \in locator : [key |-> l.key, kind |-> l.kind] \in MisreadKeys
                          /\ keys.reading # HostKeys.reading /\ keys.writing # HostKeys.writing
    BY DEF KeyIsTheHosts
  <2>1. PICK l \in Located : locator = {l} /\ keys = KeysFor(l)
    BY DEF LinkInv, ViewInv
  <2>. QED BY <2>1, LocatedKeys DEF LinkInv, URLInv
<1>. QED BY <1>1, LinkInvariance, PTL

\* A ticket that the form takes arrives at the page it leads to, key and kind included, unless
\* its token has a percent sign.
THEOREM TicketArrivesHolds == Spec => []TicketArrives
<1>1. LinkInv => TicketArrives
  <2>. SUFFICES ASSUME LinkInv, submitted # {}, ~hashchange, view # "loading",
                       \A l \in submitted : l.token \notin Escaping
                PROVE  view = "session" /\ locator = submitted
    BY DEF TicketArrives
  <2>1. url.path = "session" /\ ~Malformed(url.text) /\ ParseSessionURL(url) = submitted
    BY DEF LinkInv, SubmittedInv
  <2>. QED BY <2>1 DEF LinkInv, PageFollowsURL
<1>. QED BY <1>1, LinkInvariance, PTL

\* Once a fragment that was edited has been noticed, page and URL agree.
THEOREM PageFollowsURLHolds == Spec => []PageFollowsURL
<1>1. LinkInv => PageFollowsURL
  BY DEF LinkInv
<1>. QED BY <1>1, LinkInvariance, PTL

-----------------------------------------------------------------------------
(* Frames. *)

LEMMA Product ==
  ASSUME NEW a \in Nat, NEW b \in Nat
  PROVE  a * b \in Nat /\ (a > 0 /\ b > 0 => a * b > 0)
OBVIOUS

LEMMA TimesAtLeast ==
  ASSUME NEW a \in Nat, NEW b \in Nat, NEW c \in Nat, b <= c
  PROVE  a * b <= a * c
OBVIOUS

\* Dividing twice is dividing by the product.
LEMMA DividedTwice ==
  ASSUME NEW n \in Nat, NEW a \in Nat, NEW b \in Nat, a > 0, b > 0
  PROVE  (n \div a) \div b = n \div (a * b)
<1>. DEFINE q == n \div a
            r == n % a
            p == q \div b
            s == q % b
<1>1. q \in Nat /\ r \in Nat /\ r < a /\ n = a * q + r
  BY Division
<1>. HIDE DEF q, r
<1>2. p \in Nat /\ s \in Nat /\ s < b /\ q = b * p + s
  BY <1>1, Division
<1>. HIDE DEF p, s
<1>3. a * (b * p + s) = (a * b) * p + a * s
  BY <1>2
<1>4. a * s <= a * (b - 1) /\ a * (b - 1) = a * b - a
  <2>1. b - 1 \in Nat /\ s <= b - 1
    BY <1>2
  <2>2. a * (b - 1) = a * b - a
    OBVIOUS
  <2>. QED BY <1>2, <2>1, <2>2, TimesAtLeast
<1>5. a * s \in Nat /\ a * b \in Nat /\ a * b > 0
  BY <1>2, Product
<1>. DEFINE m == a * b
            t == a * s
<1>6. n = m * p + (t + r)
  BY <1>1, <1>2, <1>3
<1>. HIDE DEF m
<1>7. t \in Nat /\ m \in Nat /\ m > 0 /\ t <= m - a
  BY <1>4, <1>5 DEF m
<1>. HIDE DEF t
<1>8. 0 <= t + r /\ t + r < m /\ t + r \in Int
  BY <1>1, <1>7
<1>9. n \div m = p
  BY <1>2, <1>6, <1>7, <1>8, Quotient
<1>. QED BY <1>9 DEF m, p, q

\* A channel's number survives the header, so that no two channels share their additional data.
LEMMA ChannelRead ==
  ASSUME NEW c \in Channel
  PROVE  GetUint32(SetUint32(c)) = c
<1>. DEFINE B2 == Base * Base
            B3 == Base * Base * Base
            q1 == c \div Base
            q2 == c \div B2
            q3 == c \div B3
<1>1. Base \in Nat /\ Base > 0 /\ c \in Nat
  BY WireAssumption DEF Channel
<1>2. B2 \in Nat /\ B2 > 0
  BY <1>1, Product
<1>3. B3 \in Nat /\ B3 > 0
  BY <1>1, <1>2, Product
<1>4. c < B3 * Base
  <2>1. Base * Base * Base * Base \in Nat
    BY <1>1, <1>3, Product
  <2>. QED BY <2>1 DEF Channel
<1>5. SetUint32(c) = << q3 % Base, q2 % Base, q1 % Base, c % Base >>
  BY DEF SetUint32
<1>6. q1 \in Nat /\ q2 \in Nat /\ q3 \in Nat /\ c = B3 * q3 + (c % B3) /\ c % B3 \in Nat
  <2>. HIDE DEF B2, B3
  <2>. QED BY <1>1, <1>2, <1>3, Division
<1>7. q2 = q1 \div Base /\ q3 = q2 \div Base
  <2>1. q2 = q1 \div Base
    BY <1>1, DividedTwice
  <2>2. (c \div B2) \div Base = c \div (B2 * Base)
    <3>. HIDE DEF B2
    <3>. QED BY <1>1, <1>2, DividedTwice
  <2>. QED BY <2>1, <2>2
<1>. HIDE DEF B2, q1, q2, q3
<1>8. q3 < Base
  <2>. HIDE DEF B3
  <2>1. SUFFICES ASSUME Base <= q3 PROVE FALSE
    BY <1>1, <1>6
  <2>2. B3 * Base <= B3 * q3 /\ B3 * Base \in Nat /\ B3 * q3 \in Nat
    BY <1>1, <1>3, <1>6, <2>1, TimesAtLeast, Product
  <2>. DEFINE x == B3 * Base
              y == B3 * q3
              z == c % B3
  <2>3. c < x /\ x <= y /\ c = y + z /\ x \in Nat /\ y \in Nat /\ z \in Nat
    BY <1>4, <1>6, <2>2
  <2>. HIDE DEF x, y, z
  <2>. QED BY <1>1, <2>3
<1>. HIDE DEF B3
<1>9. q3 % Base = q3
  BY <1>1, <1>6, <1>8
<1>10. /\ c = Base * q1 + (c % Base) /\ q1 = Base * q2 + (q1 % Base)
       /\ q2 = Base * q3 + (q2 % Base)
  <2>1. c = Base * q1 + (c % Base)
    BY <1>1, Division DEF q1
  <2>2. q1 = Base * q2 + (q1 % Base)
    BY <1>1, <1>6, <1>7, Division
  <2>3. q2 = Base * q3 + (q2 % Base)
    BY <1>1, <1>6, <1>7, Division
  <2>. QED BY <2>1, <2>2, <2>3
<1>11. \A i \in Nat : Base * i = i * Base
  BY <1>1
<1>. DEFINE w == << q3 % Base, q2 % Base, q1 % Base, c % Base >>
<1>12. w[1] = q3 /\ w[2] = q2 % Base /\ w[3] = q1 % Base /\ w[4] = c % Base
  BY <1>9
<1>. HIDE DEF w
<1>13. /\ w[1] * Base + w[2] = q2 /\ q2 * Base + w[3] = q1 /\ q1 * Base + w[4] = c
  BY <1>6, <1>10, <1>11, <1>12
<1>14. GetUint32(w) = c
  BY <1>13 DEF GetUint32
<1>. QED BY <1>5, <1>14 DEF w

LEMMA Types == TypeValues.DATA = 2 /\ TypeValues.OPEN = 1 /\ "WINDOW" \notin FrameType
BY DEF TypeValues, FrameType

LEMMA FiveBytes ==
  ASSUME NEW x, NEW a, NEW b, NEW c, NEW d
  PROVE  LET h == <<x>> \o <<a, b, c, d>> IN
         /\ Len(h) = 5 /\ h[1] = x /\ Tail(h) = <<a, b, c, d>>
         /\ Len(SubSeq(h, 1, 4)) = 4 /\ \A y : Len([h EXCEPT ![1] = y]) = 5 /\ [h EXCEPT ![1] = y][1] = y
<1>. DEFINE S == {x, a, b, c, d}
            u == <<x>>
            v == <<a, b, c, d>>
            t == <<x, a, b, c, d>>
            h == u \o v
<1>1. u \in Seq(S) /\ Len(u) = 1 /\ u[1] = x
  OBVIOUS
<1>2. v \in Seq(S) /\ Len(v) = 4 /\ v[1] = a /\ v[2] = b /\ v[3] = c /\ v[4] = d
  OBVIOUS
<1>3. t \in Seq(S) /\ Len(t) = 5 /\ t[1] = x /\ t[2] = a /\ t[3] = b /\ t[4] = c /\ t[5] = d
  OBVIOUS
<1>4. /\ Tail(t) = v /\ Len(SubSeq(t, 1, 4)) = 4
      /\ \A y : Len([t EXCEPT ![1] = y]) = 5 /\ [t EXCEPT ![1] = y][1] = y
  <2>1. Tail(t) = v
    OBVIOUS
  <2>2. Len(SubSeq(t, 1, 4)) = 4
    OBVIOUS
  <2>3. ASSUME NEW y PROVE Len([t EXCEPT ![1] = y]) = 5 /\ [t EXCEPT ![1] = y][1] = y
    OBVIOUS
  <2>. QED BY <2>1, <2>2, <2>3
<1>5. h = t
  <2>. HIDE DEF S, u, v, t
  <2>1. /\ h \in Seq(S) /\ Len(h) = Len(u) + Len(v)
        /\ \A i \in 1..(Len(u) + Len(v)) : h[i] = IF i <= Len(u) THEN u[i] ELSE v[i - Len(u)]
    BY <1>1, <1>2, ConcatProperties
  <2>. HIDE DEF h
  <2>2. /\ h \in Seq(S) /\ Len(h) = 5
        /\ \A i \in 1..5 : h[i] = IF i <= 1 THEN u[i] ELSE v[i - 1]
    BY <1>1, <1>2, <2>1
  <2>3. h[1] = x /\ h[2] = a /\ h[3] = b /\ h[4] = c /\ h[5] = d
    BY <1>1, <1>2, <2>2
  <2>. QED BY <1>3, <2>2, <2>3, SeqEqual
<1>. HIDE DEF t
<1>. QED BY <1>3, <1>4, <1>5

\* The frame that a message with this header and payload is read as, by either side.
LEMMA HeaderRead ==
  ASSUME NEW c \in Channel, NEW m, m.kind = "binary", m.header = <<TypeValues.DATA>> \o SetUint32(c)
  PROVE  LET f == [type |-> "DATA", channel |-> c, payload |-> m.payload]
         IN  Decode(m) = {f} /\ Unmarshal(m) = IF Within(m.payload) THEN {f} ELSE {}
<1>. DEFINE w == SetUint32(c)
<1>1. PICK a, b, d, e : w = <<a, b, d, e>>
  BY DEF SetUint32
<1>2. GetUint32(w) = c
  BY ChannelRead
<1>. HIDE DEF w
<1>3. Len(<<TypeValues.DATA>> \o w) = 5 /\ (<<TypeValues.DATA>> \o w)[1] = TypeValues.DATA
      /\ Tail(<<TypeValues.DATA>> \o w) = w
  BY <1>1, FiveBytes
<1>4. Len(m.header) = 5 /\ m.header[1] = TypeValues.DATA /\ Tail(m.header) = w
  BY <1>3 DEF w
<1>5. GetUint32(Tail(m.header)) = c
  BY <1>2, <1>4
<1>6. ~(Len(m.header) < BINARY_HEADER_LEN)
  BY <1>4 DEF BINARY_HEADER_LEN
<1>7. Decode(m) = {[type |-> "DATA", channel |-> c, payload |-> m.payload]}
  BY <1>4, <1>5, <1>6 DEF Decode, DecodeBinary
<1>8. Unmarshal(m) = IF Within(m.payload)
                     THEN {[type |-> "DATA", channel |-> c, payload |-> m.payload]} ELSE {}
  BY <1>4, <1>5, <1>6 DEF Unmarshal
<1>. QED BY <1>7, <1>8

LEMMA HeaderRefused ==
  ASSUME NEW m, m.kind = "binary", Len(m.header) < BINARY_HEADER_LEN \/ m.header[1] # TypeValues.DATA
  PROVE  Decode(m) = {} /\ Unmarshal(m) = {}
BY DEF Decode, DecodeBinary, Unmarshal

LEMMA TextRead ==
  ASSUME NEW m, m.kind = "text"
  PROVE  DataOf(Decode(m)) = {} /\ DataOf(Unmarshal(m)) = {}
<1>1. \A f \in Decode(m) : f.type # "DATA"
  BY DEF Decode, DecodeControl
<1>2. \A f \in Unmarshal(m) : f.type # "DATA"
  BY DEF Unmarshal
<1>. QED BY <1>1, <1>2 DEF DataOf

LEMMA OneDataFrame ==
  ASSUME NEW d, NEW p
  PROVE  LET f == [type |-> "DATA", channel |-> d, payload |-> p]
         IN  DataOf({f}) = {f} /\ DataOf({}) = {}
<1>. DEFINE f == [type |-> "DATA", channel |-> d, payload |-> p]
<1>1. f.type = "DATA"
  OBVIOUS
<1>. HIDE DEF f
<1>2. DataOf({f}) = {f} /\ DataOf({}) = {}
  BY <1>1 DEF DataOf
<1>. QED BY <1>2 DEF f

\* What data is read from a message that was altered.
LEMMA AlteredRead ==
  ASSUME NEW c \in Channel, NEW payload, NEW arrived \in Altered(EncodeData(payload, c)),
         NEW frames \in {DataOf(Decode(arrived)), DataOf(Unmarshal(arrived))}
  PROVE  \/ frames = {}
         \/ /\ Encrypted
            /\ frames = {[type |-> "DATA", channel |-> c, payload |-> [payload EXCEPT !.altered = TRUE]]}
         \/ /\ Encrypted
            /\ \E d \in Channels :
                 /\ arrived = EncodeData(payload, d)
                 /\ frames = {[type |-> "DATA", channel |-> d, payload |-> payload]}
<1>. DEFINE m == EncodeData(payload, c)
            h == <<TypeValues.DATA>> \o SetUint32(c)
            data(d, p) == [type |-> "DATA", channel |-> d, payload |-> p]
            text(type) == EncodeControl(type, m.payload, 0)
            long == [EncodeControl("PING", m.payload, 0) EXCEPT !.size = MaxPayloadLen + 1]
<1>1. m = [kind |-> "binary", header |-> h, payload |-> payload]
  BY DEF EncodeData, Binary
<1>2. Len(SubSeq(h, 1, 4)) = 4 /\ [h EXCEPT ![1] = TypeValues.OPEN][1] = TypeValues.OPEN
  <2>1. PICK a, b, d, e : SetUint32(c) = <<a, b, d, e>>
    BY DEF SetUint32
  <2>. QED BY <2>1, FiveBytes
<1>. HIDE DEF m, text, long
<1>3. \/ arrived = [m EXCEPT !.header = SubSeq(@, 1, 4)]
      \/ arrived = [m EXCEPT !.header[1] = TypeValues.OPEN]
      \/ arrived = long
      \/ \E type \in {"DATA", "WINDOW", "constructor"} : arrived = text(type)
      \/ Encrypted /\ arrived = [m EXCEPT !.payload.altered = TRUE]
      \/ Encrypted /\ \E d \in Channels : arrived = [m EXCEPT !.header = <<TypeValues.DATA>> \o SetUint32(d)]
  BY DEF Altered, m, text, long
<1>4. ASSUME arrived.kind = "binary",
             Len(arrived.header) < BINARY_HEADER_LEN \/ arrived.header[1] # TypeValues.DATA
      PROVE  frames = {}
  BY <1>4, HeaderRefused DEF DataOf
<1>5. ASSUME NEW d \in Channel, NEW p, arrived.kind = "binary", arrived.payload = p,
             arrived.header = <<TypeValues.DATA>> \o SetUint32(d)
      PROVE  frames = {} \/ frames = {data(d, p)}
  <2>1. /\ Decode(arrived) = {data(d, p)}
        /\ Unmarshal(arrived) = {data(d, p)} \/ Unmarshal(arrived) = {}
    BY <1>5, HeaderRead
  <2>2. DataOf({data(d, p)}) = {data(d, p)} /\ DataOf({}) = {}
    BY OneDataFrame
  <2>. HIDE DEF data
  <2>. QED BY <2>1, <2>2
<1>6. CASE arrived = [m EXCEPT !.header = SubSeq(@, 1, 4)]
  <2>. HIDE DEF h
  <2>1. arrived.kind = "binary" /\ arrived.header = SubSeq(h, 1, 4)
    BY <1>1, <1>6
  <2>2. Len(arrived.header) < BINARY_HEADER_LEN
    BY <1>2, <2>1 DEF BINARY_HEADER_LEN, h
  <2>. QED BY <1>4, <2>1, <2>2
<1>7. CASE arrived = [m EXCEPT !.header[1] = TypeValues.OPEN]
  <2>. HIDE DEF h
  <2>1. arrived.kind = "binary" /\ arrived.header = [h EXCEPT ![1] = TypeValues.OPEN]
    BY <1>1, <1>7
  <2>2. arrived.header[1] # TypeValues.DATA
    BY <1>2, <2>1, Types DEF h
  <2>. QED BY <1>4, <2>1, <2>2
<1>8. CASE arrived = long \/ \E type \in {"DATA", "WINDOW", "constructor"} : arrived = text(type)
  <2>1. arrived.kind = "text"
    BY <1>8 DEF long, text, EncodeControl
  <2>. QED BY <2>1, TextRead
<1>9. ASSUME arrived = [m EXCEPT !.payload.altered = TRUE]
      PROVE  frames = {} \/ frames = {data(c, [payload EXCEPT !.altered = TRUE])}
  <2>. HIDE DEF h
  <2>1. /\ arrived.kind = "binary" /\ arrived.header = h
        /\ arrived.payload = [payload EXCEPT !.altered = TRUE]
    BY <1>1, <1>9
  <2>. QED BY <1>5, <2>1 DEF h
<1>10. ASSUME NEW d \in Channels, arrived = [m EXCEPT !.header = <<TypeValues.DATA>> \o SetUint32(d)]
       PROVE  arrived = EncodeData(payload, d) /\ (frames = {} \/ frames = {data(d, payload)})
  <2>. DEFINE g == <<TypeValues.DATA>> \o SetUint32(d)
  <2>1. arrived = [kind |-> "binary", header |-> g, payload |-> payload]
    <3>. HIDE DEF g, h
    <3>. QED BY <1>1, <1>10 DEF g
  <2>2. d \in Channel
    BY PageAssumption
  <2>3. arrived = EncodeData(payload, d)
    BY <2>1 DEF EncodeData, Binary
  <2>. HIDE DEF g
  <2>4. arrived.kind = "binary" /\ arrived.header = g /\ arrived.payload = payload
    BY <2>1
  <2>5. frames = {} \/ frames = {data(d, payload)}
    BY <1>5, <2>2, <2>4 DEF g
  <2>. QED BY <2>3, <2>5
<1>. QED BY <1>3, <1>6, <1>7, <1>8, <1>9, <1>10

\* A sealed payload opens with its key on its channel, and not with another key, nor once it was
\* altered or moved.
LEMMA SealedOpens ==
  ASSUME NEW key, NEW other, NEW bytes, NEW c \in Channel
  PROVE  /\ Open(other, c, Seal(key, c, bytes)) = IF other = key THEN {bytes} ELSE {}
         /\ Open(other, c, [Seal(key, c, bytes) EXCEPT !.altered = TRUE]) = {}
         /\ \A d \in Channel : d # c => Open(other, d, Seal(key, c, bytes)) = {}
<1>. DEFINE s == Seal(key, c, bytes)
            a == [s EXCEPT !.altered = TRUE]
<1>1. s.key = key /\ s.aad = ChannelAAD(c) /\ s.bytes = bytes /\ s.altered = FALSE
  BY DEF Seal
<1>2. a.altered = TRUE
  BY DEF Seal
<1>3. ASSUME NEW d \in Channel, d # c
      PROVE  ChannelAAD(d) # ChannelAAD(c)
  <2>1. GetUint32(SetUint32(d)) # GetUint32(SetUint32(c))
    BY <1>3, ChannelRead
  <2>. QED BY <2>1 DEF ChannelAAD
<1>. HIDE DEF s, a
<1>4. Open(other, c, s) = (IF other = key THEN {bytes} ELSE {}) /\ Open(other, c, a) = {}
  BY <1>1, <1>2 DEF Open
<1>5. ASSUME NEW d \in Channel, d # c
      PROVE  Open(other, d, s) = {}
  BY <1>1, <1>3, <1>5 DEF Open
<1>. QED BY <1>4, <1>5 DEF s, a

\* What either end writes for data.
Sealed(key, c, bytes) == IF Encrypted THEN Seal(key, c, bytes) ELSE Plain(bytes)
Written(key, c, bytes) == EncodeData(Sealed(key, c, bytes), c)

\* What is taken from frames of data.
TakenFrom(key, frames) ==
  UNION { IF Encrypted THEN Open(key, f.channel, f.payload) ELSE {f.payload.bytes} : f \in frames }

\* So both ends take of a message what was written into it, or nothing: the page of any length,
\* Go within the limit, and either with the key it was sealed with.
LEMMA DataOpened ==
  ASSUME NEW key, NEW other, NEW bytes, NEW c \in Channel,
         NEW m, m = Written(key, c, bytes), NEW arrived \in {m} \cup Altered(m),
         NEW frames, \/ frames = DataOf(Unmarshal(arrived))
                     \/ frames = DataOf(Decode(arrived)) /\ Within(m.payload)
  PROVE  TakenFrom(other, frames) =
           IF arrived = m /\ Within(m.payload) /\ (Encrypted => other = key) THEN {bytes} ELSE {}
<1>. DEFINE payload == Sealed(key, c, bytes)
            Taken(f) == IF Encrypted THEN Open(other, f.channel, f.payload) ELSE {f.payload.bytes}
            data(d, p) == [type |-> "DATA", channel |-> d, payload |-> p]
<1>1. m = EncodeData(payload, c)
  BY DEF Written
<1>2. /\ Encrypted => payload = Seal(key, c, bytes)
      /\ ~Encrypted => payload.bytes = bytes
  BY DEF Plain, Sealed
<1>. HIDE DEF payload
<1>3. \A d, p : data(d, p).channel = d /\ data(d, p).payload = p
  OBVIOUS
<1>. HIDE DEF data
<1>4. ASSUME NEW d, NEW p, frames = {data(d, p)}
      PROVE  UNION { Taken(f) : f \in frames } =
               IF Encrypted THEN Open(other, d, p) ELSE {p.bytes}
  <2>1. Taken(data(d, p)) = IF Encrypted THEN Open(other, d, p) ELSE {p.bytes}
    BY <1>3
  <2>. HIDE DEF Taken
  <2>. QED BY <1>4, <2>1
<1>5. ASSUME frames = {}
      PROVE  UNION { Taken(f) : f \in frames } = {}
  <2>. HIDE DEF Taken
  <2>. QED BY <1>5
<1>6. ASSUME arrived = m
      PROVE  UNION { Taken(f) : f \in frames } =
               IF Within(m.payload) /\ (Encrypted => other = key) THEN {bytes} ELSE {}
  <2>1. /\ arrived.kind = "binary" /\ arrived.header = <<TypeValues.DATA>> \o SetUint32(c)
        /\ arrived.payload = payload /\ m.payload = payload
    BY <1>1, <1>6 DEF EncodeData, Binary
  <2>2. /\ Decode(arrived) = {data(c, payload)}
        /\ Unmarshal(arrived) = IF Within(payload) THEN {data(c, payload)} ELSE {}
    BY <2>1, HeaderRead DEF data
  <2>3. DataOf({data(c, payload)}) = {data(c, payload)} /\ DataOf({}) = {}
    BY OneDataFrame DEF data
  <2>4. frames = IF Within(payload) THEN {data(c, payload)} ELSE {}
    <3>1. CASE frames = DataOf(Unmarshal(arrived))
      BY <2>2, <2>3, <3>1
    <3>2. CASE frames = DataOf(Decode(arrived)) /\ Within(m.payload)
      BY <2>1, <2>2, <2>3, <3>2
    <3>. QED BY <3>1, <3>2
  <2>. HIDE DEF Taken
  <2>5. CASE ~Within(payload)
    BY <1>5, <2>1, <2>4, <2>5
  <2>6. CASE Within(payload)
    <3>1. UNION { Taken(f) : f \in frames } =
            IF Encrypted THEN Open(other, c, payload) ELSE {payload.bytes}
      BY <1>4, <2>4, <2>6
    <3>2. CASE Encrypted
      <4>1. Open(other, c, payload) = IF other = key THEN {bytes} ELSE {}
        <5>1. payload = Seal(key, c, bytes)
          BY <1>2, <3>2
        <5>. QED BY <5>1, SealedOpens
      <4>. QED BY <2>1, <2>6, <3>1, <3>2, <4>1
    <3>3. CASE ~Encrypted
      BY <1>2, <2>1, <2>6, <3>1, <3>3
    <3>. QED BY <3>2, <3>3
  <2>. QED BY <2>5, <2>6
<1>7. ASSUME arrived # m
      PROVE  UNION { Taken(f) : f \in frames } = {}
  <2>1. arrived \in Altered(EncodeData(payload, c))
    BY <1>1, <1>7
  <2>2. frames \in {DataOf(Decode(arrived)), DataOf(Unmarshal(arrived))}
    OBVIOUS
  <2>3. \/ frames = {}
        \/ Encrypted /\ frames = {data(c, [payload EXCEPT !.altered = TRUE])}
        \/ /\ Encrypted
           /\ \E d \in Channels :
                arrived = EncodeData(payload, d) /\ frames = {data(d, payload)}
    BY <2>1, <2>2, AlteredRead DEF data
  <2>4. ASSUME Encrypted, frames = {data(c, [payload EXCEPT !.altered = TRUE])}
        PROVE  UNION { Taken(f) : f \in frames } = {}
    <3>1. UNION { Taken(f) : f \in frames } = Open(other, c, [payload EXCEPT !.altered = TRUE])
      BY <1>4, <2>4
    <3>. HIDE DEF Taken
    <3>2. payload = Seal(key, c, bytes)
      BY <1>2, <2>4
    <3>3. Open(other, c, [payload EXCEPT !.altered = TRUE]) = {}
      BY <3>2, SealedOpens
    <3>. QED BY <3>1, <3>3
  <2>5. ASSUME Encrypted, NEW d \in Channels, arrived = EncodeData(payload, d),
               frames = {data(d, payload)}
        PROVE  UNION { Taken(f) : f \in frames } = {}
    <3>1. UNION { Taken(f) : f \in frames } = Open(other, d, payload)
      BY <1>4, <2>5
    <3>2. d # c /\ d \in Channel
      BY <1>1, <1>7, <2>5, PageAssumption
    <3>3. Open(other, d, payload) = {}
      <4>1. payload = Seal(key, c, bytes)
        BY <1>2, <2>5
      <4>. QED BY <3>2, <4>1, SealedOpens
    <3>. HIDE DEF Taken
    <3>. QED BY <3>1, <3>3
  <2>. HIDE DEF Taken
  <2>. QED BY <1>5, <2>3, <2>4, <2>5
<1>. HIDE DEF Taken
<1>8. UNION { Taken(f) : f \in frames } =
        IF arrived = m /\ Within(m.payload) /\ (Encrypted => other = key) THEN {bytes} ELSE {}
  BY <1>6, <1>7
<1>. QED BY <1>8 DEF Taken, TakenFrom

\* A page that is attached to an encrypted session has both keys of the host, of which a viewer's
\* is the one, or neither.
LEMMA AttachedKeys ==
  ASSUME LinkInv, Attached
  PROVE  /\ shared \in Shared
         /\ Encrypted <=> keys # NoKeys
         /\ Encrypted /\ shared.kind # "viewer" =>
              (keys.reading = HostKeys.reading <=> keys.writing = HostKeys.writing)
<1>1. shared \in Shared
  BY DEF LinkInv, URLInv
<1>2. PICK l \in Located : locator = {l} /\ keys = KeysFor(l)
  BY DEF LinkInv, ViewInv, Attached
<1>3. l.kind = "none" <=> shared.kind = "none"
  BY <1>2 DEF Attached
<1>. QED BY <1>1, <1>2, <1>3, LocatedKeys DEF Encrypted

\* What the host writes is within the limit, and is one message.
LEMMA OutputWritten ==
  ASSUME NEW channel \in Channels, NEW size \in HostReads, NEW key
  PROVE  LET chunk == [channel |-> channel, from |-> "host", size |-> size]
             payload == IF Encrypted THEN Seal(key, channel, chunk) ELSE Plain(chunk)
         IN  /\ Within(payload)
             /\ Marshal([type |-> "DATA", channel |-> channel, payload |-> payload])
                  = {Written(key, channel, chunk)}
<1>. DEFINE chunk == [channel |-> channel, from |-> "host", size |-> size]
            payload == Sealed(key, channel, chunk)
<1>1. size \in Nat /\ size + Overhead <= MaxPayloadLen /\ MaxPayloadLen \in Nat
  BY PageAssumption, WireAssumption
<1>2. payload.bytes.size = size
  BY DEF Sealed, Seal, Plain
<1>. HIDE DEF payload
<1>3. Length(payload) = size \/ Length(payload) = size + 28
  BY <1>1, <1>2 DEF Length, Overhead
<1>4. Within(payload)
  BY <1>1, <1>3 DEF Within, Overhead
<1>5. Marshal([type |-> "DATA", channel |-> channel, payload |-> payload])
        = {Binary(TypeValues.DATA, channel, payload)}
  BY <1>4 DEF Marshal
<1>. HIDE DEF chunk
<1>. QED BY <1>4, <1>5 DEF payload, Sealed, Written, EncodeData, chunk

LEMMA ReadNext == LinkInv /\ ReadAsWritten /\ [Next]_vars => ReadAsWritten'
<1>. SUFFICES ASSUME LinkInv, ReadAsWritten, [Next]_vars PROVE ReadAsWritten'
  OBVIOUS
<1>1. CASE OutputArrives
  <2>1. PICK channel \in Channels, size \in HostReads :
       LET chunk == [channel |-> channel, from |-> "host", size |-> size] IN
       \E m \in Marshal([type |-> "DATA", channel |-> channel,
                         payload |-> IF Encrypted THEN Seal(HostKeys.reading, channel, chunk)
                                     ELSE Plain(chunk)]) :
         \E arrived \in {m} \cup Altered(m) :
           LET frames == Decode(arrived)
               opened == UNION { IF keys = NoKeys THEN {f.payload.bytes}
                                 ELSE Open(keys.reading, f.channel, f.payload) :
                                 f \in DataOf(frames) }
           IN  /\ shown' = shown \cup opened
               /\ live' = (frames # {} /\ (DataOf(frames) # {} => opened # {}))
               /\ delivered' = IF arrived = m /\ Due(m) THEN delivered \cup {chunk} ELSE delivered
    BY <1>1 DEF OutputArrives
  <2>. DEFINE chunk == [channel |-> channel, from |-> "host", size |-> size]
              key == HostKeys.reading
              m == Written(key, channel, chunk)
              Opened(arrived) == UNION { IF keys = NoKeys THEN {f.payload.bytes}
                                         ELSE Open(keys.reading, f.channel, f.payload) :
                                         f \in DataOf(Decode(arrived)) }
  <2>2. /\ Within(Sealed(key, channel, chunk))
        /\ Marshal([type |-> "DATA", channel |-> channel,
                    payload |-> IF Encrypted THEN Seal(key, channel, chunk) ELSE Plain(chunk)]) = {m}
    BY OutputWritten DEF Sealed
  <2>3. PICK arrived \in {m} \cup Altered(m) :
               /\ shown' = shown \cup Opened(arrived)
               /\ delivered' = IF arrived = m /\ Due(m) THEN delivered \cup {chunk} ELSE delivered
    <3>. HIDE DEF m, Encrypted
    <3>. QED BY <2>1, <2>2
  <2>4. Attached /\ heard' = heard /\ channel \in Channel
    BY <1>1, PageAssumption DEF OutputArrives
  <2>5. m.payload = Sealed(key, channel, chunk)
    <3>. HIDE DEF chunk, key
    <3>. QED BY DEF Written, EncodeData, Binary
  <2>6. Opened(arrived) = TakenFrom(keys.reading, DataOf(Decode(arrived)))
    <3>. DEFINE Taken(f) == IF Encrypted THEN Open(keys.reading, f.channel, f.payload)
                            ELSE {f.payload.bytes}
                Read(f) == IF keys = NoKeys THEN {f.payload.bytes}
                           ELSE Open(keys.reading, f.channel, f.payload)
    <3>1. \A f : Read(f) = Taken(f)
      <4>. HIDE DEF Encrypted
      <4>. QED BY <2>4, AttachedKeys
    <3>2. TakenFrom(keys.reading, DataOf(Decode(arrived)))
            = UNION { Taken(f) : f \in DataOf(Decode(arrived)) }
      BY DEF TakenFrom, Taken
    <3>3. Opened(arrived) = UNION { Read(f) : f \in DataOf(Decode(arrived)) }
      OBVIOUS
    <3>. HIDE DEF Read, Taken, Opened, m
    <3>. QED BY <3>1, <3>2, <3>3
  <2>. HIDE DEF Opened, chunk, key, m
  <2>7. TakenFrom(keys.reading, DataOf(Decode(arrived))) =
          IF arrived = m /\ Within(m.payload) /\ (Encrypted => keys.reading = key) THEN {chunk} ELSE {}
    <3>1. m = Written(key, channel, chunk) /\ Within(m.payload)
      BY <2>2, <2>5 DEF m
    <3>2. channel \in Channel /\ arrived \in {m} \cup Altered(m)
      BY <2>3, <2>4
    <3>. DEFINE frames == DataOf(Decode(arrived))
                other == keys.reading
    <3>3. frames = DataOf(Decode(arrived)) /\ Within(m.payload)
      BY <3>1
    <3>. HIDE DEF Encrypted, frames, other
    <3>4. TakenFrom(other, frames) =
            IF arrived = m /\ Within(m.payload) /\ (Encrypted => other = key) THEN {chunk} ELSE {}
      BY <3>1, <3>2, <3>3, DataOpened
    <3>. QED BY <3>4 DEF frames, other
  <2>8. Due(m) <=> Within(m.payload) /\ (Encrypted => keys.reading = key)
    BY DEF Due, key
  <2>. QED BY <2>3, <2>4, <2>6, <2>7, <2>8 DEF ReadAsWritten
<1>2. CASE KeyArrives
  <2>1. PICK size \in Pastes :
       LET key == [channel |-> CHANNEL_CONTROL, from |-> "page", size |-> size]
           m == EncodeData(IF keys = NoKeys THEN Plain(key)
                           ELSE Seal(keys.writing, CHANNEL_CONTROL, key), CHANNEL_CONTROL)
       IN  \E arrived \in {m} \cup Altered(m) :
             LET frames == Unmarshal(arrived)
                 opened == UNION { IF Encrypted THEN Open(HostKeys.writing, f.channel, f.payload)
                                   ELSE {f.payload.bytes} : f \in DataOf(frames) }
             IN  /\ heard' = heard \cup opened
                 /\ live' = (frames # {} /\ (DataOf(frames) # {} => opened # {}))
                 /\ delivered' = IF arrived = m /\ Due(m) THEN delivered \cup {key} ELSE delivered
    BY <1>2 DEF KeyArrives
  <2>. DEFINE key == [channel |-> CHANNEL_CONTROL, from |-> "page", size |-> size]
              m == EncodeData(IF keys = NoKeys THEN Plain(key)
                              ELSE Seal(keys.writing, CHANNEL_CONTROL, key), CHANNEL_CONTROL)
              Opened(arrived) == TakenFrom(HostKeys.writing, DataOf(Unmarshal(arrived)))
  <2>2. PICK arrived \in {m} \cup Altered(m) :
               /\ heard' = heard \cup Opened(arrived)
               /\ delivered' = IF arrived = m /\ Due(m) THEN delivered \cup {key} ELSE delivered
    <3>. HIDE DEF m, Encrypted, HostKeys
    <3>. QED BY <2>1 DEF m, TakenFrom
  <2>3. Attached /\ shared.kind # "viewer" /\ shown' = shown /\ CHANNEL_CONTROL \in Channel
    BY <1>2, PageAssumption DEF KeyArrives
  <2>4. m = Written(keys.writing, CHANNEL_CONTROL, key)
    <3>. HIDE DEF key, Encrypted
    <3>. QED BY <2>3, AttachedKeys DEF Written, Sealed
  <2>. HIDE DEF m, key
  <2>5. Opened(arrived) =
          IF arrived = m /\ Within(m.payload) /\ (Encrypted => HostKeys.writing = keys.writing)
          THEN {key} ELSE {}
    <3>. HIDE DEF Encrypted, HostKeys
    <3>. QED BY <2>2, <2>3, <2>4, DataOpened
  <2>6. Due(m) <=> Within(m.payload) /\ (Encrypted => HostKeys.writing = keys.writing)
    <3>. HIDE DEF Encrypted, HostKeys
    <3>. QED BY <2>3, AttachedKeys DEF Due
  <2>. HIDE DEF Opened
  <2>. QED BY <2>2, <2>3, <2>5, <2>6 DEF ReadAsWritten
<1>3. CASE UNCHANGED <<shown, heard, delivered>>
  BY <1>3 DEF ReadAsWritten
<1>4. Load \/ KeysReady \/ EditFragment \/ Reload \/ Submit => UNCHANGED <<shown, heard, delivered>>
  <2>1. Load => UNCHANGED <<shown, heard, delivered>>
    BY DEF Load, wireVars
  <2>2. KeysReady => UNCHANGED <<shown, heard, delivered>>
    BY DEF KeysReady
  <2>3. EditFragment => UNCHANGED <<shown, heard, delivered>>
    BY DEF EditFragment, wireVars
  <2>4. Reload => UNCHANGED <<shown, heard, delivered>>
    BY DEF Reload
  <2>5. Submit => UNCHANGED <<shown, heard, delivered>>
    BY DEF Submit
  <2>. QED BY <2>1, <2>2, <2>3, <2>4, <2>5
<1>5. HostResizes \/ WindowResizes \/ Reconnect => UNCHANGED <<shown, heard, delivered>>
  <2>1. HostResizes => UNCHANGED <<shown, heard, delivered>>
    BY DEF HostResizes, wireVars
  <2>2. WindowResizes => UNCHANGED <<shown, heard, delivered>>
    BY DEF WindowResizes, wireVars
  <2>3. Reconnect => UNCHANGED <<shown, heard, delivered>>
    BY DEF Reconnect
  <2>. QED BY <2>1, <2>2, <2>3
<1>6. UNCHANGED vars => UNCHANGED <<shown, heard, delivered>>
  BY DEF vars, wireVars
<1>. QED BY <1>1, <1>2, <1>3, <1>4, <1>5, <1>6 DEF Next

\* Both ends read exactly what the other wrote: what arrives as it was sent, within the limit and
\* under the host's keys, is drawn or typed, and nothing longer, altered on its way or sealed
\* with a misread key is.
THEOREM ReadAsWrittenHolds == Spec => []ReadAsWritten
<1>1. Init => ReadAsWritten
  BY DEF Init, ReadAsWritten
<1>. QED BY <1>1, LinkInvariance, ReadNext, PTL DEF Spec

-----------------------------------------------------------------------------
(* The font.  For a terminal of MAX_FONT rows and columns or more, one pass of refit comes   *)
(* within two sizes of any font that fits, and a pass from there within one.                  *)

Font == MIN_FONT..MAX_FONT

\* b fits the columns: 3 * b * c <= 5 * w; it fits the rows: CellHeight(b) * r <= h.

LEMMA Height ==
  ASSUME NEW s \in Nat
  PROVE  /\ CellHeight(s) \in Nat /\ (s > 0 => CellHeight(s) > 0)
         /\ 6 * s <= 5 * CellHeight(s) /\ 5 * CellHeight(s) <= 6 * s + 4
BY DEF CellHeight

LEMMA QuotientAtLeast ==
  ASSUME NEW n \in Nat, NEW d \in Nat, d > 0, NEW k \in Int
  PROVE  n \div d >= k <=> n >= k * d
<1>. DEFINE q == n \div d
            m == n % d
<1>1. q \in Nat /\ m \in Nat /\ m < d /\ n = d * q + m
  BY Division
<1>. HIDE DEF q, m
<1>2. CASE q >= k
  <2>1. q - k \in Nat
    BY <1>1, <1>2
  <2>2. d * (q - k) \in Nat /\ d * (q - k) = d * q - k * d
    BY <1>1, <2>1, Product
  <2>. QED BY <1>1, <1>2, <2>2 DEF q
<1>3. CASE q < k
  <2>1. (k - q) - 1 \in Nat
    BY <1>1, <1>3
  <2>2. d * ((k - q) - 1) \in Nat /\ d * ((k - q) - 1) = (k * d - d * q) - d
    BY <1>1, <2>1, Product
  <2>. QED BY <1>1, <1>3, <2>2 DEF q
<1>. QED BY <1>1, <1>2, <1>3

\* A pass does not go beyond what fits: one size more, in rows.
LEMMA NotTooWide ==
  ASSUME NEW w \in Nat, NEW c \in Nat, NEW s \in Nat, s > 0, NEW p \in Nat,
         p * c <= s * ((5 * w) \div (3 * s))
  PROVE  5 * w >= 3 * p * c
<1>. DEFINE q == (5 * w) \div (3 * s)
            x == 3 * s
<1>1. x \in Nat /\ x > 0 /\ 5 * w \in Nat
  OBVIOUS
<1>. HIDE DEF x
<1>2. q \in Nat /\ x * q <= 5 * w
  <2>1. (5 * w) \div x \in Nat /\ 5 * w = x * ((5 * w) \div x) + ((5 * w) % x) /\ (5 * w) % x \in Nat
    BY <1>1, Division
  <2>2. q = (5 * w) \div x
    BY DEF x
  <2>. QED BY <1>1, <2>1, <2>2, Product
<1>3. p * c <= s * q
  OBVIOUS
<1>. HIDE DEF q
<1>4. x * q = 3 * (s * q) /\ 3 * p * c = 3 * (p * c) /\ s * q \in Nat /\ p * c \in Nat
  BY <1>2, Product DEF x
<1>. QED BY <1>2, <1>3, <1>4

LEMMA NotTooHigh ==
  ASSUME NEW h \in Nat, NEW r \in Nat, NEW s \in Nat, s > 0, NEW p \in Nat, p > 0,
         p * r <= s * (h \div CellHeight(s))
  PROVE  6 * (p * r) <= 5 * h /\ CellHeight(p - 1) * r <= h
<1>. DEFINE e == CellHeight(s)
            q == h \div e
            f == CellHeight(p - 1)
<1>1. e \in Nat /\ e > 0 /\ 6 * s <= 5 * e
  BY Height
<1>2. f \in Nat /\ 5 * f <= 6 * p
  <2>1. p - 1 \in Nat
    OBVIOUS
  <2>2. f \in Nat /\ 5 * f <= 6 * (p - 1) + 4
    BY <2>1, Height
  <2>. HIDE DEF f
  <2>. QED BY <2>2
<1>. HIDE DEF e, f
<1>3. q \in Nat /\ e * q <= h
  <2>1. q \in Nat /\ h = e * q + (h % e) /\ h % e \in Nat
    BY <1>1, Division
  <2>. HIDE DEF q
  <2>. QED BY <1>1, <2>1, Product
<1>4. p * r <= s * q
  BY DEF e
<1>. HIDE DEF q
<1>5. q * (6 * s) <= q * (5 * e)
  BY <1>1, <1>3, TimesAtLeast
<1>6. r * (5 * f) <= r * (6 * p)
  BY <1>2, TimesAtLeast
<1>7. /\ q * (6 * s) = 6 * (s * q) /\ q * (5 * e) = 5 * (e * q)
      /\ r * (5 * f) = 5 * (f * r) /\ r * (6 * p) = 6 * (p * r)
  BY <1>1, <1>2, <1>3
<1>8. s * q \in Nat /\ e * q \in Nat /\ f * r \in Nat /\ p * r \in Nat
  BY <1>1, <1>2, <1>3, Product
<1>9. 6 * (p * r) <= 5 * h
  BY <1>3, <1>4, <1>5, <1>7, <1>8
<1>10. f * r <= h
  BY <1>6, <1>7, <1>8, <1>9
<1>. QED BY <1>9, <1>10 DEF f

\* A pass comes close to what fits.
LEMMA ColumnsReached ==
  ASSUME NEW w \in Nat, NEW c \in Nat, NEW s \in Nat, s > 0, s <= c, NEW b \in Nat, b > 0,
         5 * w >= 3 * b * c
  PROVE  (b - 1) * c <= s * ((5 * w) \div (3 * s))
<1>. DEFINE x == 3 * s
            n == 5 * w
            q == n \div x
            m == n % x
<1>1. x \in Nat /\ x > 0 /\ n \in Nat
  OBVIOUS
<1>. HIDE DEF x, n
<1>2. q \in Nat /\ m \in Nat /\ m < x /\ n = x * q + m
  BY <1>1, Division
<1>. HIDE DEF q, m
<1>3. x * q = 3 * (s * q) /\ 3 * b * c = 3 * (b * c) /\ s * q \in Nat /\ b * c \in Nat
  BY <1>2, Product DEF x
<1>4. (b - 1) * c = b * c - c
  OBVIOUS
<1>5. m < 3 * s /\ n >= 3 * b * c
  BY <1>2 DEF x, n
<1>6. (b - 1) * c <= s * q
  BY <1>2, <1>3, <1>4, <1>5
<1>. QED BY <1>6 DEF q, n, x

LEMMA RowsReached ==
  ASSUME NEW h \in Nat, NEW r \in Nat, r >= 22, NEW s \in Nat, NEW e \in Nat, e > 0,
         NEW f \in Nat, f * r <= 5 * h, NEW k \in Nat, s * f >= 5 * (k * e),
         22 * (s * f - 5 * (k * e)) + 5 * (e + s) > 5 * (s * e)
  PROVE  k * r <= s * (h \div e)
<1>. DEFINE q == h \div e
            m == h % e
            D == s * f - 5 * (k * e)
<1>1. q \in Nat /\ m \in Nat /\ m < e /\ h = e * q + m
  BY Division
<1>. HIDE DEF q, m
<1>2. s * f \in Nat /\ k * e \in Nat /\ s * e \in Nat
  BY Product
<1>3. D \in Nat /\ 22 * D + 5 * (e + s) > 5 * (s * e)
  BY <1>2
<1>4. r * D = s * (f * r) - 5 * (e * (k * r))
  OBVIOUS
<1>. HIDE DEF D
<1>5. 22 * D <= r * D /\ r * D \in Nat
  <2>1. D * 22 <= D * r /\ D * 22 = 22 * D /\ D * r = r * D
    BY <1>3, TimesAtLeast
  <2>. QED BY <1>3, <2>1, Product
<1>6. f * r \in Nat /\ k * r \in Nat /\ s * q \in Nat /\ e * q \in Nat
  BY <1>1, Product
<1>7. SUFFICES ASSUME s * q < k * r PROVE FALSE
  BY <1>6 DEF q
<1>. DEFINE y == k * r
            z == s * q
<1>8. e * z <= e * (y - 1) /\ e * (y - 1) = e * y - e
  <2>1. y \in Nat /\ z \in Nat /\ z <= y - 1 /\ y - 1 \in Nat
    BY <1>6, <1>7
  <2>. HIDE DEF y, z
  <2>. QED BY <2>1, TimesAtLeast
<1>9. e * z = s * (e * q)
  BY <1>1
<1>10. s * (e * q) = s * h - s * m
  <2>1. s * (e * q + m) = s * (e * q) + s * m
    BY <1>1
  <2>2. s * (e * q) \in Int /\ s * m \in Int
    BY <1>1, <1>6
  <2>. QED BY <1>1, <2>1, <2>2
<1>11. s * m <= s * (e - 1) /\ s * (e - 1) = s * e - s
  <2>1. m <= e - 1 /\ e - 1 \in Nat
    BY <1>1
  <2>. QED BY <1>1, <2>1, TimesAtLeast
<1>12. s * (f * r) <= 5 * (s * h)
  <2>1. s * (f * r) <= s * (5 * h) /\ s * (5 * h) = 5 * (s * h)
    BY <1>6, TimesAtLeast
  <2>. QED BY <2>1
<1>13. s * h \in Nat /\ s * m \in Nat /\ s * (f * r) \in Nat /\ e * y \in Nat /\ e * z \in Nat
  BY <1>1, <1>6, Product
<1>14. r * D <= 5 * ((s * e - s) - e)
  <2>1. r * D = s * (f * r) - 5 * (e * y)
    BY <1>4
  <2>. HIDE DEF y, z
  <2>. QED BY <1>2, <1>8, <1>9, <1>10, <1>11, <1>12, <1>13, <2>1
<1>. QED BY <1>2, <1>3, <1>5, <1>14

\* The first pass, from any font.
LEMMA FirstPassRows ==
  ASSUME NEW h \in Nat, NEW r \in Nat, r >= 22, NEW s \in Font, NEW b \in 8..22,
         CellHeight(b) * r <= h
  PROVE  (b - 2) * r <= s * (h \div CellHeight(s))
<1>. DEFINE e == CellHeight(s)
            f == CellHeight(b)
            k == b - 2
<1>1. s \in 6..22
  BY DEF Font, MIN_FONT, MAX_FONT
<1>2. k \in Nat /\ e \in Nat /\ e > 0 /\ f \in Nat /\ 6 * b <= 5 * f
  <2>1. s \in Nat /\ s > 0 /\ b \in Nat /\ k \in Nat
    BY <1>1
  <2>. HIDE DEF k
  <2>. QED BY <2>1, Height
<1>3. CASE s = 6 /\ b = 20
  <2>1. e = 8 /\ f = 24
    BY <1>3 DEF CellHeight
  <2>2. 18 * r <= 6 * (h \div 8)
    BY <1>3, <2>1
  <2>. QED BY <1>3, <2>1, <2>2
<1>4. CASE ~(s = 6 /\ b = 20)
  <2>1. s * (5 * f) >= 5 * (k * e) /\ 22 * (s * (5 * f) - 5 * (k * e)) + 5 * (e + s) > 5 * (s * e)
    <3>. HIDE DEF f
    <3>1. CASE s = 6
      BY <3>1, <1>2, <1>4 DEF CellHeight
    <3>2. CASE s = 7
      BY <3>2, <1>2 DEF CellHeight
    <3>3. CASE s = 8
      BY <3>3, <1>2 DEF CellHeight
    <3>4. CASE s = 9
      BY <3>4, <1>2 DEF CellHeight
    <3>5. CASE s = 10
      BY <3>5, <1>2 DEF CellHeight
    <3>6. CASE s = 11
      BY <3>6, <1>2 DEF CellHeight
    <3>7. CASE s = 12
      BY <3>7, <1>2 DEF CellHeight
    <3>8. CASE s = 13
      BY <3>8, <1>2 DEF CellHeight
    <3>9. CASE s = 14
      BY <3>9, <1>2 DEF CellHeight
    <3>10. CASE s = 15
      BY <3>10, <1>2 DEF CellHeight
    <3>11. CASE s = 16
      BY <3>11, <1>2 DEF CellHeight
    <3>12. CASE s = 17
      BY <3>12, <1>2 DEF CellHeight
    <3>13. CASE s = 18
      BY <3>13, <1>2 DEF CellHeight
    <3>14. CASE s = 19
      BY <3>14, <1>2 DEF CellHeight
    <3>15. CASE s = 20
      BY <3>15, <1>2 DEF CellHeight
    <3>16. CASE s = 21
      BY <3>16, <1>2 DEF CellHeight
    <3>17. CASE s = 22
      BY <3>17, <1>2 DEF CellHeight
    <3>. QED
      BY <1>1, <3>1, <3>2, <3>3, <3>4, <3>5, <3>6, <3>7, <3>8, <3>9, <3>10, <3>11, <3>12, <3>13,
         <3>14, <3>15, <3>16, <3>17
  <2>2. s \in Nat
    BY <1>1
  <2>. HIDE DEF e, f, k
  <2>3. k * r <= s * (h \div e)
    <3>1. f * r <= h
      BY DEF f
    <3>2. 5 * f \in Nat /\ (5 * f) * r <= 5 * h
      BY <1>2, <3>1
    <3>. HIDE DEF f
    <3>. QED BY <1>2, <2>1, <2>2, <3>2, RowsReached
  <2>. QED BY <2>3 DEF e, k
<1>. QED BY <1>3, <1>4

\* The second, from a font that is close.
LEMMA SecondPassRows ==
  ASSUME NEW h \in Nat, NEW r \in Nat, r >= 22, NEW s \in Font, NEW b \in 8..22,
         b - 2 <= s, s <= b, CellHeight(b) * r <= h
  PROVE  (b - 1) * r <= s * (h \div CellHeight(s))
<1>. DEFINE e == CellHeight(s)
            f == CellHeight(b)
            k == b - 1
            Few == \/ (s = 16 /\ b = 18) \/ (s = 17 /\ b = 19)
                   \/ (s = 18 /\ b = 20) \/ (s = 21 /\ b = 22)
<1>1. s \in 6..22
  BY DEF Font, MIN_FONT, MAX_FONT
<1>2. k \in Nat /\ e \in Nat /\ e > 0 /\ f \in Nat /\ 6 * b <= 5 * f
  <2>1. s \in Nat /\ s > 0 /\ b \in Nat /\ k \in Nat
    BY <1>1
  <2>. HIDE DEF k
  <2>. QED BY <2>1, Height
<1>3. CASE Few
  <2>1. CASE s = 16 /\ b = 18
    <3>1. e = 20 /\ f = 22
      BY <2>1 DEF CellHeight
    <3>2. 17 * r <= 16 * (h \div 20)
      BY <2>1, <3>1
    <3>. QED BY <2>1, <3>1, <3>2
  <2>2. CASE s = 17 /\ b = 19
    <3>1. e = 21 /\ f = 23
      BY <2>2 DEF CellHeight
    <3>2. 18 * r <= 17 * (h \div 21)
      BY <2>2, <3>1
    <3>. QED BY <2>2, <3>1, <3>2
  <2>3. CASE s = 18 /\ b = 20
    <3>1. e = 22 /\ f = 24
      BY <2>3 DEF CellHeight
    <3>2. 19 * r <= 18 * (h \div 22)
      BY <2>3, <3>1
    <3>. QED BY <2>3, <3>1, <3>2
  <2>4. CASE s = 21 /\ b = 22
    <3>1. e = 26 /\ f = 27
      BY <2>4 DEF CellHeight
    <3>2. 21 * r <= 21 * (h \div 26)
      BY <2>4, <3>1
    <3>. QED BY <2>4, <3>1, <3>2
  <2>. QED BY <1>3, <2>1, <2>2, <2>3, <2>4
<1>4. CASE ~Few
  <2>1. s * (5 * f) >= 5 * (k * e) /\ 22 * (s * (5 * f) - 5 * (k * e)) + 5 * (e + s) > 5 * (s * e)
    <3>. HIDE DEF f
    <3>1. CASE s = 6
      BY <3>1, <1>2, <1>4 DEF CellHeight
    <3>2. CASE s = 7
      BY <3>2, <1>2, <1>4 DEF CellHeight
    <3>3. CASE s = 8
      BY <3>3, <1>2, <1>4 DEF CellHeight
    <3>4. CASE s = 9
      BY <3>4, <1>2, <1>4 DEF CellHeight
    <3>5. CASE s = 10
      BY <3>5, <1>2, <1>4 DEF CellHeight
    <3>6. CASE s = 11
      BY <3>6, <1>2, <1>4 DEF CellHeight
    <3>7. CASE s = 12
      BY <3>7, <1>2, <1>4 DEF CellHeight
    <3>8. CASE s = 13
      BY <3>8, <1>2, <1>4 DEF CellHeight
    <3>9. CASE s = 14
      BY <3>9, <1>2, <1>4 DEF CellHeight
    <3>10. CASE s = 15
      BY <3>10, <1>2, <1>4 DEF CellHeight
    <3>11. CASE s = 16
      BY <3>11, <1>2, <1>4 DEF CellHeight
    <3>12. CASE s = 17
      BY <3>12, <1>2, <1>4 DEF CellHeight
    <3>13. CASE s = 18
      BY <3>13, <1>2, <1>4 DEF CellHeight
    <3>14. CASE s = 19
      BY <3>14, <1>2, <1>4 DEF CellHeight
    <3>15. CASE s = 20
      BY <3>15, <1>2, <1>4 DEF CellHeight
    <3>16. CASE s = 21
      BY <3>16, <1>2, <1>4 DEF CellHeight
    <3>17. CASE s = 22
      BY <3>17, <1>2, <1>4 DEF CellHeight
    <3>. QED
      BY <1>1, <3>1, <3>2, <3>3, <3>4, <3>5, <3>6, <3>7, <3>8, <3>9, <3>10, <3>11, <3>12, <3>13,
         <3>14, <3>15, <3>16, <3>17
  <2>2. s \in Nat
    BY <1>1
  <2>. HIDE DEF e, f, k
  <2>3. k * r <= s * (h \div e)
    <3>1. f * r <= h
      BY DEF f
    <3>2. 5 * f \in Nat /\ (5 * f) * r <= 5 * h
      BY <1>2, <3>1
    <3>. HIDE DEF f
    <3>. QED BY <1>2, <2>1, <2>2, <3>2, RowsReached
  <2>. QED BY <2>3 DEF e, k
<1>. QED BY <1>3, <1>4

\* The second, from a font that is one size larger than what fits.
LEMMA SecondPassFromAbove ==
  ASSUME NEW h \in Nat, NEW r \in Nat, r >= 22, NEW s \in Font, 6 * (s * r) <= 5 * h
  PROVE  (s - 2) * r <= s * (h \div CellHeight(s))
<1>. DEFINE e == CellHeight(s)
            f == 6 * s
            k == s - 2
<1>1. s \in 6..22
  BY DEF Font, MIN_FONT, MAX_FONT
<1>2. s \in Nat /\ k \in Nat /\ e \in Nat /\ e > 0 /\ f \in Nat /\ f * r <= 5 * h
  <2>1. s \in Nat /\ s > 0 /\ k \in Nat /\ f \in Nat
    BY <1>1
  <2>2. f * r <= 5 * h
    BY <2>1
  <2>. HIDE DEF k, f
  <2>. QED BY <2>1, <2>2, Height
<1>3. s * f >= 5 * (k * e) /\ 22 * (s * f - 5 * (k * e)) + 5 * (e + s) > 5 * (s * e)
  <2>1. CASE s = 6
    BY <2>1 DEF CellHeight
  <2>2. CASE s = 7
    BY <2>2 DEF CellHeight
  <2>3. CASE s = 8
    BY <2>3 DEF CellHeight
  <2>4. CASE s = 9
    BY <2>4 DEF CellHeight
  <2>5. CASE s = 10
    BY <2>5 DEF CellHeight
  <2>6. CASE s = 11
    BY <2>6 DEF CellHeight
  <2>7. CASE s = 12
    BY <2>7 DEF CellHeight
  <2>8. CASE s = 13
    BY <2>8 DEF CellHeight
  <2>9. CASE s = 14
    BY <2>9 DEF CellHeight
  <2>10. CASE s = 15
    BY <2>10 DEF CellHeight
  <2>11. CASE s = 16
    BY <2>11 DEF CellHeight
  <2>12. CASE s = 17
    BY <2>12 DEF CellHeight
  <2>13. CASE s = 18
    BY <2>13 DEF CellHeight
  <2>14. CASE s = 19
    BY <2>14 DEF CellHeight
  <2>15. CASE s = 20
    BY <2>15 DEF CellHeight
  <2>16. CASE s = 21
    BY <2>16 DEF CellHeight
  <2>17. CASE s = 22
    BY <2>17 DEF CellHeight
  <2>. QED
    BY <1>1, <2>1, <2>2, <2>3, <2>4, <2>5, <2>6, <2>7, <2>8, <2>9, <2>10, <2>11, <2>12, <2>13,
       <2>14, <2>15, <2>16, <2>17
<1>. HIDE DEF e, f, k
<1>4. k * r <= s * (h \div e)
  BY <1>2, <1>3, RowsReached
<1>. QED BY <1>4 DEF e, k

\* A pass of refit, of a window of w by h pixels and a grid of c columns and r rows.
Columns(w, s) == LET n == (5 * w) \div (3 * s) IN IF n < 2 THEN 2 ELSE n
Rows(h, s)    == LET n == h \div CellHeight(s) IN IF n < 1 THEN 1 ELSE n
PassOf(s, w, h, c, r) == Clamp(Least((s * Columns(w, s)) \div c, (s * Rows(h, s)) \div r))

LEMMA ClampLeast ==
  ASSUME NEW a \in Nat, NEW b \in Nat
  PROVE  /\ Clamp(Least(a, b)) \in Font
         /\ Clamp(Least(a, b)) > 6 => Clamp(Least(a, b)) <= a /\ Clamp(Least(a, b)) <= b
         /\ \A k \in Nat : k <= 22 /\ k <= a /\ k <= b => k <= Clamp(Least(a, b))
BY DEF Clamp, Least, Font, MIN_FONT, MAX_FONT

LEMMA FontType ==
  ASSUME NEW s \in Font
  PROVE  s \in 6..22 /\ s \in Nat /\ s > 0 /\ s <= 22 /\ s - 1 \in Nat /\ s - 2 \in Nat
BY DEF Font, MIN_FONT, MAX_FONT

LEMMA CellsType ==
  ASSUME NEW w \in Nat, NEW h \in Nat, NEW s \in Font
  PROVE  /\ Columns(w, s) \in Nat /\ (5 * w) \div (3 * s) \in Nat /\ (5 * w) \div (3 * s) <= Columns(w, s)
         /\ Columns(w, s) > 2 => Columns(w, s) = (5 * w) \div (3 * s)
         /\ Rows(h, s) \in Nat /\ h \div CellHeight(s) \in Nat /\ h \div CellHeight(s) <= Rows(h, s)
         /\ Rows(h, s) > 1 => Rows(h, s) = h \div CellHeight(s)
<1>. DEFINE x == 3 * s
            y == CellHeight(s)
            n == 5 * w
<1>1. s \in Nat /\ s > 0
  BY DEF Font, MIN_FONT, MAX_FONT
<1>2. x \in Nat /\ x > 0 /\ y \in Nat /\ y > 0 /\ n \in Nat
  BY <1>1, Height
<1>. HIDE DEF x, y, n
<1>3. n \div x \in Nat /\ h \div y \in Nat
  BY <1>2, Division
<1>4. Columns(w, s) = IF n \div x < 2 THEN 2 ELSE n \div x
  BY DEF Columns, n, x
<1>5. Rows(h, s) = IF h \div y < 1 THEN 1 ELSE h \div y
  BY DEF Rows, y
<1>6. /\ Columns(w, s) \in Nat /\ n \div x \in Nat /\ n \div x <= Columns(w, s)
      /\ Columns(w, s) > 2 => Columns(w, s) = n \div x
  BY <1>3, <1>4
<1>7. /\ Rows(h, s) \in Nat /\ h \div y \in Nat /\ h \div y <= Rows(h, s)
      /\ Rows(h, s) > 1 => Rows(h, s) = h \div y
  BY <1>3, <1>5
<1>. QED BY <1>6, <1>7 DEF x, y, n

LEMMA PassType ==
  ASSUME NEW w \in Nat, NEW h \in Nat, NEW c \in Nat, c > 0, NEW r \in Nat, r > 0, NEW s \in Font
  PROVE  PassOf(s, w, h, c, r) \in Font
<1>. DEFINE m == s * Columns(w, s)
            n == s * Rows(h, s)
<1>1. m \in Nat /\ n \in Nat
  BY FontType, CellsType, Product
<1>2. PassOf(s, w, h, c, r) = Clamp(Least(m \div c, n \div r))
  BY DEF PassOf
<1>. HIDE DEF m, n
<1>3. m \div c \in Nat /\ n \div r \in Nat
  BY <1>1, Division
<1>. QED BY <1>2, <1>3, ClampLeast

LEMMA PassBounds ==
  ASSUME NEW w \in Nat, NEW h \in Nat, NEW c \in Nat, c >= 22, NEW r \in Nat, r >= 22, NEW s \in Font,
         NEW p, p = PassOf(s, w, h, c, r)
  PROVE  /\ p \in Font
         /\ p > 6 => 5 * w >= 3 * p * c /\ 6 * (p * r) <= 5 * h /\ CellHeight(p - 1) * r <= h
<1>. DEFINE m == Columns(w, s)
            n == Rows(h, s)
            a == (s * m) \div c
            b == (s * n) \div r
<1>1. /\ s \in Nat /\ s > 0 /\ s <= 22 /\ m \in Nat /\ n \in Nat
      /\ m > 2 => m = (5 * w) \div (3 * s)
      /\ n > 1 => n = h \div CellHeight(s)
  <2>1. s \in Nat /\ s > 0 /\ s <= 22
    BY FontType
  <2>2. m \in Nat /\ (m > 2 => m = (5 * w) \div (3 * s))
    BY CellsType
  <2>3. n \in Nat /\ (n > 1 => n = h \div CellHeight(s))
    BY CellsType
  <2>. QED BY <2>1, <2>2, <2>3
<1>2. p = Clamp(Least(a, b))
  BY DEF PassOf
<1>. HIDE DEF m, n
<1>3. s * m \in Nat /\ s * n \in Nat /\ a \in Nat /\ b \in Nat
  <2>1. s * m \in Nat /\ s * n \in Nat
    BY <1>1, Product
  <2>. QED BY <2>1, Division
<1>4. /\ \A k \in Int : a >= k <=> s * m >= k * c
      /\ \A k \in Int : b >= k <=> s * n >= k * r
  <2>1. c > 0 /\ r > 0
    OBVIOUS
  <2>. QED BY <1>3, <2>1, QuotientAtLeast
<1>. HIDE DEF a, b
<1>5. p \in Font /\ (p > 6 => p <= a /\ p <= b)
  BY <1>2, <1>3, ClampLeast
<1>6. ASSUME p > 6
      PROVE  5 * w >= 3 * p * c /\ 6 * (p * r) <= 5 * h /\ CellHeight(p - 1) * r <= h
  <2>1. p \in Nat /\ p > 0 /\ p >= 7
    BY <1>5, <1>6 DEF Font, MIN_FONT, MAX_FONT
  <2>2. p * c <= s * m /\ p * r <= s * n
    BY <1>3, <1>4, <1>5, <1>6, <2>1
  <2>3. \A d \in Nat : d >= 22 => 154 <= p * d
    <3>1. SUFFICES ASSUME NEW d \in Nat, d >= 22 PROVE 154 <= p * d
      OBVIOUS
    <3>2. p * d \in Nat /\ 22 * p <= p * d
      <4>1. p * 22 <= p * d
        BY <2>1, <3>1, TimesAtLeast
      <4>2. p * d \in Nat /\ p * 22 = 22 * p
        BY <2>1, <3>1, Product
      <4>. QED BY <4>1, <4>2
    <3>3. 154 <= 22 * p
      BY <2>1
    <3>. DEFINE e == p * d
    <3>4. e \in Nat /\ 22 * p <= e
      BY <3>2
    <3>. HIDE DEF e
    <3>5. 154 <= e
      BY <2>1, <3>3, <3>4
    <3>. QED BY <3>5 DEF e
  <2>4. \A d \in Nat : s * d >= 154 => d > 2
    <3>1. SUFFICES ASSUME NEW d \in Nat, s * d >= 154, d <= 2 PROVE FALSE
      OBVIOUS
    <3>2. s * d <= s * 2 /\ s * d \in Nat
      BY <1>1, <3>1, TimesAtLeast, Product
    <3>3. s * 2 <= 44
      BY <1>1
    <3>. QED BY <1>1, <3>1, <3>2, <3>3
  <2>5. s * m >= 154 /\ s * n >= 154
    <3>1. p * c \in Nat /\ p * r \in Nat /\ 154 <= p * c /\ 154 <= p * r
      BY <2>1, <2>3, Product
    <3>. QED BY <1>3, <2>2, <3>1
  <2>6. m = (5 * w) \div (3 * s) /\ n = h \div CellHeight(s)
    BY <1>1, <2>4, <2>5
  <2>7. 5 * w >= 3 * p * c
    BY <1>1, <2>1, <2>2, <2>6, NotTooWide
  <2>8. 6 * (p * r) <= 5 * h /\ CellHeight(p - 1) * r <= h
    BY <1>1, <2>1, <2>2, <2>6, NotTooHigh
  <2>. QED BY <2>7, <2>8
<1>. QED BY <1>5, <1>6

LEMMA PassAtLeast ==
  ASSUME NEW w \in Nat, NEW h \in Nat, NEW c \in Nat, c >= 22, NEW r \in Nat, r >= 22, NEW s \in Font,
         NEW k \in Nat, k <= 22,
         k * c <= s * ((5 * w) \div (3 * s)), k * r <= s * (h \div CellHeight(s))
  PROVE  k <= PassOf(s, w, h, c, r)
<1>. DEFINE m == Columns(w, s)
            n == Rows(h, s)
            u == (5 * w) \div (3 * s)
            v == h \div CellHeight(s)
            a == (s * m) \div c
            b == (s * n) \div r
<1>1. s \in Nat /\ m \in Nat /\ n \in Nat /\ u \in Nat /\ v \in Nat /\ u <= m /\ v <= n
  <2>1. s \in Nat
    BY FontType
  <2>2. m \in Nat /\ u \in Nat /\ u <= m
    BY CellsType
  <2>3. n \in Nat /\ v \in Nat /\ v <= n
    BY CellsType
  <2>. QED BY <2>1, <2>2, <2>3
<1>2. k * c <= s * u /\ k * r <= s * v
  OBVIOUS
<1>3. PassOf(s, w, h, c, r) = Clamp(Least(a, b))
  BY DEF PassOf
<1>. HIDE DEF m, n, u, v
<1>4. s * u <= s * m /\ s * v <= s * n
  BY <1>1, TimesAtLeast
<1>5. k * c \in Nat /\ k * r \in Nat /\ s * u \in Nat /\ s * v \in Nat /\ s * m \in Nat /\ s * n \in Nat
  BY <1>1, Product
<1>6. s * m >= k * c /\ s * n >= k * r
  BY <1>2, <1>4, <1>5
<1>7. a \in Nat /\ b \in Nat /\ a >= k /\ b >= k
  <2>1. c > 0 /\ r > 0 /\ k \in Int
    OBVIOUS
  <2>2. a \in Nat /\ b \in Nat
    BY <1>5, <2>1, Division
  <2>. QED BY <1>5, <1>6, <2>1, <2>2, QuotientAtLeast
<1>. HIDE DEF a, b
<1>. QED BY <1>3, <1>7, ClampLeast

LEMMA PassReaches ==
  ASSUME NEW w \in Nat, NEW h \in Nat, NEW c \in Nat, c >= 22, NEW r \in Nat, r >= 22, NEW s \in Font,
         NEW b \in 8..22, 5 * w >= 3 * b * c, CellHeight(b) * r <= h
  PROVE  /\ b - 2 <= PassOf(s, w, h, c, r)
         /\ b - 2 <= s /\ s <= b => b - 1 <= PassOf(s, w, h, c, r)
<1>. DEFINE u == s * ((5 * w) \div (3 * s))
<1>1. /\ s \in Nat /\ s > 0 /\ s <= c
      /\ b \in Nat /\ b > 0 /\ b - 1 \in Nat /\ b - 2 \in Nat /\ b - 1 <= 22 /\ b - 2 <= 22
  BY FontType
<1>2. (b - 1) * c <= u
  BY <1>1, ColumnsReached
<1>3. (b - 2) * c <= u
  <2>1. (b - 2) * c = (b - 1) * c - c /\ (b - 1) * c \in Nat
    BY <1>1, Product
  <2>2. u \in Nat
    <3>1. (5 * w) \div (3 * s) \in Nat
      BY CellsType
    <3>. QED BY <1>1, <3>1, Product
  <2>. HIDE DEF u
  <2>. QED BY <1>2, <2>1, <2>2
<1>4. (b - 2) * r <= s * (h \div CellHeight(s))
  BY FirstPassRows
<1>5. b - 2 <= PassOf(s, w, h, c, r)
  BY <1>1, <1>3, <1>4, PassAtLeast
<1>6. ASSUME b - 2 <= s, s <= b
      PROVE  b - 1 <= PassOf(s, w, h, c, r)
  <2>1. (b - 1) * r <= s * (h \div CellHeight(s))
    BY <1>6, SecondPassRows
  <2>. QED BY <1>1, <1>2, <2>1, PassAtLeast
<1>. QED BY <1>5, <1>6

LEMMA PassFromAbove ==
  ASSUME NEW w \in Nat, NEW h \in Nat, NEW c \in Nat, c >= 22, NEW r \in Nat, r >= 22, NEW s \in Font,
         5 * w >= 3 * s * c, 6 * (s * r) <= 5 * h
  PROVE  s - 2 <= PassOf(s, w, h, c, r)
<1>. DEFINE u == s * ((5 * w) \div (3 * s))
<1>1. s \in Nat /\ s > 0 /\ s <= c /\ s - 1 \in Nat /\ s - 2 \in Nat /\ s - 2 <= 22
  BY FontType
<1>2. (s - 1) * c <= u
  BY <1>1, ColumnsReached
<1>3. (s - 2) * c <= u
  <2>1. (s - 2) * c = (s - 1) * c - c /\ (s - 1) * c \in Nat
    BY <1>1, Product
  <2>2. u \in Nat
    <3>1. (5 * w) \div (3 * s) \in Nat
      BY CellsType
    <3>. QED BY <1>1, <3>1, Product
  <2>. HIDE DEF u
  <2>. QED BY <1>2, <2>1, <2>2
<1>4. (s - 2) * r <= s * (h \div CellHeight(s))
  BY SecondPassFromAbove
<1>. QED BY <1>1, <1>3, <1>4, PassAtLeast

LEMMA TwoPasses ==
  ASSUME NEW w \in Nat, NEW h \in Nat, NEW c \in Nat, c >= 22, NEW r \in Nat, r >= 22, NEW s \in Font,
         NEW t, t = PassOf(s, w, h, c, r), NEW p, p = PassOf(t, w, h, c, r)
  PROVE  /\ p \in Font
         /\ p = 6 \/ (5 * w >= 3 * (p - 1) * c /\ CellHeight(p - 1) * r <= h)
         /\ p + 2 > 22 \/ ~(5 * w >= 3 * (p + 2) * c /\ CellHeight(p + 2) * r <= h)
<1>1. t \in Font /\ (t > 6 => 5 * w >= 3 * t * c /\ 6 * (t * r) <= 5 * h)
  BY PassBounds
<1>2. p \in Font /\ (p > 6 => 5 * w >= 3 * p * c /\ CellHeight(p - 1) * r <= h)
  BY <1>1, PassBounds
<1>3. p \in 6..22 /\ t \in 6..22
  BY <1>1, <1>2 DEF Font, MIN_FONT, MAX_FONT
<1>4. p > 6 => 5 * w >= 3 * (p - 1) * c
  <2>1. 3 * (p - 1) * c = 3 * p * c - 3 * c /\ 3 * p * c \in Int
    BY <1>3
  <2>. QED BY <1>2, <1>3, <2>1
<1>5. ASSUME p + 2 <= 22, 5 * w >= 3 * (p + 2) * c, CellHeight(p + 2) * r <= h
      PROVE  FALSE
  <2>. DEFINE b == p + 2
  <2>1. b \in 8..22 /\ 5 * w >= 3 * b * c /\ CellHeight(b) * r <= h /\ p = b - 2
    BY <1>3, <1>5
  <2>. HIDE DEF b
  <2>2. b - 2 <= t
    BY <2>1, PassReaches
  <2>3. CASE t <= b
    <3>1. b - 1 <= p
      BY <1>1, <2>1, <2>2, <2>3, PassReaches
    <3>. QED BY <2>1, <3>1
  <2>4. CASE t > b
    <3>1. t - 2 <= p
      <4>1. t \in Font /\ 5 * w >= 3 * t * c /\ 6 * (t * r) <= 5 * h
        BY <1>1, <1>3, <2>1, <2>4
      <4>2. t - 2 <= PassOf(t, w, h, c, r)
        BY <4>1, PassFromAbove
      <4>. QED BY <4>2
    <3>. QED BY <1>3, <2>1, <2>4, <3>1
  <2>. QED BY <1>3, <2>1, <2>3, <2>4
<1>. QED BY <1>2, <1>3, <1>4, <1>5

\* The page's measures: its font is one that xterm may have, and the terminal it is fitted to
\* is the default one until the host has told its size.
FitInv ==
  /\ font \in Font
  /\ grid[1] \in Nat \ {0} /\ grid[2] \in Nat \ {0}
  /\ window \in Windows
  /\ FontNearlyBest

LEMMA RefitFits ==
  ASSUME font \in Font, Refit, window' \in Windows,
         grid'[1] \in Nat \ {0}, grid'[2] \in Nat \ {0}
  PROVE  FitInv'
<1>. DEFINE w == window'[1]
            h == window'[2]
            c == grid'[1]
            r == grid'[2]
            t == PassOf(font, w, h, c, r)
            p == font'
<1>1. w \in Nat /\ h \in Nat
  BY PageAssumption
<1>2. c \in Nat /\ c > 0 /\ r \in Nat /\ r > 0
  OBVIOUS
<1>3. \A s : Pass(s) = PassOf(s, w, h, c, r)
  BY DEF Pass, PassOf, ProposedCols, ProposedRows, Columns, Rows
<1>4. p = PassOf(t, w, h, c, r)
  BY <1>3 DEF Refit
<1>5. t = PassOf(font, w, h, c, r)
  OBVIOUS
<1>. HIDE DEF w, h, c, r, t, p
<1>6. t \in Font
  BY <1>1, <1>2, <1>5, PassType
<1>7. p \in Font
  BY <1>1, <1>2, <1>4, <1>6, PassType
<1>8. ASSUME c >= 22, r >= 22
      PROVE  /\ p = 6 \/ (5 * w >= 3 * (p - 1) * c /\ CellHeight(p - 1) * r <= h)
             /\ p + 2 > 22 \/ ~(5 * w >= 3 * (p + 2) * c /\ CellHeight(p + 2) * r <= h)
  BY <1>1, <1>2, <1>4, <1>5, <1>8, TwoPasses
<1>9. FontNearlyBest'
  BY <1>8 DEF FontNearlyBest, Fits, CellFits, MIN_FONT, MAX_FONT, w, h, c, r, p
<1>. QED BY <1>7, <1>9 DEF FitInv, p

LEMMA FitStays ==
  ASSUME FitInv, UNCHANGED fitVars, ready' => ready
  PROVE  FitInv'
BY DEF FitInv, fitVars, FontNearlyBest, Fits

\* What the host says of its size is what the page hears.
LEMMA SizeRead ==
  ASSUME NEW g,
         NEW m \in Marshal([type |-> "RESIZE", channel |-> CHANNEL_CONTROL, payload |-> g]),
         NEW f \in Decode(m)
  PROVE  f.payload = g
BY DEF Decode, DecodeControl, Marshal, EncodeControl

LEMMA FitInvNext ==
  ASSUME LinkInv, FitInv, [Next]_vars
  PROVE  FitInv'
<1>1. CASE Load
  <2>1. view = "loading" /\ ready' = ready
    BY <1>1 DEF Load
  <2>2. ~ready'
    BY <2>1 DEF LinkInv, ViewInv
  <2>3. CASE UNCHANGED fitVars
    BY <2>2, <2>3, FitStays
  <2>4. CASE grid' = <<80, 24>> /\ UNCHANGED window /\ font' = BASE_FONT
    BY <2>2, <2>4 DEF FitInv, FontNearlyBest, Font, BASE_FONT, MIN_FONT, MAX_FONT
  <2>. QED BY <1>1, <2>3, <2>4 DEF Load
<1>2. CASE KeysReady
  BY <1>2, RefitFits DEF KeysReady, FitInv
<1>3. CASE EditFragment
  BY <1>3, FitStays DEF EditFragment
<1>4. CASE Reload
  BY <1>4, FitStays DEF Reload, Loading
<1>5. CASE Submit
  BY <1>5, FitStays DEF Submit, Loading
<1>6. CASE OutputArrives
  BY <1>6, FitStays DEF OutputArrives, linkVars
<1>7. CASE KeyArrives
  BY <1>7, FitStays DEF KeyArrives, linkVars
<1>8. CASE HostResizes
  <2>1. PICK g \in Grids :
          \E m \in Marshal([type |-> "RESIZE", channel |-> CHANNEL_CONTROL, payload |-> g]) :
            \E f \in Decode(m) : grid' = f.payload
    BY <1>8 DEF HostResizes
  <2>2. grid' = g
    BY <2>1, SizeRead
  <2>3. g[1] \in Nat \ {0} /\ g[2] \in Nat \ {0}
    BY PageAssumption
  <2>4. window' \in Windows /\ Refit
    BY <1>8 DEF HostResizes, FitInv
  <2>. QED BY <2>2, <2>3, <2>4, RefitFits DEF FitInv
<1>9. CASE WindowResizes
  BY <1>9, RefitFits DEF WindowResizes, FitInv
<1>10. CASE Reconnect
  BY <1>10, FitStays DEF Reconnect, linkVars
<1>11. CASE UNCHANGED vars
  BY <1>11, FitStays DEF vars, linkVars
<1>. QED BY <1>1, <1>2, <1>3, <1>4, <1>5, <1>6, <1>7, <1>8, <1>9, <1>10, <1>11 DEF Next

\* For every window and every terminal of 22 columns and rows or more, whatever sizes went
\* before, two passes of refit leave the font at most one size away from the best.
THEOREM FontNearlyBestHolds == Spec => []FontNearlyBest
<1>1. Init => FitInv
  <2>. SUFFICES ASSUME Init PROVE FitInv
    OBVIOUS
  <2>1. ~ready /\ grid = <<80, 24>> /\ window \in Windows /\ font = BASE_FONT
    BY DEF Init
  <2>. QED BY <2>1 DEF FitInv, FontNearlyBest, Font, BASE_FONT, MIN_FONT, MAX_FONT
<1>2. LinkInv /\ FitInv /\ [Next]_vars => FitInv'
  BY FitInvNext
<1>3. FitInv => FontNearlyBest
  BY DEF FitInv
<1>. QED BY <1>1, <1>2, <1>3, LinkInvariance, PTL DEF Spec
=============================================================================
