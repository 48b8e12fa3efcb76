-------------------------- MODULE LegacyCpuProofs --------------------------
(***************************************************************************)
(* Proofs about LegacyAlu and LegacyCpu, for every width of a nibble, every *)
(* register and every program: the branch behind a comparison decides the  *)
(* order of the operands, a carry moves from one shift into the next, a    *)
(* division gives back what was multiplied and a bit that was changed is   *)
(* the bit that is tested.                                                 *)
(*                                                                         *)
(* The properties speak of the last two instructions.  The invariant       *)
(* CpuInv says what each of the two did to the registers, the flags and    *)
(* memory, from what it found; that a part of a register is put without a  *)
(* change to the other parts (PutGet) joins them.                          *)
(***************************************************************************)
EXTENDS LegacyCpu, SequenceTheorems, TLAPS

-----------------------------------------------------------------------------
\* Arithmetic: a product with an even factor is even, and grows.
LEMMA EvenSquare ==
  ASSUME NEW n \in Nat \ {0}, n % 2 = 0
  PROVE  n * n \in Nat \ {0} /\ (n * n) % 2 = 0 /\ n * n >= n
PROOF
<1>1. PICK k \in Nat : n = 2 * k
  BY SMT
<1>2. n * n = 2 * (k * n) /\ k * n \in Nat
  BY <1>1, SMT
<1>3. \A j \in Nat : (2 * j) % 2 = 0
  BY SMT
<1>4. (n * n) % 2 = 0
  BY <1>2, <1>3
<1>5. n * n >= n /\ n * n # 0
  BY SMT
<1>6. n * n \in Nat
  BY SMT
<1> QED BY <1>4, <1>5, <1>6

\* The number of values of every width is even, and no more than a uint32_t
\* has.
LEMMA Sizes ==
  ASSUME NEW w \in Widths
  PROVE  Mod(w) \in Nat \ {0} /\ Mod(w) % 2 = 0 /\ Mod(w) <= Long /\ Long \in Nat
PROOF
<1>1. Byte \in Nat \ {0} /\ Byte % 2 = 0
  BY NibbleAssumption, EvenSquare DEF Byte
<1>2. Word \in Nat \ {0} /\ Word % 2 = 0 /\ Word >= Byte
  BY <1>1, EvenSquare DEF Word
<1>3. Long \in Nat \ {0} /\ Long % 2 = 0 /\ Long >= Word
  BY <1>2, EvenSquare DEF Long
<1>4. w = "b" => Mod(w) = Byte
  BY DEF Mod
<1>5. w = "w" => Mod(w) = Word
  BY DEF Mod
<1>6. w = "l" => Mod(w) = Long
  BY DEF Mod
<1>7. w = "b" \/ w = "w" \/ w = "l"
  BY DEF Widths
<1>8. Byte <= Long /\ Word <= Long /\ Long <= Long
  <2> HIDE DEF Byte, Word, Long
  <2> QED BY <1>1, <1>2, <1>3, SMT
<1> QED BY <1>1, <1>2, <1>3, <1>4, <1>5, <1>6, <1>7, <1>8

\* The remainder of a number in the range, of one below it and of a small
\* difference.
LEMMA Remainders ==
  ASSUME NEW m \in Nat \ {0}, NEW x \in Int, x < m, - m < x
  PROVE  x % m = IF x >= 0 THEN x ELSE x + m
PROOF
<1>1. CASE x >= 0
  BY <1>1, SMT
<1>2. CASE x < 0
  BY <1>2, SMT
<1> QED BY <1>1, <1>2, SMT

Flags == [C : BOOLEAN, V : BOOLEAN, Z : BOOLEAN, N : BOOLEAN, H : BOOLEAN, I : BOOLEAN]

\* What the flags of a subtraction say, in terms of half the range.
LEMMA SubtractionFlags ==
  ASSUME NEW w \in Widths, NEW a \in Values(w), NEW b \in Values(w), NEW f \in Flags,
         NEW h \in Nat \ {0}, Mod(w) = 2 * h
  PROVE  LET g == SetFlagsSUB(f, a, b, w)
         IN /\ g.Z = (a = b)
            /\ g.C = (b > a)
            /\ g.N = IF a >= b THEN a - b >= h ELSE a - b + 2 * h >= h
            /\ g.V = ((a >= h) # (b >= h) /\ g.N = (b >= h))
            /\ Negative(a, w) = (a >= h) /\ Negative(b, w) = (b >= h)
PROOF
<1> DEFINE M == Mod(w)
<1>1. M \in Nat \ {0} /\ M <= Long /\ Long \in Nat \ {0} /\ M = 2 * h
  BY Sizes, SMT
<1>2. a \in Int /\ b \in Int /\ 0 <= a /\ a < M /\ 0 <= b /\ b < M
  BY <1>1, SMT DEF Values
<1> HIDE DEF M
<1>3. M \div 2 = h
  BY <1>1, SMT
<1>4. a % M = a /\ b % M = b
  BY <1>1, <1>2, Remainders, SMT
<1>5. (a - b) % M = IF a >= b THEN a - b ELSE a - b + M
  <2>1. a - b \in Int /\ a - b < M /\ - M < a - b
    BY <1>1, <1>2, SMT
  <2>2. (a - b) % M = IF a - b >= 0 THEN a - b ELSE (a - b) + M
    BY <2>1, <1>1, Remainders
  <2> QED BY <2>2, <1>1, <1>2, SMT
<1>6. (a - b) % Long = 0 <=> a = b
  <2>1. a - b \in Int /\ a - b < Long /\ - Long < a - b
    BY <1>1, <1>2, SMT
  <2>2. (a - b) % Long = IF a - b >= 0 THEN a - b ELSE (a - b) + Long
    BY <2>1, <1>1, Remainders
  <2> QED BY <2>1, <2>2, <1>1, <1>2, SMT
<1>7. Negative(a, w) = (a >= h) /\ Negative(b, w) = (b >= h)
  BY <1>3, <1>4 DEF Negative, M
<1>8. Negative(a - b, w) = IF a >= b THEN a - b >= h ELSE a - b + 2 * h >= h
  <2>1. Negative(a - b, w) = ((a - b) % M >= h)
    BY <1>3 DEF Negative, M
  <2>2. CASE a >= b
    BY <2>1, <2>2, <1>5
  <2>3. CASE ~(a >= b)
    BY <2>1, <2>3, <1>5, <1>1
  <2> QED BY <2>2, <2>3
<1> DEFINE g == SetFlagsSUB(f, a, b, w)
<1>9. /\ g.Z = (((a - b) % Long) = 0)
      /\ g.C = (b > a)
      /\ g.N = Negative(a - b, w)
      /\ g.V = (Negative(a, w) # Negative(b, w) /\ Negative(a - b, w) = Negative(b, w))
  BY DEF SetFlagsSUB, Flags
<1> HIDE DEF g
<1> QED BY <1>6, <1>7, <1>8, <1>9 DEF g

-----------------------------------------------------------------------------
\* The branch behind a comparison or a subtraction of a and b is taken
\* exactly when their order, unsigned or signed, is the one it is named for,
\* for every width and every operand.  (setFlagsSUB, Bcc)
THEOREM CompareDecides ==
  ASSUME NEW w \in Widths, NEW a \in Values(w), NEW b \in Values(w), NEW f \in Flags,
         NEW c \in Orders
  PROVE  Taken(c, SetFlagsSUB(f, a, b, w)) <=> Ordered(c, a, b, w)
PROOF
<1>1. PICK h \in Nat \ {0} : Mod(w) = 2 * h
  BY Sizes, SMT
<1> DEFINE g == SetFlagsSUB(f, a, b, w)
<1>2. /\ g.Z = (a = b)
      /\ g.C = (b > a)
      /\ g.N = IF a >= b THEN a - b >= h ELSE a - b + 2 * h >= h
      /\ g.V = ((a >= h) # (b >= h) /\ g.N = (b >= h))
      /\ Negative(a, w) = (a >= h) /\ Negative(b, w) = (b >= h)
  BY <1>1, SubtractionFlags
<1>3. a \in Int /\ b \in Int /\ 0 <= a /\ a < 2 * h /\ 0 <= b /\ b < 2 * h
  BY <1>1, SMT DEF Values
<1> HIDE DEF g
<1>4. /\ Signed(a, w) = IF a >= h THEN a - 2 * h ELSE a
      /\ Signed(b, w) = IF b >= h THEN b - 2 * h ELSE b
  BY <1>1, <1>2 DEF Signed
<1>b. g.Z \in BOOLEAN /\ g.C \in BOOLEAN /\ g.N \in BOOLEAN /\ g.V \in BOOLEAN
  BY DEF g, SetFlagsSUB, Flags, Negative
<1>5. (g.N # g.V) <=> Signed(a, w) < Signed(b, w)
  <2>1. CASE (a >= h) = (b >= h)
    <3>1. g.V = FALSE
      BY <2>1, <1>2
    <3>2. g.N <=> (Signed(a, w) < Signed(b, w))
      <4>a. CASE a >= b
        <5>1. g.N <=> a - b >= h
          BY <1>2, <4>a
        <5>2. ~(a - b >= h)
          BY <2>1, <4>a, <1>3, SMT
        <5>3. ~(Signed(a, w) < Signed(b, w))
          BY <2>1, <4>a, <1>3, <1>4, SMT
        <5> QED BY <5>1, <5>2, <5>3
      <4>b. CASE ~(a >= b)
        <5>1. g.N <=> a - b + 2 * h >= h
          BY <1>2, <4>b
        <5>2. a - b + 2 * h >= h
          BY <2>1, <4>b, <1>3, SMT
        <5>3. Signed(a, w) < Signed(b, w)
          BY <2>1, <4>b, <1>3, <1>4, SMT
        <5> QED BY <5>1, <5>2, <5>3
      <4> QED BY <4>a, <4>b
    <3>3. (g.N # g.V) <=> g.N
      BY <3>1, <1>b
    <3> QED BY <3>2, <3>3
  <2>2. CASE (a >= h) # (b >= h)
    <3>1. g.V = (g.N = (b >= h))
      BY <2>2, <1>2
    <3>2. CASE b >= h
      <4>1. (g.N # g.V) = FALSE
        BY <3>1, <3>2, <1>2
      <4>2. ~(Signed(a, w) < Signed(b, w))
        BY <2>2, <3>2, <1>3, <1>4, SMT
      <4> QED BY <4>1, <4>2
    <3>3. CASE ~(b >= h)
      <4>1. (g.N # g.V) = TRUE
        BY <3>1, <3>3, <1>2
      <4>2. Signed(a, w) < Signed(b, w)
        BY <2>2, <3>3, <1>3, <1>4, SMT
      <4> QED BY <4>1, <4>2
    <3> QED BY <3>2, <3>3
  <2> QED BY <2>1, <2>2
<1>6. Signed(a, w) \in Int /\ Signed(b, w) \in Int /\ (Signed(a, w) = Signed(b, w) <=> a = b)
  BY <1>3, <1>4, SMT
<1>7. CASE c \in {"BHI", "BLS", "BCC", "BCS", "BNE", "BEQ"}
  <2>1. Taken(c, g) <=> CASE c = "BHI" -> ~(g.C \/ g.Z) [] c = "BLS" -> g.C \/ g.Z
                          [] c = "BCC" -> ~g.C [] c = "BCS" -> g.C
                          [] c = "BNE" -> ~g.Z [] c = "BEQ" -> g.Z
    BY <1>7 DEF Taken
  <2>2. Ordered(c, a, b, w) <=> CASE c = "BHI" -> a > b [] c = "BLS" -> a <= b
                                  [] c = "BCC" -> a >= b [] c = "BCS" -> a < b
                                  [] c = "BNE" -> a # b [] c = "BEQ" -> a = b
    BY <1>7 DEF Ordered
  <2>3. (g.C <=> a < b) /\ (g.Z <=> a = b) /\ (g.C \/ g.Z <=> a <= b)
    <3>1. (b > a <=> a < b) /\ (a < b \/ a = b <=> a <= b)
      BY <1>3, SMT
    <3> QED BY <3>1, <1>2, <1>b
  <2>4. (a >= b <=> ~(a < b)) /\ (a > b <=> ~(a <= b))
    BY <1>3, SMT
  <2> QED BY <1>7, <2>1, <2>2, <2>3, <2>4 DEF g
<1>8. CASE c \in {"BGE", "BLT"}
  <2>1. Taken(c, g) <=> IF c = "BLT" THEN g.N # g.V ELSE ~(g.N # g.V)
    BY <1>8 DEF Taken
  <2>2. Ordered(c, a, b, w) <=> IF c = "BLT" THEN Signed(a, w) < Signed(b, w)
                                             ELSE Signed(a, w) >= Signed(b, w)
    BY <1>8 DEF Ordered
  <2> QED BY <1>8, <2>1, <2>2, <1>5, <1>6, SMT DEF g
<1>9. CASE c \in {"BGT", "BLE"}
  <2>1. Taken(c, g) <=> IF c = "BLE" THEN g.Z \/ g.N # g.V ELSE ~(g.Z \/ g.N # g.V)
    BY <1>9 DEF Taken
  <2>2. Ordered(c, a, b, w) <=> IF c = "BLE" THEN Signed(a, w) <= Signed(b, w)
                                             ELSE Signed(a, w) > Signed(b, w)
    BY <1>9 DEF Ordered
  <2>3. (g.Z \/ g.N # g.V) <=> Signed(a, w) <= Signed(b, w)
    <3>1. g.Z <=> Signed(a, w) = Signed(b, w)
      BY <1>2, <1>6
    <3>2. Signed(a, w) <= Signed(b, w)
          <=> Signed(a, w) = Signed(b, w) \/ Signed(a, w) < Signed(b, w)
      BY <1>6, SMT
    <3> QED BY <3>1, <3>2, <1>5
  <2> QED BY <1>9, <2>1, <2>2, <2>3, <1>6, SMT DEF g
<1> QED BY <1>7, <1>8, <1>9 DEF Orders, Conditions

\* The carry that a subtraction leaves is its borrow: the operands differ by
\* the result, less a whole range when the carry is set.  (setFlagsSUB)
THEOREM CarryIsBorrow ==
  ASSUME NEW w \in Widths, NEW a \in Values(w), NEW b \in Values(w), NEW f \in Flags
  PROVE  a - b = ((a - b) % Mod(w))
                 - (IF SetFlagsSUB(f, a, b, w).C THEN Mod(w) ELSE 0)
PROOF
<1>1. Mod(w) \in Nat \ {0}
  BY Sizes
<1>2. a \in Int /\ b \in Int /\ a - b < Mod(w) /\ - Mod(w) < a - b
  BY <1>1, SMT DEF Values
<1>3. (a - b) % Mod(w) = IF a - b >= 0 THEN a - b ELSE (a - b) + Mod(w)
  BY <1>1, <1>2, Remainders
<1>4. (a - b) % Mod(w) \in Int
  BY <1>1, <1>2, <1>3, SMT
<1>5. SetFlagsSUB(f, a, b, w).C = (b > a)
  BY DEF SetFlagsSUB, Flags
<1>6. CASE b > a
  <2>1. a - b = ((a - b) % Mod(w)) - Mod(w)
    BY <1>6, <1>1, <1>2, <1>3, SMT
  <2> QED BY <2>1, <1>6, <1>5
<1>7. CASE ~(b > a)
  <2>1. a - b = ((a - b) % Mod(w)) - 0
    BY <1>7, <1>1, <1>2, <1>3, SMT
  <2> QED BY <2>1, <1>7, <1>5
<1> QED BY <1>6, <1>7

-----------------------------------------------------------------------------
\* Numbers and their digits.
\* A byte has at least four values, and a word and a long follow from it.
LEMMA Numbers ==
  /\ Byte \in Nat /\ Word \in Nat /\ Long \in Nat
  /\ Byte >= 4 /\ Word = Byte * Byte /\ Word >= Byte /\ Long = Word * Word /\ Long >= Word
<1>1. Nibble \in Nat /\ Nibble >= 2
  BY NibbleAssumption, SMT
<1>2. \A n \in Nat : n >= 2 => n * n \in Nat /\ n * n >= n /\ n * n >= 4
  BY SMT
<1>3. Byte \in Nat /\ Byte >= 4
  BY <1>1, <1>2 DEF Byte
<1>4. Word \in Nat /\ Word >= Byte /\ Word >= 4
  BY <1>3, <1>2, SMT DEF Word
<1>5. Long \in Nat /\ Long >= Word
  BY <1>3, <1>4, <1>2, SMT DEF Long
<1> QED
  BY <1>3, <1>4, <1>5 DEF Word, Long

\* The digits of a number are the ones it was put together from.
LEMMA Digits ==
  ASSUME NEW m \in Nat, m > 0, NEW q \in Int, NEW s \in Int, 0 <= s, s < m
  PROVE  (q * m + s) \div m = q /\ (q * m + s) % m = s
<1>1. PICK a \in Int : a = q * m + s
  OBVIOUS
<1>2. a = m * (a \div m) + (a % m) /\ a \div m \in Int /\ a % m \in Int /\ 0 <= a % m /\ a % m < m
  BY SMT
<1>3. PICK d \in Int : d = (a \div m) - q
  BY <1>2
<1>4. m * d = s - (a % m)
  BY <1>1, <1>2, <1>3, SMT
<1>5. d >= 1 => m * d >= m
  BY SMT
<1>6. d <= -1 => m * d <= -m
  BY SMT
<1>7. d = 0
  BY <1>2, <1>4, <1>5, <1>6, SMT
<1> QED
  BY <1>1, <1>2, <1>3, <1>4, <1>7, SMT

\* A number is its quotient and its remainder.
LEMMA Divide ==
  ASSUME NEW m \in Nat, m > 0, NEW a \in Int
  PROVE  /\ a \div m \in Int /\ a % m \in Nat /\ a % m < m
         /\ a = (a \div m) * m + (a % m)
         /\ a >= 0 => a \div m \in Nat
BY SMT

\* A part of a remainder: a number modulo m, modulo a multiple of m.
\* The two digits of a number below the product of the bases.
LEMMA Split ==
  ASSUME NEW m \in Nat, m > 0, NEW n \in Nat, n > 0, NEW a \in Nat, a < m * n
  PROVE  /\ a \div m \in Nat /\ a \div m < n /\ a % m \in Nat /\ a % m < m
         /\ a = (a \div m) * m + (a % m)
<1>1. /\ a \div m \in Nat /\ a % m \in Nat /\ a % m < m /\ a = (a \div m) * m + (a % m)
  BY Divide
<1>2. PICK q \in Nat : q = a \div m
  BY <1>1
<1>3. q >= n => q * m >= m * n
  BY SMT
<1>4. q * m <= a
  BY <1>1, <1>2, SMT
<1> QED
  BY <1>1, <1>2, <1>3, <1>4, SMT

\* A number below the modulus is its own remainder.
LEMMA SmallRemainder ==
  ASSUME NEW m \in Nat, m > 0, NEW a \in Nat, a < m
  PROVE  a % m = a
BY SMT

-----------------------------------------------------------------------------
\* The parts of a register.  The values that the registers can hold:
Ers == [Regs -> 0 .. Long - 1]

\* A register is its parts E, RH and RL,
LEMMA PartsOf ==
  ASSUME NEW R \in 0 .. Long - 1
  PROVE  \E e \in 0 .. Word - 1, h \in 0 .. Byte - 1, l \in 0 .. Byte - 1 :
           R = e * Word + (h * Byte + l)
<1> HIDE DEF Byte, Word, Long
<1>1. R \in Nat /\ R < Word * Word /\ Word \in Nat /\ Word > 0
  BY Numbers, SMT
<1>2. /\ R \div Word \in Nat /\ R \div Word < Word /\ R % Word \in Nat /\ R % Word < Word
      /\ R = (R \div Word) * Word + (R % Word)
  BY <1>1, Split
<1>3. PICK x \in Nat : x = R % Word /\ x < Byte * Byte /\ Byte \in Nat /\ Byte > 0
  BY <1>2, Numbers, SMT
<1>4. /\ x \div Byte \in Nat /\ x \div Byte < Byte /\ x % Byte \in Nat /\ x % Byte < Byte
      /\ x = (x \div Byte) * Byte + (x % Byte)
  BY <1>3, Split
<1>5. \A n \in Nat, q \in Nat : q < n /\ n > 0 => q \in 0 .. n - 1
  BY SMT
<1>6. R \div Word \in 0 .. Word - 1 /\ x \div Byte \in 0 .. Byte - 1 /\ x % Byte \in 0 .. Byte - 1
  BY <1>1, <1>2, <1>3, <1>4, <1>5
<1>7. R = (R \div Word) * Word + ((x \div Byte) * Byte + (x % Byte))
  BY <1>2, <1>3, <1>4
<1> QED
  BY <1>6, <1>7

\* and the parts are read back from what they make up.
LEMMA PartsAre ==
  ASSUME NEW e \in 0 .. Word - 1, NEW h \in 0 .. Byte - 1, NEW l \in 0 .. Byte - 1,
         NEW R, R = e * Word + (h * Byte + l)
  PROVE  /\ R \in 0 .. Long - 1
         /\ R % Byte = l /\ (R \div Byte) % Byte = h
         /\ R % Word = h * Byte + l /\ R \div Word = e
<1> HIDE DEF Byte, Word, Long
<1>0. e \in Nat /\ h \in Nat /\ l \in Nat /\ e < Word /\ h < Byte /\ l < Byte
  BY Numbers, SMT
<1>1. PICK x \in Nat : x = h * Byte + l
  BY <1>0, Numbers, SMT
<1>2. h * Byte <= (Byte - 1) * Byte /\ (Byte - 1) * Byte = Byte * Byte - Byte
  BY <1>0, Numbers, SMT
<1>3. x < Word
  BY <1>0, <1>1, <1>2, Numbers, SMT
<1>4. e * Word <= (Word - 1) * Word /\ (Word - 1) * Word = Word * Word - Word
  BY <1>0, Numbers, SMT
<1>5. R \in 0 .. Long - 1
  BY <1>0, <1>1, <1>3, <1>4, Numbers, SMT
<1>6. R % Word = x /\ R \div Word = e
  BY <1>0, <1>1, <1>3, Digits, Numbers, SMT
<1>7. PICK q \in Int : q = e * Byte + h
  BY <1>0, Numbers, SMT
<1>8. R = q * Byte + l
  BY <1>0, <1>7, Numbers, SMT
<1>9. R \div Byte = q /\ R % Byte = l
  BY <1>0, <1>8, Digits, Numbers, SMT
<1>10. q % Byte = h
  BY <1>0, <1>7, Digits, Numbers, SMT
<1> QED
  BY <1>1, <1>5, <1>6, <1>9, <1>10

\* A remainder is in the range of the modulus.
LEMMA Cut ==
  ASSUME NEW m \in Nat, m > 0, NEW v \in Int
  PROVE  v % m \in 0 .. m - 1
BY SMT

\* The width of each part.
LEMMA PartKinds ==
  ASSUME NEW x \in Operands
  PROVE  /\ x.n \in Regs /\ x.p \in {"l", "h", "r", "e", "er"}
         /\ x = [n |-> x.n, p |-> x.p]
         /\ WidthOf(x) \in Widths
         /\ WidthOf(x) = "b" <=> x.p \in {"l", "h"}
         /\ WidthOf(x) = "w" <=> x.p \in {"r", "e"}
         /\ WidthOf(x) = "l" <=> x.p = "er"
BY DEF Operands, WidthOf, Widths

\* How many values each width has.
LEMMA Mods ==
  /\ Mod("b") = Byte /\ Mod("w") = Word /\ Mod("l") = Long
  /\ \A w \in Widths : Mod(w) \in Nat /\ Mod(w) >= 4
<1>1. Mod("b") = Byte /\ Mod("w") = Word /\ Mod("l") = Long
  BY DEF Mod
<1> HIDE DEF Byte, Word, Long
<1>2. Byte >= 4 /\ Word >= 4 /\ Long >= 4 /\ Byte \in Nat /\ Word \in Nat /\ Long \in Nat
  BY Numbers, SMT
<1> QED
  BY <1>1, <1>2 DEF Widths

\* A part that was put is read back, cut to its width; the other part of
\* that width and the other registers are as they were.  (getRegRef8,
\* getRegRef16, getRegRef32)
LEMMA PutGet ==
  ASSUME NEW r \in Ers, NEW x \in Operands, NEW v \in Int
  PROVE  /\ Put(r, x, v) \in Ers
         /\ Get(r, x) \in Values(WidthOf(x))
         /\ Get(Put(r, x, v), x) = v % Mod(WidthOf(x))
         /\ \A y \in Operands :
              (y.n # x.n \/ (WidthOf(y) = WidthOf(x) /\ y # x)) => Get(Put(r, x, v), y) = Get(r, y)
<1> HIDE DEF Byte, Word, Long
<1> DEFINE n == x.n
           c == v % Mod(WidthOf(x))
           s == Put(r, x, v)
<1>1. n \in Regs /\ x.p \in {"l", "h", "r", "e", "er"} /\ DOMAIN r = Regs /\ r[n] \in 0 .. Long - 1
  BY PartKinds DEF Ers
<1>2. PICK e \in 0 .. Word - 1, h \in 0 .. Byte - 1, l \in 0 .. Byte - 1 :
        r[n] = e * Word + (h * Byte + l)
  BY <1>1, PartsOf
<1>3. /\ r[n] % Byte = l /\ (r[n] \div Byte) % Byte = h
      /\ r[n] % Word = h * Byte + l /\ r[n] \div Word = e
  BY <1>2, PartsAre
<1>n. /\ e \in Nat /\ h \in Nat /\ l \in Nat /\ Byte \in Nat /\ Word \in Nat /\ Long \in Nat
      /\ Byte > 0 /\ Word > 0 /\ Long > 0
      /\ h * Byte + l \in 0 .. Word - 1
  <2>1. e \in Nat /\ h \in Nat /\ l \in Nat /\ Byte \in Nat /\ Word \in Nat /\ Long \in Nat
        /\ Byte > 0 /\ Word > 0 /\ Long > 0
    BY Numbers, SMT
  <2>2. h * Byte + l \in 0 .. Word - 1
    BY <1>1, <1>3, <2>1, Cut, Numbers, SMT
  <2> QED
    BY <2>1, <2>2
<1>m. /\ x.p \in {"l", "h"} => Mod(WidthOf(x)) = Byte
      /\ x.p \in {"r", "e"} => Mod(WidthOf(x)) = Word
      /\ x.p = "er" => Mod(WidthOf(x)) = Long
  BY Mods, PartKinds
<1>4. s = [r EXCEPT ![n] = s[n]] /\ DOMAIN s = Regs
  BY <1>1 DEF Put
<1>5. \A y \in Operands : Get(r, y) = CASE y.p = "l" -> r[y.n] % Byte
               [] y.p = "h" -> (r[y.n] \div Byte) % Byte
               [] y.p = "r" -> r[y.n] % Word
               [] y.p = "e" -> r[y.n] \div Word
               [] y.p = "er" -> r[y.n]
  BY DEF Get
<1>6. \A y \in Operands : Get(s, y) = CASE y.p = "l" -> s[y.n] % Byte
               [] y.p = "h" -> (s[y.n] \div Byte) % Byte
               [] y.p = "r" -> s[y.n] % Word
               [] y.p = "e" -> s[y.n] \div Word
               [] y.p = "er" -> s[y.n]
  BY DEF Get
<1>7. \A y \in Operands : y.n # n => Get(s, y) = Get(r, y)
  <2> SUFFICES ASSUME NEW y \in Operands, y.n # n PROVE Get(s, y) = Get(r, y)
    OBVIOUS
  <2>1. s[y.n] = r[y.n]
    BY <1>1, <1>4, PartKinds
  <2> QED
    BY <2>1, <1>5, <1>6
<1>8. s[n] = r[n] + (c - Get(r, x)) * (CASE x.p = "h" -> Byte [] x.p = "e" -> Word [] OTHER -> 1)
  BY <1>1 DEF Put
<1>9. s[n] \in 0 .. Long - 1 => s \in Ers
  BY <1>1, <1>4 DEF Ers
<1>10. \A y \in Operands : y.n = n /\ y # x => y.p # x.p
  BY PartKinds
<1>11. x.p \in {"l", "h"} => c \in 0 .. Byte - 1
  BY <1>m, <1>n, Cut
<1>12. x.p \in {"r", "e"} => c \in 0 .. Word - 1
  BY <1>m, <1>n, Cut
<1>13. x.p = "er" => c \in 0 .. Long - 1
  BY <1>m, <1>n, Cut
<1>v. Values(WidthOf(x)) = 0 .. Mod(WidthOf(x)) - 1
  BY DEF Values
<1>w. Get(s, x) = CASE x.p = "l" -> s[n] % Byte
               [] x.p = "h" -> (s[n] \div Byte) % Byte
               [] x.p = "r" -> s[n] % Word
               [] x.p = "e" -> s[n] \div Word
               [] x.p = "er" -> s[n]
  BY <1>6
<1>x. Get(r, x) = CASE x.p = "l" -> l
               [] x.p = "h" -> h
               [] x.p = "r" -> h * Byte + l
               [] x.p = "e" -> e
               [] x.p = "er" -> r[n]
  BY <1>5, <1>3
<1> HIDE DEF s, c
<1>l. CASE x.p = "l"
  <2>1. s[n] = r[n] + (c - l)
    BY <1>l, <1>8, <1>x, <1>11, <1>n, SMT
  <2>2. s[n] = e * Word + (h * Byte + c) /\ c \in 0 .. Byte - 1
    BY <2>1, <1>l, <1>2, <1>11, <1>n, SMT
  <2>3. s[n] \in 0 .. Long - 1 /\ s[n] % Byte = c /\ (s[n] \div Byte) % Byte = h
    BY <2>2, PartsAre
  <2>4. \A y \in Operands : y.n = n /\ WidthOf(y) = WidthOf(x) /\ y # x => Get(s, y) = Get(r, y)
    <3> SUFFICES ASSUME NEW y \in Operands, y.n = n, WidthOf(y) = WidthOf(x), y # x
                 PROVE  Get(s, y) = Get(r, y)
      OBVIOUS
    <3>1. y.p = "h"
      BY <1>l, <1>10, PartKinds
    <3> QED
      BY <3>1, <2>3, <1>3, <1>5, <1>6
  <2>5. Get(s, x) = c /\ Get(r, x) \in Values(WidthOf(x))
    BY <2>3, <1>l, <1>w, <1>x, <1>v, <1>m
  <2> QED
    BY <2>3, <2>4, <2>5, <1>7, <1>9 DEF s, c
<1>h. CASE x.p = "h"
  <2>1. s[n] = r[n] + (c - h) * Byte
    BY <1>h, <1>8, <1>x
  <2>2. s[n] = e * Word + (c * Byte + l) /\ c \in 0 .. Byte - 1
    <3>1. (c - h) * Byte = c * Byte - h * Byte /\ c * Byte \in Int /\ h * Byte \in Int /\ e * Word \in Int
      BY <1>h, <1>11, <1>n, SMT
    <3> QED
      BY <2>1, <3>1, <1>h, <1>2, <1>11, <1>n, SMT
  <2>3. s[n] \in 0 .. Long - 1 /\ s[n] % Byte = l /\ (s[n] \div Byte) % Byte = c
    BY <2>2, PartsAre
  <2>4. \A y \in Operands : y.n = n /\ WidthOf(y) = WidthOf(x) /\ y # x => Get(s, y) = Get(r, y)
    <3> SUFFICES ASSUME NEW y \in Operands, y.n = n, WidthOf(y) = WidthOf(x), y # x
                 PROVE  Get(s, y) = Get(r, y)
      OBVIOUS
    <3>1. y.p = "l"
      BY <1>h, <1>10, PartKinds
    <3> QED
      BY <3>1, <2>3, <1>3, <1>5, <1>6
  <2>5. Get(s, x) = c /\ Get(r, x) \in Values(WidthOf(x))
    BY <2>3, <1>h, <1>w, <1>x, <1>v, <1>m
  <2> QED
    BY <2>3, <2>4, <2>5, <1>7, <1>9 DEF s, c
<1>r. CASE x.p = "r"
  <2>1. s[n] = r[n] + (c - (h * Byte + l))
    BY <1>r, <1>8, <1>x, <1>12, <1>n, SMT
  <2>2. PICK b \in 0 .. Byte - 1, a \in 0 .. Byte - 1 : c = b * Byte + a
    <3>1. c \in Nat /\ c < Byte * Byte
      BY <1>r, <1>12, <1>n, Numbers, SMT
    <3>2. /\ c \div Byte \in Nat /\ c \div Byte < Byte /\ c % Byte \in Nat /\ c % Byte < Byte
          /\ c = (c \div Byte) * Byte + (c % Byte)
      BY <3>1, <1>n, Split
    <3>3. \A q \in Nat : q < Byte => q \in 0 .. Byte - 1
      BY <1>n, SMT
    <3>4. c \div Byte \in 0 .. Byte - 1 /\ c % Byte \in 0 .. Byte - 1
      BY <3>2, <3>3
    <3> QED
      BY <3>2, <3>4
  <2>3. s[n] = e * Word + (b * Byte + a)
    <3>1. h * Byte \in Int /\ e * Word \in Int /\ b * Byte \in Int
      BY <1>n, SMT
    <3> QED
      BY <2>1, <2>2, <3>1, <1>2, <1>n, SMT
  <2>4. s[n] \in 0 .. Long - 1 /\ s[n] % Word = c /\ s[n] \div Word = e
    BY <2>2, <2>3, PartsAre
  <2>5. \A y \in Operands : y.n = n /\ WidthOf(y) = WidthOf(x) /\ y # x => Get(s, y) = Get(r, y)
    <3> SUFFICES ASSUME NEW y \in Operands, y.n = n, WidthOf(y) = WidthOf(x), y # x
                 PROVE  Get(s, y) = Get(r, y)
      OBVIOUS
    <3>1. y.p = "e"
      BY <1>r, <1>10, PartKinds
    <3> QED
      BY <3>1, <2>4, <1>3, <1>5, <1>6
  <2>6. Get(s, x) = c /\ Get(r, x) \in Values(WidthOf(x))
    BY <2>4, <1>r, <1>w, <1>x, <1>v, <1>m, <1>n
  <2> QED
    BY <2>4, <2>5, <2>6, <1>7, <1>9 DEF s, c
<1>e. CASE x.p = "e"
  <2>1. s[n] = r[n] + (c - e) * Word
    BY <1>e, <1>8, <1>x
  <2>2. s[n] = c * Word + (h * Byte + l) /\ c \in 0 .. Word - 1
    <3>1. (c - e) * Word = c * Word - e * Word /\ c * Word \in Int /\ h * Byte \in Int /\ e * Word \in Int
      BY <1>e, <1>12, <1>n, SMT
    <3> QED
      BY <2>1, <3>1, <1>e, <1>2, <1>12, <1>n, SMT
  <2>3. s[n] \in 0 .. Long - 1 /\ s[n] % Word = h * Byte + l /\ s[n] \div Word = c
    BY <2>2, PartsAre
  <2>4. \A y \in Operands : y.n = n /\ WidthOf(y) = WidthOf(x) /\ y # x => Get(s, y) = Get(r, y)
    <3> SUFFICES ASSUME NEW y \in Operands, y.n = n, WidthOf(y) = WidthOf(x), y # x
                 PROVE  Get(s, y) = Get(r, y)
      OBVIOUS
    <3>1. y.p = "r"
      BY <1>e, <1>10, PartKinds
    <3> QED
      BY <3>1, <2>3, <1>3, <1>5, <1>6
  <2>5. Get(s, x) = c /\ Get(r, x) \in Values(WidthOf(x))
    BY <2>3, <1>e, <1>w, <1>x, <1>v, <1>m
  <2> QED
    BY <2>3, <2>4, <2>5, <1>7, <1>9 DEF s, c
<1>y. CASE x.p = "er"
  <2>1. s[n] = c /\ c \in 0 .. Long - 1
    <3>1. s[n] = r[n] + (c - r[n]) * 1
      BY <1>y, <1>8, <1>x
    <3> QED
      BY <3>1, <1>y, <1>13, <1>1, <1>n, SMT
  <2>2. \A y \in Operands : y.n = n /\ WidthOf(y) = WidthOf(x) => y = x
    BY <1>y, <1>10, PartKinds
  <2>3. Get(s, x) = c /\ Get(r, x) \in Values(WidthOf(x))
    BY <2>1, <1>y, <1>w, <1>x, <1>v, <1>m, <1>1
  <2> QED
    BY <2>1, <2>2, <2>3, <1>7, <1>9 DEF s, c
<1> QED
  BY <1>1, <1>l, <1>h, <1>r, <1>e, <1>y

-----------------------------------------------------------------------------
\* Flags, bits and memory.  What memory can hold:
Memories == [0 .. Word - 1 -> 0 .. Byte - 1]

\* The flags that an instruction leaves are Boolean,
LEMMA FlagsTyped ==
  ASSUME NEW f \in Flags, NEW w, NEW a, NEW b
  PROVE  /\ SetFlagsADD(f, a, b, w) \in Flags /\ SetFlagsSUB(f, a, b, w) \in Flags
         /\ SetFlagsINC(f, a, b, w) \in Flags /\ SetFlagsMOV(f, a, w) \in Flags
         /\ \A c \in BOOLEAN : [f EXCEPT !.C = c] \in Flags /\ [f EXCEPT !.Z = c] \in Flags
                               /\ [f EXCEPT !.N = c] \in Flags /\ [f EXCEPT !.V = c] \in Flags
<1>0. \A g \in Flags, c \in BOOLEAN :
        /\ [g EXCEPT !.C = c] \in Flags /\ [g EXCEPT !.Z = c] \in Flags
        /\ [g EXCEPT !.N = c] \in Flags /\ [g EXCEPT !.V = c] \in Flags /\ [g EXCEPT !.H = c] \in Flags
  BY DEF Flags
<1>b. \A x, y : (x = y) \in BOOLEAN /\ (x > y) \in BOOLEAN /\ (x >= y) \in BOOLEAN
  OBVIOUS
<1>c. \A x : Negative(x, w) \in BOOLEAN
  BY DEF Negative
<1>1. SetFlagsADD(f, a, b, w) \in Flags
  BY <1>0, <1>c DEF SetFlagsADD
<1>2. SetFlagsSUB(f, a, b, w) \in Flags
  <2>1. PICK c \in BOOLEAN : c = (b > a)
    BY <1>b
  <2>2. PICK h \in BOOLEAN : h = ((b % Low(w)) > (a % Low(w)))
    BY <1>b
  <2>3. PICK z \in BOOLEAN, n \in BOOLEAN, o \in BOOLEAN :
          /\ z = (((a - b) % Long) = 0)
          /\ n = Negative(a - b, w)
          /\ o = (Negative(a, w) # Negative(b, w) /\ Negative(a - b, w) = Negative(b, w))
    BY <1>c, Zenon
  <2>4. SetFlagsSUB(f, a, b, w) = [f EXCEPT !.Z = z, !.N = n, !.V = o, !.C = c, !.H = h]
    BY <2>1, <2>2, <2>3 DEF SetFlagsSUB
  <2>5. [f EXCEPT !.Z = z, !.N = n, !.V = o, !.C = c, !.H = h] \in Flags
    BY DEF Flags
  <2> QED
    BY <2>4, <2>5
<1>3. SetFlagsINC(f, a, b, w) \in Flags
  BY <1>0, <1>c DEF SetFlagsINC
<1>4. SetFlagsMOV(f, a, w) \in Flags
  BY <1>0, <1>c DEF SetFlagsMOV
<1> QED
  BY <1>0, <1>1, <1>2, <1>3, <1>4

\* also those that are loaded and the first ones.
LEMMA FlagsGiven ==
  ASSUME NEW v
  PROVE  FlagsOf(v) \in Flags /\ NoFlags \in Flags
<1>1. FlagsOf(v) \in Flags
  BY DEF FlagsOf, Flags, Has
<1>2. NoFlags \in Flags
  BY DEF NoFlags, Flags
<1> QED
  BY <1>1, <1>2

\* The operators on bits give numbers, on a nibble
LEMMA NibbleAnd ==
  ASSUME NEW x \in Int, NEW y \in Int
  PROVE  AndNibble(x, y) \in Int
<1>1. \A p \in {1, 2, 4, 8} : (x \div p) % 2 \in {0, 1} /\ (y \div p) % 2 \in {0, 1}
  BY SMT
<1>2. \A p \in {1, 2, 4, 8}, a \in {0, 1}, b \in {0, 1} : p * a * b \in Int
  BY SMT
<1>3. \A p \in {1, 2, 4, 8} : p * ((x \div p) % 2) * ((y \div p) % 2) \in Int
  BY <1>1, <1>2
<1> QED
  BY <1>3 DEF AndNibble

\* and on a long.
LEMMA LogicTyped ==
  ASSUME NEW x \in Int, NEW y \in Int
  PROVE  And(x, y) \in Int /\ Or(x, y) \in Int /\ Xor(x, y) \in Int
<1>n. Nibble \in Nat /\ Nibble > 0
  BY NibbleAssumption, SMT
<1>m. Byte \in Nat /\ Byte > 0 /\ Word \in Nat /\ Word > 0
  <2> HIDE DEF Byte, Word
  <2> QED BY Numbers, SMT
<1>d. \A m \in Nat, a \in Int : m > 0 => a \div m \in Int /\ a % m \in Int
  BY SMT
<1>a. \A m \in Nat, a \in Int, b \in Int : m * a + b \in Int
  BY SMT
<1>1. \A a \in Int, b \in Int : AndByte(a, b) \in Int
  BY <1>n, <1>d, <1>a, NibbleAnd DEF AndByte
<1> HIDE DEF Byte, Word
<1>2. \A a \in Int, b \in Int : AndWord(a, b) \in Int
  BY <1>m, <1>d, <1>a, <1>1 DEF AndWord
<1>3. And(x, y) \in Int
  BY <1>m, <1>d, <1>a, <1>2 DEF And
<1>4. \A c \in Int : x + y - c \in Int /\ x + y - 2 * c \in Int
  BY SMT
<1> QED
  BY <1>3, <1>4 DEF Or, Xor

\* Every address is masked to a cell.
LEMMA Addressed ==
  ASSUME NEW m \in Memories, NEW a \in Int
  PROVE  m[a % Word] \in Nat /\ m[a % Word] < Byte /\ a % Word \in 0 .. Word - 1
<1> HIDE DEF Word, Byte
<1>1. a % Word \in 0 .. Word - 1
  BY Numbers, Cut, SMT
<1>2. m[a % Word] \in 0 .. Byte - 1
  BY <1>1 DEF Memories
<1> QED
  BY <1>1, <1>2, Numbers, SMT

\* What is read from memory is a number,
LEMMA PeekTyped ==
  ASSUME NEW m \in Memories, NEW a \in Int, NEW w \in Widths
  PROVE  Peek(m, a, w) \in Nat
<1> HIDE DEF Word, Byte
<1>1. PICK p : p = m[(a + 0) % Word] /\ p \in Nat
  BY Addressed, SMT
<1>2. PICK q : q = m[(a + 1) % Word] /\ q \in Nat
  BY Addressed, SMT
<1>3. PICK s : s = m[(a + 2) % Word] /\ s \in Nat
  BY Addressed, SMT
<1>4. PICK t : t = m[(a + 3) % Word] /\ t \in Nat
  BY Addressed, SMT
<1>5. \A b \in Nat, c \in Nat, d \in Nat : b * c + d \in Nat
  BY SMT
<1>6. Byte \in Nat /\ Word \in Nat
  BY Numbers
<1>7. Peek(m, a, w) = CASE w = "b" -> p [] w = "w" -> p * Byte + q
                        [] w = "l" -> (p * Byte + q) * Word + s * Byte + t
  BY <1>1, <1>2, <1>3, <1>4 DEF Peek
<1>8. p * Byte + q \in Nat
  BY <1>1, <1>2, <1>5, <1>6
<1>9. (p * Byte + q) * Word + s * Byte + t \in Nat
  BY <1>8, <1>3, <1>4, <1>5, <1>6
<1> QED
  BY <1>1, <1>7, <1>8, <1>9 DEF Widths

\* what is written leaves bytes,
LEMMA PokeTyped ==
  ASSUME NEW m \in Memories, NEW a \in Int, NEW w \in Widths, NEW v \in Int
  PROVE  Poke(m, a, w, v) \in Memories
<1> HIDE DEF Word, Byte
<1>1. \A x \in 0 .. Word - 1 : (x - a) % Word \in Nat
  BY Numbers, Cut, SMT
<1>2. Bytes(w) \in {1, 2, 4}
  BY DEF Widths, Bytes
<1>3. \A n \in 0 .. 3 : Unit(n) \in Nat /\ Unit(n) > 0
  <2>1. Byte * Word \in Nat /\ Byte * Word > 0 /\ Byte > 0 /\ Word > 0
    BY Numbers, SMT
  <2>2. Unit(0) = 1 /\ Unit(1) = Byte /\ Unit(2) = Word /\ Unit(3) = Byte * Word
    BY DEF Unit
  <2>3. \A n \in 0 .. 3 : n = 0 \/ n = 1 \/ n = 2 \/ n = 3
    BY SMT
  <2> QED
    BY <2>1, <2>2, <2>3, Numbers
<1>4. \A j \in Nat : j < Bytes(w) => Bytes(w) - 1 - j \in 0 .. 3
  BY <1>2, SMT
<1>5. \A u \in Nat : u > 0 => (v \div u) % Byte \in 0 .. Byte - 1
  BY Numbers, Cut, SMT
<1>6. DOMAIN m = 0 .. Word - 1 /\ \A x \in 0 .. Word - 1 : m[x] \in 0 .. Byte - 1
  BY DEF Memories
<1>7. ASSUME NEW x \in 0 .. Word - 1, NEW j, j = (x - a) % Word
      PROVE  (IF j < Bytes(w) THEN (v \div Unit(Bytes(w) - 1 - j)) % Byte ELSE m[x]) \in 0 .. Byte - 1
  BY <1>7, <1>1, <1>3, <1>4, <1>5, <1>6
<1> QED
  BY <1>6, <1>7 DEF Poke, Memories

\* and a byte that was written is read back.
LEMMA PokePeek ==
  ASSUME NEW m \in Memories, NEW a \in Int, NEW v \in Int
  PROVE  Peek(Poke(m, a, "b", v), a, "b") = v % Byte
<1> HIDE DEF Word, Byte
<1>1. PICK x : x = a % Word /\ x \in 0 .. Word - 1
  BY Addressed
<1>2. (x - a) % Word = 0
  <2>1. PICK q \in Int : a = q * Word + x
    <3>1. a = (a \div Word) * Word + (a % Word) /\ a \div Word \in Int
      <4>1. Word \in Nat /\ Word > 0
        BY Numbers, SMT
      <4> QED
        BY <4>1, Divide
    <3> QED
      BY <3>1, <1>1
  <2>2. x - a = (-q) * Word + 0
    BY <2>1, <1>1, Numbers, SMT
  <2> QED
    BY <2>2, Digits, Numbers, SMT
<1>3. Poke(m, a, "b", v)[x] = (v \div 1) % Byte
  <2>1. DOMAIN m = 0 .. Word - 1
    BY DEF Memories
  <2>2. Bytes("b") = 1 /\ Unit(0) = 1 /\ 0 < 1 /\ 1 - 1 - 0 = 0
    BY DEF Bytes, Unit
  <2> QED
    BY <1>1, <1>2, <2>1, <2>2 DEF Poke
<1>4. v \div 1 = v /\ a + 0 = a
  BY SMT
<1> QED
  BY <1>1, <1>3, <1>4 DEF Peek

\* The powers of two below 32 bits.
LEMMA PowersOfTwo ==
  \A j \in 0 .. 31 : /\ 2^j \in Nat /\ 2^j > 0
                     /\ 2^j \in {1, 2, 4, 8, 16, 32, 64, 128} \/ 2^j >= 256
<1> DEFINE P(j) == 2^j
<1>1. /\ P(0) = 1 /\ P(1) = 2 /\ P(2) = 4 /\ P(3) = 8 /\ P(4) = 16
      /\ P(5) = 32 /\ P(6) = 64 /\ P(7) = 128 /\ P(8) = 256 /\ P(9) = 512
      /\ P(10) = 1024 /\ P(11) = 2048 /\ P(12) = 4096 /\ P(13) = 8192 /\ P(14) = 16384
      /\ P(15) = 32768 /\ P(16) = 65536 /\ P(17) = 131072 /\ P(18) = 262144 /\ P(19) = 524288
      /\ P(20) = 1048576 /\ P(21) = 2097152 /\ P(22) = 4194304 /\ P(23) = 8388608 /\ P(24) = 16777216
      /\ P(25) = 33554432 /\ P(26) = 67108864 /\ P(27) = 134217728 /\ P(28) = 268435456 /\ P(29) = 536870912
      /\ P(30) = 1073741824 /\ P(31) = 2147483648
  BY SMT
<1> HIDE DEF P
<1>2. \A j \in 0 .. 31 : /\ P(j) \in Nat /\ P(j) > 0
                         /\ P(j) \in {1, 2, 4, 8, 16, 32, 64, 128} \/ P(j) >= 256
  BY <1>1, SMT
<1> QED
  BY <1>2 DEF P

\* The value of a bit, of which there are eight in a byte of the code.
LEMMA BitTyped ==
  ASSUME NEW k \in Nat
  PROVE  /\ Bit(k) \in Nat /\ Bit(k) > 0
         /\ Bit(k) \in {1, 2, 4, 8, 16, 32, 64, 128} \/ Bit(k) >= 256
<1>1. k % 32 \in 0 .. 31
  BY SMT
<1> QED
  BY <1>1, PowersOfTwo DEF Bit

\* A bit is set and cleared in numbers.
LEMMA BitsTyped ==
  ASSUME NEW k \in Nat, NEW v \in Int, NEW c
  PROVE  With(v, k) \in Int /\ Without(v, k) \in Int /\ Assigned(v, k, c) \in Int
<1> HIDE DEF Byte
<1>1. PICK b \in Nat : b = Bit(k)
  BY BitTyped
<1>2. (v + b) % Byte \in Int /\ v - b \in Int
  BY Numbers, SMT
<1> QED
  BY <1>1, <1>2 DEF With, Without, Assigned

\* A number read as signed is a number.
LEMMA SignedTyped ==
  ASSUME NEW v \in Int, NEW w \in Widths
  PROVE  Signed(v, w) \in Int
BY Mods DEF Signed

-----------------------------------------------------------------------------
\* Every instruction keeps the types of the registers, flags and memory.
StateTyped == er \in Ers /\ flags \in Flags /\ memory \in Memories

\* What Decoded says of the operands.
LEMMA Shapes ==
  ASSUME NEW i, Decoded(i)
  PROVE  /\ i.w \in Widths /\ i.k \in Int /\ i.a \in Nat
         /\ i.s \in Operands \union {NoReg} /\ i.d \in Operands \union {NoReg}
         /\ NamesD(i) => i.d \in Operands
         /\ NamesS(i) => i.s \in Operands
BY DEF Decoded

\* What the operands hold are numbers.
LEMMA Found ==
  ASSUME StateTyped
  PROVE  /\ \A x \in Operands : Get(er, x) \in Nat /\ x.n \in Regs /\ WidthOf(x) \in Widths
         /\ \A n \in Regs : er[n] \in Nat
         /\ SP \in Regs
<1> HIDE DEF Byte, Word, Long
<1>1. \A x \in Operands : Get(er, x) \in Values(WidthOf(x)) /\ WidthOf(x) \in Widths /\ x.n \in Regs
  BY PutGet, PartKinds DEF StateTyped
<1>2. \A w \in Widths : \A v \in Values(w) : v \in Nat
  BY Mods DEF Values
<1>3. \A n \in Regs : er[n] \in 0 .. Long - 1
  BY DEF StateTyped, Ers
<1>4. \A x \in 0 .. Long - 1 : x \in Nat
  BY Numbers, SMT
<1> QED
  BY <1>1, <1>2, <1>3, <1>4, CpuAssumption

\* pc stays a number,
LEMMA Moves ==
  ASSUME NEW n \in Int, pc \in Nat, Advance(n)
  PROVE  pc' \in Nat
<1> HIDE DEF Word
<1> QED BY Numbers, SMT DEF Advance

\* and a result,
LEMMA ResultTyped ==
  ASSUME StateTyped, NEW i, i.d \in Operands, NEW v \in Int, NEW f \in Flags, Result(i, v, f)
  PROVE  StateTyped'
BY PutGet DEF StateTyped, Result

\* a test,
LEMMA OnlyFlagsTyped ==
  ASSUME StateTyped, NEW f \in Flags, OnlyFlags(f)
  PROVE  StateTyped'
BY DEF StateTyped, OnlyFlags

\* a byte that is stored,
LEMMA PokeByteTyped ==
  ASSUME StateTyped, NEW a \in Int, NEW v \in Int, PokeByte(a, v)
  PROVE  StateTyped'
BY PokeTyped DEF StateTyped, PokeByte, Widths

\* nothing at all,
LEMMA StayTyped ==
  ASSUME StateTyped, Stay
  PROVE  StateTyped'
BY DEF StateTyped, Stay

\* a load,
LEMMA LoadTyped ==
  ASSUME StateTyped, NEW i, Decoded(i), i.d \in Operands, NEW a \in Int, Load(i, a)
  PROVE  StateTyped'
<1>1. PICK v \in Int : v = Peek(memory, a, i.w)
  BY PeekTyped, Shapes DEF StateTyped
<1>2. PICK f \in Flags : f = SetFlagsMOV(flags, v, i.w)
  BY FlagsTyped DEF StateTyped
<1>3. Result(i, v, f)
  BY <1>1, <1>2 DEF Load
<1> QED
  BY <1>3, ResultTyped

\* a store,
LEMMA StoreTyped ==
  ASSUME StateTyped, NEW i, Decoded(i), i.s \in Operands, NEW a \in Int, Store(i, a)
  PROVE  StateTyped'
<1>1. PICK v \in Int : v = Get(er, i.s)
  BY Found
<1>2. memory' = Poke(memory, a, i.w, v) /\ flags' = SetFlagsMOV(flags, v, i.w) /\ er' = er
  BY <1>1 DEF Store
<1>3. memory' \in Memories
  BY <1>2, PokeTyped, Shapes DEF StateTyped
<1>4. flags' \in Flags
  BY <1>2, FlagsTyped DEF StateTyped
<1> QED
  BY <1>2, <1>3, <1>4 DEF StateTyped

\* the number of bytes of a width,
LEMMA BytesTyped ==
  ASSUME NEW w \in Widths
  PROVE  Bytes(w) \in Nat
BY DEF Widths, Bytes

\* a pop,
LEMMA LoadIncrementTyped ==
  ASSUME StateTyped, NEW i, Decoded(i), i.s \in Operands, i.d \in Operands, LoadIncrement(i)
  PROVE  StateTyped'
<1>1. PICK a \in Int : a = er[i.s.n]
  BY Found
<1>2. PICK v \in Int : v = Peek(memory, a, i.w)
  BY PeekTyped, Shapes DEF StateTyped
<1>3. PICK n \in Int : n = a + Bytes(i.w)
  BY BytesTyped, Shapes, SMT
<1>4. PICK r \in Ers : r = Put(er, i.s, n)
  BY PutGet DEF StateTyped
<1>5. er' = Put(r, i.d, v) /\ flags' = SetFlagsMOV(flags, v, i.w) /\ memory' = memory
  BY <1>1, <1>2, <1>3, <1>4 DEF LoadIncrement
<1>6. er' \in Ers
  BY <1>5, PutGet
<1>7. flags' \in Flags
  BY <1>5, FlagsTyped DEF StateTyped
<1> QED
  BY <1>5, <1>6, <1>7 DEF StateTyped

\* the pointer of a push,
LEMMA Predecrement ==
  ASSUME StateTyped, NEW i, Decoded(i), i.s \in Operands, i.d \in Operands, NEW n \in Nat
  PROVE  LET r == Put(er, i.d, er[i.d.n] - n)
         IN r \in Ers /\ Get(r, i.s) \in Int /\ r[i.d.n] \in Int
<1>1. PICK a \in Int : a = er[i.d.n] - n
  BY Found, SMT
<1>2. PICK r \in Ers : r = Put(er, i.d, a)
  BY PutGet DEF StateTyped
<1>3. Get(r, i.s) \in Nat /\ r[i.d.n] \in Nat
  <2>1. Get(r, i.s) \in Values(WidthOf(i.s)) /\ WidthOf(i.s) \in Widths /\ i.d.n \in Regs
    BY PutGet, PartKinds
  <2>2. \A w \in Widths : \A v \in Values(w) : v \in Nat
    BY Mods DEF Values
  <2>3. r[i.d.n] \in 0 .. Long - 1
    BY <2>1 DEF Ers
  <2> HIDE DEF Long
  <2>4. \A x \in 0 .. Long - 1 : x \in Nat
    BY Numbers, SMT
  <2> QED
    BY <2>1, <2>2, <2>3, <2>4
<1> QED
  BY <1>1, <1>2, <1>3

\* a push,
LEMMA StoreDecrementTyped ==
  ASSUME StateTyped, NEW i, Decoded(i), i.s \in Operands, i.d \in Operands, StoreDecrement(i)
  PROVE  StateTyped'
<1>1. PICK n \in Nat : n = Bytes(i.w)
  BY BytesTyped, Shapes
<1>2. PICK r \in Ers : r = Put(er, i.d, er[i.d.n] - n) /\ Get(r, i.s) \in Int /\ r[i.d.n] \in Int
  BY Predecrement
<1>3. er' = r /\ memory' = Poke(memory, r[i.d.n], i.w, Get(r, i.s))
      /\ flags' = SetFlagsMOV(flags, Get(r, i.s), i.w)
  BY <1>1, <1>2 DEF StoreDecrement
<1>4. memory' \in Memories
  BY <1>2, <1>3, PokeTyped, Shapes DEF StateTyped
<1>5. flags' \in Flags
  BY <1>3, FlagsTyped DEF StateTyped
<1> QED
  BY <1>3, <1>4, <1>5 DEF StateTyped

\* the registers of a call,
LEMMA DeeperTyped == StateTyped => Deeper \in Ers
<1> HIDE DEF Word, Long, Byte
<1>1. SUFFICES ASSUME StateTyped PROVE Deeper \in Ers
  OBVIOUS
<1>2. PICK a \in Int : a = er[SP] - 2
  BY <1>1, Found, SMT
<1>3. Part(SP, "er") \in Operands
  BY CpuAssumption DEF Part, Operands
<1> QED
  BY <1>1, <1>2, <1>3, PutGet DEF StateTyped, Deeper

\* a call and
LEMMA CallTyped ==
  ASSUME StateTyped, pc \in Nat, NEW length \in Int, NEW target \in Int, Call(length, target)
  PROVE  StateTyped' /\ pc' \in Nat
<1> HIDE DEF Word, Long, Byte
<1>3. PICK r \in Ers : r = Deeper
  BY DeeperTyped
<1>4. r[SP] \in Int
  BY CpuAssumption, Numbers, SMT DEF Ers
<1>5. PICK v \in Int : v = (pc + length) % Word
  BY Numbers, SMT
<1>6. er' = r /\ memory' = Poke(memory, r[SP], "w", v) /\ pc' = target % Word /\ flags' = flags
  BY <1>3, <1>5 DEF Call
<1>7. memory' \in Memories
  BY <1>4, <1>6, PokeTyped DEF StateTyped, Widths
<1>8. pc' \in Nat
  BY <1>6, Numbers, SMT
<1> QED
  BY <1>6, <1>7, <1>8 DEF StateTyped

\* an operation on two operands keep the types.
LEMMA OperateTyped ==
  ASSUME StateTyped, NEW i, Decoded(i), i.d \in Operands, NEW v \in Int, Operate(i, v)
  PROVE  StateTyped'
<1>1. PICK old \in Int : old = Get(er, i.d)
  BY Found
<1>2. \A x, y : /\ SetFlagsADD(flags, x, y, i.w) \in Flags /\ SetFlagsSUB(flags, x, y, i.w) \in Flags
                /\ SetFlagsMOV(flags, x, i.w) \in Flags
  <2> SUFFICES ASSUME NEW x, NEW y
               PROVE  /\ SetFlagsADD(flags, x, y, i.w) \in Flags /\ SetFlagsSUB(flags, x, y, i.w) \in Flags
                      /\ SetFlagsMOV(flags, x, i.w) \in Flags
    OBVIOUS
  <2>1. flags \in Flags
    BY DEF StateTyped
  <2> QED
    BY <2>1, FlagsTyped
<1>3. Or(old, v) \in Int /\ Xor(old, v) \in Int /\ And(old, v) \in Int /\ old + v \in Int /\ old - v \in Int
  <2>1. Or(old, v) \in Int /\ Xor(old, v) \in Int /\ And(old, v) \in Int
    BY LogicTyped
  <2>2. old + v \in Int /\ old - v \in Int
    OBVIOUS
  <2> QED
    BY <2>1, <2>2
<1>4. \A x \in Int, f \in Flags : Result(i, x, f) => StateTyped'
  BY ResultTyped
<1>5. \A f \in Flags : OnlyFlags(f) => StateTyped'
  BY OnlyFlagsTyped
<1>6. \/ \E x \in {v, Or(old, v), Xor(old, v), And(old, v)} : Result(i, x, SetFlagsMOV(flags, x, i.w))
      \/ Result(i, old + v, SetFlagsADD(flags, old, v, i.w))
      \/ Result(i, old - v, SetFlagsSUB(flags, old, v, i.w))
      \/ OnlyFlags(SetFlagsSUB(flags, old, v, i.w))
  BY <1>1 DEF Operate
<1>7. ASSUME NEW x \in {v, Or(old, v), Xor(old, v), And(old, v)},
             Result(i, x, SetFlagsMOV(flags, x, i.w))
      PROVE  StateTyped'
  BY <1>7, <1>2, <1>3, <1>4
<1>8. CASE Result(i, old + v, SetFlagsADD(flags, old, v, i.w))
  BY <1>8, <1>2, <1>3, <1>4
<1>9. CASE Result(i, old - v, SetFlagsSUB(flags, old, v, i.w))
  BY <1>9, <1>2, <1>3, <1>4
<1>10. CASE OnlyFlags(SetFlagsSUB(flags, old, v, i.w))
  BY <1>10, <1>2, <1>5
<1> QED
  BY <1>6, <1>7, <1>8, <1>9, <1>10

\* FlagsTyped, for the flags of the state.
LEMMA Flagged ==
  ASSUME StateTyped
  PROVE  /\ \A x, w : SetFlagsMOV(flags, x, w) \in Flags
         /\ \A x, y, w : SetFlagsSUB(flags, x, y, w) \in Flags
         /\ \A x, y, w : SetFlagsINC(flags, x, y, w) \in Flags
         /\ \A c \in BOOLEAN, d \in BOOLEAN : /\ [flags EXCEPT !.C = c] \in Flags
                                              /\ [flags EXCEPT !.Z = c] \in Flags
                                              /\ [flags EXCEPT !.Z = c, !.N = d] \in Flags
<1>0. flags \in Flags
  BY DEF StateTyped
<1>1. ASSUME NEW x, NEW w PROVE SetFlagsMOV(flags, x, w) \in Flags
  BY <1>0, FlagsTyped
<1>2. ASSUME NEW x, NEW y, NEW w
      PROVE  SetFlagsSUB(flags, x, y, w) \in Flags /\ SetFlagsINC(flags, x, y, w) \in Flags
  BY <1>0, FlagsTyped
<1>3. ASSUME NEW c \in BOOLEAN, NEW d \in BOOLEAN
      PROVE  /\ [flags EXCEPT !.C = c] \in Flags
             /\ [flags EXCEPT !.Z = c] \in Flags
             /\ [flags EXCEPT !.Z = c, !.N = d] \in Flags
  BY <1>0 DEF Flags
<1> QED
  BY <1>1, <1>2, <1>3

\* So do the cases of the switch: the instructions with two operands, INC, DEC
\* and SUBX,
LEMMA ArithmeticTyped ==
  ASSUME StateTyped, pc \in Nat, NEW i, Decoded(i),
         \/ ByteImmediate(i) \/ WordImmediate(i) \/ LongImmediate(i)
         \/ AddRegister(i) \/ MoveRegister(i) \/ SubRegister(i) \/ CompareRegister(i)
         \/ LogicByte(i) \/ LogicWord(i) \/ LogicLong(i)
         \/ Increment(i) \/ Decrement(i) \/ AddAddress(i) \/ SubAddress(i) \/ SubExtended(i)
  PROVE  StateTyped' /\ pc' \in Nat
<1> HIDE DEF Byte, Word, Long
<1>a. Advance(2) \/ Advance(4) \/ Advance(6) => pc' \in Nat
  BY Moves
<1>d. i.k \in Int /\ (NamesD(i) => i.d \in Operands) /\ (NamesS(i) => i.s \in Operands)
  BY Shapes
<1>g. \A x \in Operands : Get(er, x) \in Int
  BY Found
<1>r. \A v \in Int, f \in Flags : i.d \in Operands /\ Result(i, v, f) => StateTyped'
  BY ResultTyped
<1>f. flags \in Flags
  BY DEF StateTyped
<1>o. ASSUME NEW v \in Int, Operate(i, v) PROVE StateTyped'
  <2>1. i.op \in Binary
    BY <1>o DEF Operate, Binary
  <2>2. i.d \in Operands
    BY <2>1, <1>d DEF NamesD
  <2> QED
    BY <2>2, <1>o, OperateTyped
<1>s. ASSUME Register(i) PROVE StateTyped'
  <2>1. i.op \in Binary /\ i.mode = "reg"
    BY <1>s DEF Register, Operate, Binary
  <2>2. i.s \in Operands
    BY <2>1, <1>d DEF NamesS
  <2> QED
    BY <2>2, <1>s, <1>g, <1>o DEF Register
<1>1. CASE ByteImmediate(i) \/ WordImmediate(i) \/ LongImmediate(i)
  BY <1>1, <1>a, <1>d, <1>o DEF ByteImmediate, WordImmediate, LongImmediate
<1>2. CASE AddRegister(i) \/ MoveRegister(i) \/ SubRegister(i) \/ CompareRegister(i)
  BY <1>2, <1>a, <1>s DEF AddRegister, MoveRegister, SubRegister, CompareRegister
<1>3. CASE LogicByte(i) \/ LogicWord(i) \/ LogicLong(i)
  BY <1>3, <1>a, <1>s DEF LogicByte, LogicWord, LogicLong
<1>u. i.op \in {"INC", "DEC", "ADDS", "SUBS", "SUBX"} => i.d \in Operands
  BY <1>d DEF NamesD, Unary
<1>k. i.d \in Operands => Get(er, i.d) + i.k \in Int /\ Get(er, i.d) - i.k \in Int
  BY <1>d, <1>g, SMT
<1>4. CASE Increment(i)
  BY <1>4, <1>a, <1>u, <1>k, <1>r, Flagged DEF Increment
<1>5. CASE Decrement(i)
  BY <1>5, <1>a, <1>u, <1>k, <1>r, Flagged DEF Decrement
<1>6. CASE AddAddress(i)
  BY <1>6, <1>a, <1>u, <1>k, <1>r, <1>f DEF AddAddress
<1>7. CASE SubAddress(i)
  BY <1>7, <1>a, <1>u, <1>k, <1>r, <1>f DEF SubAddress
<1>8. CASE SubExtended(i)
  <2>1. i.op = "SUBX" /\ Advance(2)
    BY <1>8 DEF SubExtended
  <2>2. i.d \in Operands /\ i.s \in Operands
    BY <2>1, <1>u, <1>d DEF NamesS
  <2>3. PICK f \in Flags :
          f = SetFlagsSUB(flags, Get(er, i.d), Get(er, i.s) + (IF flags.C THEN 1 ELSE 0), "b")
    BY Flagged
  <2>4. Result(i, Get(er, i.d) - Get(er, i.s) - (IF f.C THEN 1 ELSE 0), f)
    BY <1>8, <2>3 DEF SubExtended
  <2>5. \A a \in Int, b \in Int : a - b - (IF f.C THEN 1 ELSE 0) \in Int
    BY SMT
  <2> QED
    BY <2>1, <2>2, <2>4, <2>5, <1>a, <1>g, <1>r
<1> QED
  BY <1>1, <1>2, <1>3, <1>4, <1>5, <1>6, <1>7, <1>8

\* shifts, rotations, extensions and NEG,
LEMMA ShiftsTyped ==
  ASSUME StateTyped, pc \in Nat, NEW i, Decoded(i),
         \/ ShiftLeft(i) \/ ShiftArithmeticLeft(i) \/ ShiftRight(i) \/ Rotate(i)
         \/ Invert(i) \/ ExtendUnsigned(i) \/ ExtendSigned(i) \/ Negate(i)
  PROVE  StateTyped' /\ pc' \in Nat
<1> HIDE DEF Byte, Word, Long
<1>a. Advance(2) => pc' \in Nat
  BY Moves
<1>u. i.op \in {"SHLL", "SHAL", "SHLR", "SHAR", "ROTXL", "ROTL", "NOT", "EXTU", "EXTS", "NEG"}
      => i.d \in Operands
  BY Shapes DEF NamesD, Unary
<1>r. \A v \in Int, f \in Flags : i.d \in Operands /\ Result(i, v, f) => StateTyped'
  BY ResultTyped
<1>t. \A x, w : TopBit(x, w) \in BOOLEAN
  BY DEF TopBit
<1>s. ASSUME NEW v \in Int, NEW c \in BOOLEAN, i.d \in Operands, Shift(i, v, c) PROVE StateTyped'
  <2>1. PICK g \in Flags : g = SetFlagsMOV(flags, v % Mod(i.w), i.w)
    BY Flagged
  <2>2. [g EXCEPT !.C = c] \in Flags
    BY DEF Flags
  <2>3. Result(i, v, [g EXCEPT !.C = c])
    BY <1>s, <2>1 DEF Shift
  <2> QED
    BY <2>2, <2>3, <1>s, <1>r
<1>m. /\ Mod(i.w) \in Nat /\ Mod(i.w) > 0 /\ Mod(i.w) \div 2 \in Int
      /\ Half(i) \in Nat /\ Half(i) > 0
  <2>1. \A m \in Nat : m >= 4 => m > 0 /\ m \div 2 \in Int
    BY SMT
  <2> QED
    BY <2>1, Mods, Shapes DEF Half, Widths
<1>o. i.op \in {"SHLL", "SHAL", "SHLR", "SHAR", "ROTXL", "ROTL", "NOT", "EXTU", "EXTS", "NEG"}
  BY DEF ShiftLeft, ShiftArithmeticLeft, ShiftRight, Rotate, Invert, ExtendUnsigned, ExtendSigned, Negate
<1>d. i.d \in Operands
  BY <1>o, <1>u
<1>v. PICK v \in Nat : v = Get(er, i.d)
  BY <1>d, Found
<1>1. CASE ShiftLeft(i)
  <2>1. Shift(i, 2 * v, TopBit(v, i.w)) /\ Advance(2)
    BY <1>1, <1>v DEF ShiftLeft
  <2> QED
    BY <2>1, <1>a, <1>d, <1>s, <1>t
<1>2. CASE ShiftArithmeticLeft(i)
  <2>1. PICK x \in Int : x = (2 * v) % Mod(i.w)
    BY <1>m, SMT
  <2>2. PICK c \in BOOLEAN, o \in BOOLEAN :
           c = TopBit(v, i.w) /\ o = (TopBit(v, i.w) /\ ~TopBit(x, i.w))
    BY <1>t, Zenon
  <2>3. Result(i, x, [SetFlagsMOV(flags, x, i.w) EXCEPT !.C = c, !.V = o]) /\ Advance(2)
    BY <1>2, <1>v, <2>1, <2>2 DEF ShiftArithmeticLeft
  <2>4. PICK f \in Flags : f = SetFlagsMOV(flags, x, i.w)
    BY Flagged
  <2>5. [f EXCEPT !.C = c, !.V = o] \in Flags
    BY DEF Flags
  <2> QED
    BY <2>3, <2>4, <2>5, <1>a, <1>d, <1>r
<1>3. CASE ShiftRight(i)
  <2>1. PICK t : /\ t = IF i.op = "SHAR" /\ TopBit(v, i.w) THEN Mod(i.w) \div 2 ELSE 0
                 /\ t \in Int
    BY <1>m
  <2>2. PICK x \in Int : x = v \div 2 + t
    BY <2>1, SMT
  <2>3. Shift(i, x, v % 2 = 1) /\ Advance(2)
    BY <1>3, <1>v, <2>1, <2>2 DEF ShiftRight
  <2> QED
    BY <2>3, <1>a, <1>d, <1>s
<1>4. CASE Rotate(i)
  <2>1. PICK c : Shift(i, 2 * v + Ones(c), TopBit(v, i.w)) /\ Advance(2)
    BY <1>4, <1>v DEF Rotate
  <2>2. 2 * v + Ones(c) \in Int
    BY SMT DEF Ones
  <2> QED
    BY <2>1, <2>2, <1>a, <1>d, <1>s, <1>t
<1>5. CASE Invert(i)
  <2>1. PICK x \in Int : x = Mod(i.w) - 1 - v
    BY <1>m, SMT
  <2>2. Result(i, x, SetFlagsMOV(flags, x, i.w)) /\ Advance(2)
    BY <1>5, <1>v, <2>1 DEF Invert
  <2> QED
    BY <2>2, <1>a, <1>d, <1>r, Flagged
<1>6. CASE ExtendUnsigned(i)
  <2>1. PICK x \in Int : x = v % Half(i)
    BY <1>m, SMT
  <2>2. Result(i, x, SetFlagsMOV(flags, x, i.w)) /\ Advance(2)
    BY <1>6, <1>v, <2>1 DEF ExtendUnsigned
  <2> QED
    BY <2>2, <1>a, <1>d, <1>r, Flagged
<1>7. CASE ExtendSigned(i)
  <2>1. PICK l \in Int : l = v % Half(i)
    BY <1>m, SMT
  <2>2. PICK x \in Int : x = l + (IF l >= Half(i) \div 2 THEN Mod(i.w) - Half(i) ELSE 0)
    BY <1>m, SMT
  <2>3. Result(i, x, SetFlagsMOV(flags, x, i.w)) /\ Advance(2)
    BY <1>7, <1>v, <2>1, <2>2 DEF ExtendSigned
  <2> QED
    BY <2>3, <1>a, <1>d, <1>r, Flagged
<1>8. CASE Negate(i)
  <2>1. PICK x : x = (IF v # Mod(i.w) \div 2 THEN - v ELSE v) /\ x \in Int
    BY SMT
  <2>2. Result(i, x, SetFlagsSUB(flags, 0, v, i.w)) /\ Advance(2)
    BY <1>8, <1>v, <2>1 DEF Negate
  <2> QED
    BY <2>1, <2>2, <1>a, <1>d, <1>r, Flagged
<1> QED
  BY <1>1, <1>2, <1>3, <1>4, <1>5, <1>6, <1>7, <1>8

\* a product,
LEMMA Products ==
  ASSUME NEW a \in Int, NEW b \in Int
  PROVE  a * b \in Int
BY SMT

\* a quotient, rounded towards zero,
LEMMA QuotientTyped ==
  ASSUME NEW a \in Int, NEW b \in Int
  PROVE  QuotientOf(a, b) \in Int
<1>1. Abs(a) \in Nat /\ Abs(b) \in Nat /\ (b # 0 => Abs(b) > 0)
  BY SMT DEF Abs
<1>2. b # 0 => Abs(a) \div Abs(b) \in Int
  BY <1>1, SMT
<1>3. \A q \in Int : - q \in Int
  BY SMT
<1> QED
  BY <1>2, <1>3 DEF QuotientOf, Quotient

\* multiplications and divisions,
LEMMA MultiplicationTyped ==
  ASSUME StateTyped, pc \in Nat, NEW i, Decoded(i),
         MultiplyUnsigned(i) \/ MultiplySigned(i) \/ DivideUnsigned(i) \/ DivideSigned(i)
  PROVE  StateTyped' /\ pc' \in Nat
<1> HIDE DEF Byte, Word, Long
<1>a. Advance(2) \/ Advance(4) => pc' \in Nat
  BY Moves
<1>o. i.op \in Doubling
  BY DEF MultiplyUnsigned, MultiplySigned, DivideUnsigned, DivideSigned, Doubling
<1>d. i.d \in Operands /\ i.s \in Operands /\ i.w \in Widths
  BY <1>o, Shapes DEF NamesD, NamesS
<1>r. \A v \in Int, f \in Flags : Result(i, v, f) => StateTyped'
  BY <1>d, ResultTyped
<1>f. flags \in Flags
  BY DEF StateTyped
<1>g. PICK old \in Nat, by \in Nat : old = Get(er, i.d) /\ by = Get(er, i.s)
  BY <1>d, Found
<1>m. PICK m \in Nat : m = Mod(i.w) /\ m > 0
  BY <1>d, Mods, SMT
<1>n. PICK double \in Nat : double = Mod(WidthOf(i.d)) /\ double > 0
  BY <1>d, Mods, PartKinds, SMT
<1>c. \A x \in Int : x % m \in Int /\ x % double \in Int
  BY <1>m, <1>n, SMT
<1>p. \A h \in Int, l \in Int : m * h + l \in Int
  BY SMT
<1>q. \A q \in Int, a \in Int, b \in Int : (a - (q * b)) % m \in Int
  BY <1>c, SMT
<1>t. \A u : Traps(u) => StateTyped' /\ pc' \in Nat
  BY DEF Traps, StateTyped
<1>b. \A c \in BOOLEAN, e \in BOOLEAN : [flags EXCEPT !.Z = c, !.N = e] \in Flags
  BY Flagged
<1>z. \A x : ZeroAfter(i, x) \in BOOLEAN
  BY DEF ZeroAfter
<1>1. CASE MultiplyUnsigned(i)
  <2>1. PICK v \in Int : v = by * (old % m)
    BY <1>c, SMT
  <2>2. Result(i, v, flags) /\ Advance(2)
    BY <1>1, <1>g, <1>m, <2>1 DEF MultiplyUnsigned
  <2> QED
    BY <2>2, <1>a, <1>r, <1>f
<1>2. CASE MultiplySigned(i)
  <2>1. PICK s \in Int : s = Signed(old % m, i.w)
    BY <1>c, <1>d, SignedTyped
  <2>2. PICK v \in Int : v = (by * s) % double
    BY <1>c, Products
  <2>3. PICK c \in BOOLEAN, e \in BOOLEAN : c = (v = 0) /\ e = (v >= double \div 2)
    <3>1. (v = 0) \in BOOLEAN /\ (v >= double \div 2) \in BOOLEAN
      OBVIOUS
    <3> QED
      BY <3>1, Zenon
  <2>4. Result(i, v, [flags EXCEPT !.Z = c, !.N = e]) /\ Advance(4)
    BY <1>2, <1>g, <1>m, <1>n, <2>1, <2>2, <2>3 DEF MultiplySigned
  <2> QED
    BY <2>4, <1>a, <1>r, <1>b
<1>3. CASE DivideUnsigned(i)
  <2>1. PICK q \in Int : q = QuotientOf(old, by)
    BY QuotientTyped
  <2>2. PICK v \in Int : v = (m * ((old - (q * by)) % m)) + (q % m)
    <3>1. old \in Int /\ by \in Int
      OBVIOUS
    <3>2. (old - (q * by)) % m \in Int /\ q % m \in Int
      BY <3>1, <1>c, <1>q
    <3> QED
      BY <3>2, <1>p
  <2>3. \/ Traps(by = 0)
        \/ Result(i, v, [flags EXCEPT !.Z = ZeroAfter(i, v), !.N = FALSE]) /\ Advance(2)
    BY <1>3, <1>g, <1>m, <2>1, <2>2 DEF DivideUnsigned
  <2>4. [flags EXCEPT !.Z = ZeroAfter(i, v), !.N = FALSE] \in Flags
    BY <1>b, <1>z
  <2> QED
    BY <2>3, <2>4, <1>a, <1>r, <1>t
<1>4. CASE DivideSigned(i)
  <2>1. PICK a \in Int, b \in Int : a = Signed(old, WidthOf(i.d)) /\ b = Signed(by, i.w)
    BY <1>d, SignedTyped, PartKinds
  <2>2. PICK q \in Int : q = QuotientOf(a, b)
    BY QuotientTyped
  <2>3. PICK low \in Int : low = q % m
    BY <1>c
  <2>4. PICK high \in Int : high = IF TopBit(low, i.w) THEN m - 1 ELSE (a - (q * b)) % m
    BY <1>q, SMT
  <2>5. PICK v \in Int : v = (m * high) + low
    BY <1>p
  <2>6. PICK e \in BOOLEAN : e = ~(~TopBit(low, i.w) /\ (i.w = "b" => low # 0))
    BY Zenon
  <2>7. \/ Traps(b = 0 \/ (i.w = "w" /\ a = - (Long \div 2) /\ b = -1))
        \/ Result(i, v, [flags EXCEPT !.Z = ZeroAfter(i, v), !.N = e]) /\ Advance(4)
    BY <1>4, <1>g, <1>m, <2>1, <2>2, <2>3, <2>4, <2>5, <2>6 DEF DivideSigned
  <2>8. [flags EXCEPT !.Z = ZeroAfter(i, v), !.N = e] \in Flags
    BY <1>b, <1>z
  <2> QED
    BY <2>7, <2>8, <1>a, <1>r, <1>t
<1> QED
  BY <1>1, <1>2, <1>3, <1>4

\* the bit instructions,
LEMMA BitStepsTyped ==
  ASSUME StateTyped, pc \in Nat, NEW i, Decoded(i),
         \/ BitRegister(i) \/ TestBit(i) \/ StoreBitRegister(i)
         \/ LoadBitIndirect(i) \/ LoadBitAbsolute(i) \/ BitIndirect(i) \/ BitAbsolute(i)
  PROVE  StateTyped' /\ pc' \in Nat
<1> HIDE DEF Byte, Word, Long
<1>a. Advance(2) \/ Advance(4) => pc' \in Nat
  BY Moves
<1>o. i.op \in OnBits
  BY DEF BitRegister, TestBit, StoreBitRegister, LoadBitIndirect, LoadBitAbsolute, BitIndirect,
         BitAbsolute, OnBits
<1>k. i.k \in Nat /\ i.a \in Nat /\ i.s \in Operands \union {NoReg}
  BY <1>o DEF Decoded
<1>d. i.mode \in {"reg", "@R"} => i.d \in Operands
  BY <1>o, Shapes DEF NamesD, Absolute
<1>n. BitNumber(i) \in Nat
  BY <1>k, Found DEF BitNumber
<1>b. \A c : \A v \in Int :
        /\ Assigned(v, BitNumber(i), c) \in Int /\ Assigned(v, i.k, c) \in Int
        /\ With(v, BitNumber(i)) \in Int /\ Without(v, BitNumber(i)) \in Int
  BY <1>n, <1>k, BitsTyped
<1>p. Page(i.a) \in Int
  BY <1>k, Numbers, SMT DEF Page
<1>e. i.mode = "@R" => er[i.d.n] \in Int
  BY <1>d, Found
<1>f. flags \in Flags /\ memory \in Memories
  BY DEF StateTyped
<1>h. \A v, k : Has(v, k) \in BOOLEAN /\ (~Has(v, k)) \in BOOLEAN
  BY DEF Has
<1>l. \A a, c \in BOOLEAN : [flags EXCEPT !.C = c] \in Flags /\ [flags EXCEPT !.Z = c] \in Flags
  BY Flagged
<1>y. \A f \in Flags : OnlyFlags(f) => StateTyped'
  BY OnlyFlagsTyped
<1>z. \A a \in Int, v \in Int : PokeByte(a, v) => StateTyped'
  BY PokeByteTyped
<1>c. ASSUME NEW a \in Int, ChangeBit(i, a), i.op \in {"BSET", "BCLR", "BST", "BNOT"} PROVE StateTyped'
  <2>1. PICK v \in Int : v = Peek(memory, a, "b")
    BY <1>f, PeekTyped DEF Widths
  <2>2. \E c : PokeByte(a, With(v, BitNumber(i))) \/ PokeByte(a, Without(v, BitNumber(i)))
               \/ PokeByte(a, Assigned(v, BitNumber(i), c))
    BY <1>c, <2>1 DEF ChangeBit
  <2> QED
    BY <2>2, <1>b, <1>z
<1>x. ASSUME NEW a \in Int, LoadBitAt(i, a) PROVE StateTyped'
  BY <1>x, <1>h, <1>l, <1>y DEF LoadBitAt
<1>1. CASE BitRegister(i)
  <2>1. i.d \in Operands /\ Advance(2)
        /\ Result(i, Assigned(Get(er, i.d), BitNumber(i), i.op = "BSET"), flags)
    BY <1>1, <1>d DEF BitRegister
  <2>2. Get(er, i.d) \in Int
    BY <2>1, Found
  <2>3. Assigned(Get(er, i.d), BitNumber(i), i.op = "BSET") \in Int
    BY <2>2, <1>n, BitsTyped
  <2> QED
    BY <2>1, <2>3, <1>a, <1>f, ResultTyped
<1>2. CASE TestBit(i)
  <2>1. PICK c \in BOOLEAN : c = Has(Get(er, i.d), i.k)
    BY <1>h
  <2>2. OnlyFlags(IF i.op = "BLD" THEN [flags EXCEPT !.C = c] ELSE [flags EXCEPT !.Z = ~c]) /\ Advance(2)
    BY <1>2, <2>1 DEF TestBit
  <2>3. (~c) \in BOOLEAN
    OBVIOUS
  <2>4. [flags EXCEPT !.C = c] \in Flags /\ [flags EXCEPT !.Z = ~c] \in Flags
    BY <2>3, <1>l
  <2> QED
    BY <2>2, <2>4, <1>a, <1>y
<1>3. CASE StoreBitRegister(i)
  <2>1. PICK a \in Int : a = Get(er, i.d)
    BY <1>3, <1>d, Found DEF StoreBitRegister
  <2>2. PICK v \in Int : v = Peek(memory, a, "b")
    BY <1>f, PeekTyped DEF Widths
  <2>3. PokeByte(a, Assigned(v, i.k, flags.C)) /\ Advance(2)
    BY <1>3, <2>1, <2>2 DEF StoreBitRegister
  <2> QED
    BY <2>3, <1>a, <1>b, <1>z
<1>4. CASE LoadBitIndirect(i)
  BY <1>4, <1>a, <1>e, <1>x DEF LoadBitIndirect
<1>5. CASE LoadBitAbsolute(i)
  BY <1>5, <1>a, <1>p, <1>x DEF LoadBitAbsolute
<1>6. CASE BitIndirect(i)
  BY <1>6, <1>a, <1>e, <1>c DEF BitIndirect
<1>7. CASE BitAbsolute(i)
  BY <1>7, <1>a, <1>p, <1>c DEF BitAbsolute
<1> QED
  BY <1>1, <1>2, <1>3, <1>4, <1>5, <1>6, <1>7

\* MOV between registers and memory, and
LEMMA MovesTyped ==
  ASSUME StateTyped, pc \in Nat, NEW i, Decoded(i),
         \/ MoveAbsolute8(i) \/ MoveAbsolute16(i) \/ MoveLongAbsolute16(i)
         \/ MoveIndirect(i) \/ MoveLongIndirect(i) \/ MoveDisplaced(i) \/ MoveLongDisplaced(i)
         \/ MoveByteStack(i) \/ MoveWordStack(i) \/ MoveLongStack(i)
  PROVE  StateTyped' /\ pc' \in Nat
<1> HIDE DEF Byte, Word, Long
<1>a. Advance(2) \/ Advance(4) \/ Advance(6) => pc' \in Nat
  BY Moves
<1>k. i.k \in Int /\ Page(i.k) \in Int /\ Extended(i.k) \in Int
  <2>1. i.k \in Int
    BY Shapes
  <2>2. Page(i.k) \in Int
    BY <2>1, Numbers, SMT DEF Page
  <2> QED
    BY <2>1, <2>2, SignedTyped DEF Extended, Widths
<1>d. /\ i.op = "LOAD" => i.d \in Operands
      /\ i.op = "STORE" => i.s \in Operands
      /\ i.op = "LOAD" /\ i.mode \notin Absolute => i.s \in Operands
      /\ i.op = "STORE" /\ i.mode \notin Absolute => i.d \in Operands
  BY Shapes DEF NamesD, NamesS
<1>e. \A x \in Operands : er[x.n] \in Int /\ er[x.n] + Extended(i.k) \in Int
  BY Found, <1>k, SMT
<1>l. \A a \in Int : i.op = "LOAD" /\ Load(i, a) => StateTyped'
  BY <1>d, LoadTyped
<1>s. \A a \in Int : i.op = "STORE" /\ Store(i, a) => StateTyped'
  BY <1>d, StoreTyped
<1>p. i.op = "LOAD" /\ i.mode = "@R+" /\ LoadIncrement(i) => StateTyped'
  BY <1>d, LoadIncrementTyped DEF Absolute
<1>m. i.op = "STORE" /\ i.mode = "@-R" /\ StoreDecrement(i) => StateTyped'
  BY <1>d, StoreDecrementTyped DEF Absolute
<1>1. CASE MoveAbsolute8(i) \/ MoveAbsolute16(i) \/ MoveLongAbsolute16(i)
  BY <1>1, <1>a, <1>k, <1>l, <1>s DEF MoveAbsolute8, MoveAbsolute16, MoveLongAbsolute16
<1>2. CASE MoveIndirect(i) \/ MoveLongIndirect(i)
  <2>1. i.mode \notin Absolute
    BY <1>2 DEF MoveIndirect, MoveLongIndirect, Absolute
  <2> QED
    BY <1>2, <2>1, <1>a, <1>d, <1>e, <1>l, <1>s DEF MoveIndirect, MoveLongIndirect
<1>3. CASE MoveDisplaced(i) \/ MoveLongDisplaced(i)
  <2>1. i.mode \notin Absolute
    BY <1>3 DEF MoveDisplaced, MoveLongDisplaced, Absolute
  <2> QED
    BY <1>3, <2>1, <1>a, <1>d, <1>e, <1>l, <1>s DEF MoveDisplaced, MoveLongDisplaced
<1>4. CASE MoveWordStack(i) \/ MoveLongStack(i)
  BY <1>4, <1>a, <1>p, <1>m DEF MoveWordStack, MoveLongStack
<1>5. CASE MoveByteStack(i)
  <2>1. CASE i.op = "LOAD" /\ i.mode = "@R+" /\ LoadIncrement(i)
    BY <2>1, <1>5, <1>a, <1>p DEF MoveByteStack
  <2>2. CASE i.op = "STORE" /\ i.mode = "@-R"
    <3>1. i.s \in Operands /\ i.d \in Operands
      BY <2>2, <1>d DEF Absolute
    <3>2. PICK r \in Ers : r = Put(er, i.d, er[i.d.n] - 1) /\ Get(r, i.s) \in Int
      BY <3>1, Predecrement
    <3>3. er' = r /\ memory' = Poke(memory, Get(r, i.s), "b", Get(r, i.s))
          /\ flags' = SetFlagsMOV(flags, Get(r, i.s), "b") /\ Advance(2)
      BY <1>5, <2>2, <3>2 DEF MoveByteStack
    <3>4. memory' \in Memories
      BY <3>2, <3>3, PokeTyped DEF StateTyped, Widths
    <3>5. flags' \in Flags
      BY <3>3, Flagged
    <3> QED
      BY <3>3, <3>4, <3>5, <1>a DEF StateTyped
  <2> QED
    BY <1>5, <2>1, <2>2 DEF MoveByteStack
<1> QED
  BY <1>1, <1>2, <1>3, <1>4, <1>5

\* branches, calls, returns and the rest.
LEMMA ControlTyped ==
  ASSUME StateTyped, pc \in Nat, NEW i, Decoded(i),
         \/ Branch8(i) \/ Branch16(i) \/ Jump(i)
         \/ BranchSubroutine8(i) \/ BranchSubroutine16(i)
         \/ JumpSubroutineRegister(i) \/ JumpSubroutine(i) \/ ReturnSubroutine(i)
         \/ LoadFlags(i) \/ LoadFlagsWord(i) \/ Ignore(i)
         \/ EnterSleep(i) \/ Unimplemented(i) \/ UnimplementedPrefixed(i)
  PROVE  StateTyped' /\ pc' \in Nat
<1> HIDE DEF Byte, Word, Long
<1>a. \A n \in Int : Advance(n) => pc' \in Nat
  BY Moves
<1>k. i.k \in Int /\ Extended(i.k) \in Int
  BY Shapes, SignedTyped DEF Extended, Widths
<1>s. Stay => StateTyped'
  BY StayTyped
<1>c. \A n \in Int, t \in Int : Call(n, t) => StateTyped' /\ pc' \in Nat
  BY CallTyped
<1>r. i.op \in {"JMP", "JSR"} /\ i.mode = "@R" => er[i.s.n] \in Int /\ Deeper[i.s.n] \in Int
  <2>1. i.op \in {"JMP", "JSR"} /\ i.mode = "@R" => i.s.n \in Regs
    BY Shapes DEF NamesS, Operands
  <2>2. \A r \in Ers, n \in Regs : r[n] \in Int
    BY Numbers, SMT DEF Ers
  <2> QED
    BY <2>1, <2>2, DeeperTyped DEF StateTyped
<1>n. 2 + i.k \in Int /\ 4 + Extended(i.k) \in Int /\ pc + 2 + i.k \in Int /\ pc + 4 + Extended(i.k) \in Int
  BY <1>k, SMT
<1>1. CASE Branch8(i)
  BY <1>1, <1>a, <1>n, <1>s DEF Branch8
<1>2. CASE Branch16(i)
  BY <1>2, <1>a, <1>n, <1>s DEF Branch16
<1>3. CASE Jump(i)
  <2>1. \A t \in Int : t % Word \in Nat
    BY Numbers, SMT
  <2> QED
    BY <1>3, <2>1, <1>k, <1>r, <1>s DEF Jump
<1>4. CASE BranchSubroutine8(i) \/ BranchSubroutine16(i) \/ JumpSubroutineRegister(i) \/ JumpSubroutine(i)
  BY <1>4, <1>c, <1>k, <1>n, <1>r
  DEF BranchSubroutine8, BranchSubroutine16, JumpSubroutineRegister, JumpSubroutine
<1>5. CASE ReturnSubroutine(i)
  <2>1. er[SP] \in Int /\ er[SP] + 2 \in Int
    BY Found, SMT
  <2>2. pc' \in Nat
    BY <1>5, <2>1, PeekTyped DEF ReturnSubroutine, StateTyped, Widths
  <2>3. Part(SP, "er") \in Operands
    BY CpuAssumption DEF Part, Operands
  <2>4. er' \in Ers
    BY <1>5, <2>1, <2>3, PutGet DEF ReturnSubroutine, StateTyped
  <2> QED
    BY <1>5, <2>2, <2>4 DEF ReturnSubroutine, StateTyped
<1>6. CASE LoadFlags(i)
  <2>1. PICK v : OnlyFlags(FlagsOf(v)) /\ Advance(2)
    BY <1>6 DEF LoadFlags
  <2>2. FlagsOf(v) \in Flags
    BY FlagsGiven
  <2> QED
    BY <2>1, <2>2, <1>a, OnlyFlagsTyped
<1>7. CASE LoadFlagsWord(i) \/ Ignore(i) \/ EnterSleep(i) \/ Unimplemented(i) \/ UnimplementedPrefixed(i)
  BY <1>7, <1>a, <1>s DEF LoadFlagsWord, Ignore, EnterSleep, Unimplemented, UnimplementedPrefixed
<1> QED
  BY <1>1, <1>2, <1>3, <1>4, <1>5, <1>6, <1>7

-----------------------------------------------------------------------------
\* The invariant.  An entry of the history is an instruction with its
\* registers and flags.
Sound(x) == Decoded(x.i) /\ x.er \in Ers /\ x.flags \in Flags

\* What the instruction of x did to the registers, now r, and flags, now f.
Did(x, r, f) ==
  LET i == x.i
      old == Get(x.er, i.d)
      by == Get(x.er, i.s)
  IN /\ i.op \in {"CMP", "SUB"} => /\ f = SetFlagsSUB(x.flags, old, Operand(x), i.w)
                                   /\ i.mode \in {"imm", "reg"}
     /\ i.op = "DEC" => f = SetFlagsINC(x.flags, old, Long - i.k, i.w)
     /\ i.op = "SHLL" => r = Put(x.er, i.d, 2 * old) /\ (f.C <=> TopBit(old, i.w))
     /\ i.op = "ROTXL" => /\ r = Put(x.er, i.d, 2 * old + Ones(x.flags.C))
                          /\ f.C <=> TopBit(old, i.w)
     /\ i.op = "MULXU" => r = Put(x.er, i.d, by * (old % Mod(i.w)))
     /\ i.op = "DIVXU" /\ by # 0 =>
          LET q == Quotient(old, by)
          IN r = Put(x.er, i.d, (Mod(i.w) * ((old - (q * by)) % Mod(i.w))) + (q % Mod(i.w)))

\* The instructions that change a bit and those that test one, and the cell
\* of memory where it is.
Changes == {"BSET", "BCLR", "BST"}
Tests == {"BTST", "BLD"}
Cell(i, r) == IF i.mode = "@R" THEN r[i.d.n] ELSE Page(i.a)
\* The value that x gives its bit, and that the bit is one of a byte and named
\* by the opcode.
Meant(x) == x.i.op = "BSET" \/ (x.i.op = "BST" /\ x.flags.C)
Kept(i) == i.s = NoReg /\ Bit(i.k) < Byte

\* The bit that x changed is there, in register or memory.
Stored(x, r, m) ==
  x.i.op \in Changes /\ Kept(x.i) =>
    /\ x.i.mode = "reg" /\ x.i.op # "BST" => (Has(Get(r, x.i.d), x.i.k) <=> Meant(x))
    /\ x.i.mode # "reg" => r = x.er /\ (Has(Peek(m, Cell(x.i, r), "b"), x.i.k) <=> Meant(x))

\* The flag that x set is the bit it tested.
Tested(x, f, m) ==
  LET v == IF x.i.mode = "reg" THEN Get(x.er, x.i.d) ELSE Peek(m, Cell(x.i, x.er), "b")
  IN /\ x.i.op = "BTST" => (f.Z <=> ~Has(v, x.i.k))
     /\ x.i.op = "BLD" => (f.C <=> Has(v, x.i.k))

\* The last instruction, the one before it, and the two together.
JustRan(x) == /\ Sound(x) /\ Did(x, er, flags)
              /\ Stored(x, er, memory) /\ Tested(x, flags, memory)
RanBefore(x, y) == /\ Sound(x) /\ Did(x, y.er, y.flags)
                   /\ y.i.op \in Tests => Stored(x, y.er, memory)
History ==
  \/ past = <<>>
  \/ past = <<past[1]>> /\ JustRan(past[1])
  \/ past = <<past[1], past[2]>> /\ JustRan(past[2]) /\ RanBefore(past[1], past[2])

\* The inductive invariant.
CpuInv == /\ StateTyped /\ pc \in Nat /\ \A a \in DOMAIN rom : Decoded(rom[a])
          /\ History

\* The cases of the switch, and the entry that a step makes in the history.
Acts(i) == Proceeds(i) \/ Divisions(i) \/ EnterSleep(i) \/ Unimplemented(i) \/ UnimplementedPrefixed(i)
Now == [i |-> rom[pc], er |-> er, flags |-> flags]

\* A history of one entry becomes one of two,
LEMMA AppendTo ==
  ASSUME NEW a, NEW x
  PROVE  Append(<<a>>, x) = <<a, x>>
<1>1. PICK S : S = {a, x}
  OBVIOUS
<1>2. <<a>> \in Seq(S) /\ <<x>> \in Seq(S) /\ <<a, x>> \in Seq(S)
  BY <1>1
<1>3. /\ Append(<<a>>, x) \in Seq(S) /\ Len(Append(<<a>>, x)) = 2
      /\ Append(<<a>>, x)[1] = a /\ Append(<<a>>, x)[2] = x
  BY <1>1, <1>2, SMT
<1>4. Len(<<a, x>>) = 2 /\ <<a, x>>[1] = a /\ <<a, x>>[2] = x
  BY SMT
<1>5. \A n \in 1 .. 2 : n = 1 \/ n = 2
  BY SMT
<1> QED
  BY <1>2, <1>3, <1>4, <1>5, SeqEqual

\* and one of two keeps the younger one.
LEMMA Pasts ==
  ASSUME NEW p, NEW q, NEW x, p = <<>> \/ p = <<p[1]>> \/ p = <<p[1], p[2]>>,
         q = Append(IF Len(p) = 2 THEN Tail(p) ELSE p, x)
  PROVE  \/ p = <<>> /\ q = <<x>>
         \/ p = <<p[1]>> /\ q = <<p[1], x>>
         \/ p = <<p[1], p[2]>> /\ q = <<p[2], x>>
<1>1. CASE p = <<>>
  BY <1>1
<1>2. CASE p = <<p[1]>>
  <2>1. PICK a : a = p[1]
    OBVIOUS
  <2>2. p = <<a>>
    BY <1>2, <2>1
  <2>3. Len(<<a>>) = 1 /\ Append(<<a>>, x) = <<a, x>>
    <3>1. Len(<<a>>) = 1
      OBVIOUS
    <3> QED
      BY <3>1, AppendTo
  <2>4. q = <<a, x>>
    BY <2>2, <2>3
  <2> QED BY <2>1, <2>4, <1>2
<1>3. CASE p = <<p[1], p[2]>>
  <2>1. PICK a, b : a = p[1] /\ b = p[2]
    OBVIOUS
  <2>2. p = <<a, b>>
    BY <1>3, <2>1
  <2>3. Len(<<a, b>>) = 2 /\ Tail(<<a, b>>) = <<b>> /\ Append(<<b>>, x) = <<b, x>>
    <3>1. Len(<<a, b>>) = 2 /\ Tail(<<a, b>>) = <<b>>
      OBVIOUS
    <3> QED
      BY <3>1, AppendTo
  <2>4. q = <<b, x>>
    BY <2>2, <2>3
  <2> QED BY <2>1, <2>4, <1>3
<1> QED
  BY <1>1, <1>2, <1>3

\* Every case keeps the types.
LEMMA TypedStep ==
  ASSUME StateTyped, pc \in Nat, NEW i, Decoded(i), Acts(i)
  PROVE  StateTyped' /\ pc' \in Nat
BY ArithmeticTyped, ShiftsTyped, MultiplicationTyped, BitStepsTyped, MovesTyped, ControlTyped
DEF Acts, Proceeds, Divisions

\* The opcode tells the case.
LEMMA Which ==
  ASSUME NEW i, Acts(i)
  PROVE  /\ i.op \in {"CMP", "SUB"} => \/ i.mode = "imm" /\ Operate(i, i.k)
                                       \/ i.mode = "reg" /\ Operate(i, Get(er, i.s))
         /\ i.op = "DEC" => Decrement(i)
         /\ i.op = "SHLL" => ShiftLeft(i)
         /\ i.op = "ROTXL" => Rotate(i)
         /\ i.op = "MULXU" => MultiplyUnsigned(i)
         /\ i.op = "DIVXU" => DivideUnsigned(i)
         /\ i.op \in Changes => BitRegister(i) \/ StoreBitRegister(i) \/ BitIndirect(i) \/ BitAbsolute(i)
         /\ i.op \in Tests => TestBit(i) \/ LoadBitIndirect(i) \/ LoadBitAbsolute(i)
         /\ i.op \in Conditions => Branch8(i) \/ Branch16(i)
<1>1. ASSUME \/ ByteImmediate(i) \/ WordImmediate(i) \/ LongImmediate(i)
             \/ AddRegister(i) \/ MoveRegister(i) \/ SubRegister(i) \/ CompareRegister(i)
             \/ LogicByte(i) \/ LogicWord(i) \/ LogicLong(i)
      PROVE  /\ i.op \in Binary
             /\ \/ i.mode = "imm" /\ Operate(i, i.k)
                \/ i.mode = "reg" /\ Operate(i, Get(er, i.s))
  <2>1. ASSUME NEW v, Operate(i, v) PROVE i.op \in Binary
    BY <2>1 DEF Operate, Binary
  <2> QED
    BY <1>1, <2>1 DEF ByteImmediate, WordImmediate, LongImmediate, AddRegister, MoveRegister, SubRegister,
       CompareRegister, LogicByte, LogicWord, LogicLong, Register
<1>2. ASSUME Increment(i) \/ AddAddress(i) \/ SubAddress(i) \/ SubExtended(i)
      PROVE  i.op \in {"INC", "ADDS", "SUBS", "SUBX"}
  BY <1>2 DEF Increment, AddAddress, SubAddress, SubExtended
<1>3. ASSUME ShiftArithmeticLeft(i) \/ ShiftRight(i)
             \/ Invert(i) \/ ExtendUnsigned(i) \/ ExtendSigned(i) \/ Negate(i)
      PROVE  i.op \in {"SHAL", "SHLR", "SHAR", "NOT", "EXTU", "EXTS", "NEG"}
  BY <1>3 DEF ShiftArithmeticLeft, ShiftRight, Invert, ExtendUnsigned, ExtendSigned, Negate
<1>4. ASSUME MultiplySigned(i) \/ DivideSigned(i)
      PROVE  i.op \in {"MULXS", "DIVXS"}
  BY <1>4 DEF MultiplySigned, DivideSigned
<1>5. ASSUME \/ MoveAbsolute8(i) \/ MoveAbsolute16(i) \/ MoveLongAbsolute16(i)
             \/ MoveIndirect(i) \/ MoveLongIndirect(i) \/ MoveDisplaced(i) \/ MoveLongDisplaced(i)
             \/ MoveByteStack(i) \/ MoveWordStack(i) \/ MoveLongStack(i)
      PROVE  i.op \in {"LOAD", "STORE"}
  BY <1>5 DEF MoveAbsolute8, MoveAbsolute16, MoveLongAbsolute16, MoveIndirect, MoveLongIndirect,
     MoveDisplaced, MoveLongDisplaced, MoveByteStack, MoveWordStack, MoveLongStack
<1>6. ASSUME \/ Jump(i) \/ BranchSubroutine8(i) \/ BranchSubroutine16(i)
             \/ JumpSubroutineRegister(i) \/ JumpSubroutine(i) \/ ReturnSubroutine(i)
             \/ LoadFlags(i) \/ LoadFlagsWord(i) \/ Ignore(i)
             \/ EnterSleep(i) \/ Unimplemented(i) \/ UnimplementedPrefixed(i)
      PROVE  i.op \in {"JMP", "BSR", "JSR", "RTS", "LDC", "NOP", "BRN", "JMP@@", "JSR@@", "SLEEP",
                       "UNIMPLEMENTED", "UNIMPLEMENTED.L"}
  BY <1>6 DEF Jump, BranchSubroutine8, BranchSubroutine16, JumpSubroutineRegister, JumpSubroutine,
     ReturnSubroutine, LoadFlags, LoadFlagsWord, Ignore, EnterSleep, Unimplemented, UnimplementedPrefixed
<1>7. ASSUME Decrement(i) PROVE i.op = "DEC"
  BY <1>7 DEF Decrement
<1>8. ASSUME ShiftLeft(i) PROVE i.op = "SHLL"
  BY <1>8 DEF ShiftLeft
<1>9. ASSUME Rotate(i) PROVE i.op \in {"ROTXL", "ROTL"}
  BY <1>9 DEF Rotate
<1>10. ASSUME MultiplyUnsigned(i) PROVE i.op = "MULXU"
  BY <1>10 DEF MultiplyUnsigned
<1>11. ASSUME DivideUnsigned(i) PROVE i.op = "DIVXU"
  BY <1>11 DEF DivideUnsigned
<1>12. ASSUME BitRegister(i) \/ StoreBitRegister(i) \/ BitIndirect(i) \/ BitAbsolute(i)
       PROVE  i.op \in {"BSET", "BCLR", "BST", "BNOT"}
  BY <1>12 DEF BitRegister, StoreBitRegister, BitIndirect, BitAbsolute
<1>13. ASSUME TestBit(i) \/ LoadBitIndirect(i) \/ LoadBitAbsolute(i) PROVE i.op \in Tests
  BY <1>13 DEF TestBit, LoadBitIndirect, LoadBitAbsolute, Tests
<1>14. ASSUME Branch8(i) \/ Branch16(i) PROVE i.op \in Conditions
  BY <1>14 DEF Branch8, Branch16
<1> HIDE DEF Conditions
<1>c. i.op \in Conditions => i.op \in {"BRA", "BHI", "BLS", "BCC", "BCS", "BNE", "BEQ", "BVC", "BVS",
                                       "BPL", "BMI", "BGE", "BLT", "BGT", "BLE"}
  BY DEF Conditions
<1>15. CASE \/ ByteImmediate(i) \/ WordImmediate(i) \/ LongImmediate(i)
             \/ AddRegister(i) \/ MoveRegister(i) \/ SubRegister(i) \/ CompareRegister(i)
             \/ LogicByte(i) \/ LogicWord(i) \/ LogicLong(i)
  <2>1. i.op \in Binary /\ (\/ i.mode = "imm" /\ Operate(i, i.k)
                            \/ i.mode = "reg" /\ Operate(i, Get(er, i.s)))
    BY <1>15, <1>1
  <2> QED
    BY <2>1, <1>c DEF Binary, Changes, Tests
<1>16. CASE \/ Increment(i) \/ AddAddress(i) \/ SubAddress(i) \/ SubExtended(i)
            \/ ShiftArithmeticLeft(i) \/ ShiftRight(i)
            \/ Invert(i) \/ ExtendUnsigned(i) \/ ExtendSigned(i) \/ Negate(i)
            \/ MultiplySigned(i) \/ DivideSigned(i)
  <2>1. i.op \in {"INC", "ADDS", "SUBS", "SUBX", "SHAL", "SHLR", "SHAR", "NOT", "EXTU", "EXTS", "NEG",
                  "MULXS", "DIVXS"}
    BY <1>16, <1>2, <1>3, <1>4
  <2> QED
    BY <2>1, <1>c DEF Changes, Tests
<1>17. CASE \/ MoveAbsolute8(i) \/ MoveAbsolute16(i) \/ MoveLongAbsolute16(i)
            \/ MoveIndirect(i) \/ MoveLongIndirect(i) \/ MoveDisplaced(i) \/ MoveLongDisplaced(i)
            \/ MoveByteStack(i) \/ MoveWordStack(i) \/ MoveLongStack(i)
  <2>1. i.op \in {"LOAD", "STORE"}
    BY <1>17, <1>5
  <2> QED
    BY <2>1, <1>c DEF Changes, Tests
<1>18. CASE \/ Jump(i) \/ BranchSubroutine8(i) \/ BranchSubroutine16(i)
            \/ JumpSubroutineRegister(i) \/ JumpSubroutine(i) \/ ReturnSubroutine(i)
            \/ LoadFlags(i) \/ LoadFlagsWord(i) \/ Ignore(i)
            \/ EnterSleep(i) \/ Unimplemented(i) \/ UnimplementedPrefixed(i)
  <2>1. i.op \in {"JMP", "BSR", "JSR", "RTS", "LDC", "NOP", "BRN", "JMP@@", "JSR@@", "SLEEP",
                  "UNIMPLEMENTED", "UNIMPLEMENTED.L"}
    BY <1>18, <1>6
  <2> QED
    BY <2>1, <1>c DEF Changes, Tests
<1>19. CASE Decrement(i)
  BY <1>19, <1>7, <1>c DEF Changes, Tests
<1>20. CASE ShiftLeft(i)
  BY <1>20, <1>8, <1>c DEF Changes, Tests
<1>21. CASE Rotate(i)
  BY <1>21, <1>9, <1>c DEF Changes, Tests
<1>22. CASE MultiplyUnsigned(i)
  BY <1>22, <1>10, <1>c DEF Changes, Tests
<1>23. CASE DivideUnsigned(i)
  BY <1>23, <1>11, <1>c DEF Changes, Tests
<1>24. CASE BitRegister(i) \/ StoreBitRegister(i) \/ BitIndirect(i) \/ BitAbsolute(i)
  BY <1>24, <1>12, <1>c DEF Tests
<1>25. CASE TestBit(i) \/ LoadBitIndirect(i) \/ LoadBitAbsolute(i)
  BY <1>25, <1>13, <1>c DEF Changes, Tests
<1>26. CASE Branch8(i) \/ Branch16(i)
  BY <1>26, <1>14, <1>c DEF Changes, Tests
<1> QED
  BY <1>15, <1>16, <1>17, <1>18, <1>19, <1>20, <1>21, <1>22, <1>23, <1>24, <1>25, <1>26
  DEF Acts, Proceeds, Divisions

-----------------------------------------------------------------------------
\* A number of an even number of parts of size b: adding b to it when its part
\* is even stays in the range and makes the part odd, and back.
LEMMA EvenParts ==
  ASSUME NEW b \in Nat, NEW t \in Nat, b > 0, t > 0, NEW n \in Nat, n = b * (2 * t),
         NEW v \in Nat, v < n
  PROVE  /\ (v \div b) % 2 # 1 => v + b < n /\ ((v + b) \div b) % 2 = 1
         /\ (v \div b) % 2 = 1 => v - b \in Nat /\ ((v - b) \div b) % 2 # 1
<1>1. 2 * t \in Nat /\ 2 * t > 0
  BY SMT
<1>2. PICK q \in Nat, s \in Nat : v \div b = q /\ s < b /\ v = q * b + s /\ q < 2 * t
  BY <1>1, Split
<1>3. \A p \in Nat : p * b >= 0 /\ p * b \in Nat
  BY SMT
<1>4. ASSUME q % 2 # 1
      PROVE  v + b < n /\ ((v + b) \div b) % 2 = 1
  <2>1. (q + 1) % 2 = 1 /\ q + 2 <= 2 * t
    <3>1. (q + 1) % 2 = 1
      BY <1>4, SMT
    <3>2. PICK p \in Nat : q = 2 * p
      <4>1. q \div 2 \in Nat /\ q = 2 * (q \div 2)
        BY <1>4, SMT
      <4> QED
        BY <4>1
    <3>3. p < t
      BY <3>2, <1>2, SMT
    <3> QED
      BY <3>1, <3>2, <3>3, SMT
  <2>2. PICK d \in Nat : 2 * t = q + 2 + d
    <3>1. 2 * t - (q + 2) \in Nat /\ 2 * t = q + 2 + (2 * t - (q + 2))
      BY <2>1, <1>1, SMT
    <3> QED
      BY <3>1
  <2>3. n = q * b + 2 * b + d * b
    BY <2>2, SMT
  <2>4. v + b < n
    BY <2>3, <1>2, <1>3, SMT
  <2>5. v + b = (q + 1) * b + s
    BY <1>2, SMT
  <2>6. (v + b) \div b = q + 1
    BY <2>5, <1>2, Digits, SMT
  <2> QED
    BY <2>1, <2>4, <2>6
<1>5. ASSUME q % 2 = 1
      PROVE  v - b \in Nat /\ ((v - b) \div b) % 2 # 1
  <2>1. PICK p \in Nat : q = p + 1 /\ p % 2 # 1
    <3>1. q - 1 \in Nat /\ (q - 1) % 2 # 1 /\ q = (q - 1) + 1
      BY <1>5, SMT
    <3> QED
      BY <3>1
  <2>2. v - b = p * b + s
    BY <2>1, <1>2, SMT
  <2>3. v - b \in Nat
    BY <2>2, <1>3, SMT
  <2>4. (v - b) \div b = p
    BY <2>2, <1>2, Digits, SMT
  <2> QED
    BY <2>1, <2>3, <2>4
<1> QED
  BY <1>2, <1>4, <1>5

\* A bit of a byte has an even number of parts in the byte.
LEMMA SmallBit ==
  ASSUME NEW k \in Nat, Bit(k) < Byte
  PROVE  Bit(k) \in Nat /\ Bit(k) > 0 /\ \E t \in Nat : t > 0 /\ Byte = Bit(k) * (2 * t)
<1>1. Byte \in {4, 16, 64, 256}
  BY CpuAssumption, SMT DEF Byte
<1>2. Bit(k) \in {1, 2, 4, 8, 16, 32, 64, 128} \/ Bit(k) >= 256
  BY BitTyped
<1> HIDE DEF Byte
<1>3. PICK n, b : n = Byte /\ b = Bit(k)
  OBVIOUS
<1>4. \E t \in {1, 2, 4, 8, 16, 32, 64, 128} : n = b * (2 * t)
  <2>1. n \in {4, 16, 64, 256} /\ (b \in {1, 2, 4, 8, 16, 32, 64, 128} \/ b >= 256) /\ b < n /\ b \in Nat
    BY <1>1, <1>2, <1>3, BitTyped
  <2>2. b \in {1, 2, 4, 8, 16, 32, 64, 128}
    BY ONLY <2>1, SMT
  <2>3. CASE n = 4
    BY ONLY <2>1, <2>2, <2>3, SMT
  <2>4. CASE n = 16
    BY ONLY <2>1, <2>2, <2>4, SMT
  <2>5. CASE n = 64
    BY ONLY <2>1, <2>2, <2>5, SMT
  <2>6. CASE n = 256
    BY ONLY <2>1, <2>2, <2>6, SMT
  <2> QED
    BY <2>1, <2>3, <2>4, <2>5, <2>6
<1>5. \A t \in {1, 2, 4, 8, 16, 32, 64, 128} : t \in Nat /\ t > 0
  BY SMT
<1> QED
  BY <1>3, <1>4, <1>5, BitTyped

\* A bit that was set or cleared in a byte is read back, and the byte stays one.
LEMMA BitAssigned ==
  ASSUME NEW v \in 0 .. Byte - 1, NEW k \in Nat, Bit(k) < Byte, NEW c
  PROVE  /\ Assigned(v, k, c) % Byte = Assigned(v, k, c)
         /\ Has(Assigned(v, k, c), k) <=> c
<1> HIDE DEF Byte
<1>1. PICK b : b = Bit(k)
  OBVIOUS
<1>2. PICK n : n = Byte
  OBVIOUS
<1>3. PICK t \in Nat : t > 0 /\ n = b * (2 * t) /\ b \in Nat /\ b > 0
  BY <1>1, <1>2, SmallBit
<1>4. n \in Nat /\ v \in Nat /\ v < n /\ n > 0
  BY <1>2, Numbers, SMT
<1>5. v % n = v
  BY <1>4, SmallRemainder
<1>6. (v \div b) % 2 # 1 => v + b \in Nat /\ (v + b) % n = v + b /\ ((v + b) \div b) % 2 = 1
  <2>1. v + b \in Nat
    BY <1>3, <1>4, SMT
  <2>2. (v \div b) % 2 # 1 => v + b < n /\ ((v + b) \div b) % 2 = 1
    BY <1>3, <1>4, EvenParts
  <2> QED
    BY <2>1, <2>2, <1>4, SmallRemainder
<1>7. (v \div b) % 2 = 1 => (v - b) % n = v - b /\ ((v - b) \div b) % 2 # 1
  <2>1. (v \div b) % 2 = 1 => v - b \in Nat /\ ((v - b) \div b) % 2 # 1
    BY <1>3, <1>4, EvenParts
  <2>2. v - b < n
    BY <1>3, <1>4, SMT
  <2> QED
    BY <2>1, <2>2, <1>4, SmallRemainder
<1>8. Assigned(v, k, c) = IF c THEN (IF (v \div b) % 2 = 1 THEN v ELSE (v + b) % n)
                               ELSE (IF (v \div b) % 2 = 1 THEN v - b ELSE v)
  BY <1>1, <1>2 DEF Assigned, With, Without, Has
<1>9. \A x : Has(x, k) <=> (x \div b) % 2 = 1
  BY <1>1 DEF Has
<1>10. CASE (v \div b) % 2 = 1
  BY <1>10, <1>2, <1>5, <1>7, <1>8, <1>9
<1>11. CASE (v \div b) % 2 # 1
  BY <1>11, <1>2, <1>5, <1>6, <1>8, <1>9
<1> QED
  BY <1>10, <1>11

\* What a case does to registers and flags is what Did says,
LEMMA DidHolds ==
  ASSUME StateTyped, NEW i, Decoded(i), Acts(i),
         NEW x, x.i = i, x.er = er, x.flags = flags
  PROVE  Did(x, er', flags')
<1> HIDE DEF Byte, Word, Long
<1> DEFINE old == Get(er, i.d)
           by == Get(er, i.s)
<1>f. \A v, w, c : [SetFlagsMOV(flags, v, w) EXCEPT !.C = c].C = c
  <2> SUFFICES ASSUME NEW v, NEW w, NEW c PROVE [SetFlagsMOV(flags, v, w) EXCEPT !.C = c].C = c
    OBVIOUS
  <2>1. PICK g \in Flags : g = SetFlagsMOV(flags, v, w)
    BY Flagged
  <2>2. [g EXCEPT !.C = c].C = c
    BY DEF Flags
  <2> QED
    BY <2>1, <2>2
<1>1. ASSUME i.op \in {"CMP", "SUB"}
      PROVE  flags' = SetFlagsSUB(flags, old, Operand(x), i.w) /\ i.mode \in {"imm", "reg"}
  <2>1. ASSUME NEW v, Operate(i, v) PROVE flags' = SetFlagsSUB(flags, old, v, i.w)
    BY <1>1, <2>1 DEF Operate, Result, OnlyFlags
  <2>2. CASE i.mode = "imm" /\ Operate(i, i.k)
    BY <2>1, <2>2 DEF Operand
  <2>3. CASE i.mode = "reg" /\ Operate(i, Get(er, i.s))
    BY <2>1, <2>3 DEF Operand
  <2> QED
    BY <1>1, <2>2, <2>3, Which
<1>2. ASSUME i.op = "DEC" PROVE flags' = SetFlagsINC(flags, old, Long - i.k, i.w)
  BY <1>2, Which DEF Decrement, Result
<1>3. ASSUME i.op = "SHLL" PROVE er' = Put(er, i.d, 2 * old) /\ (flags'.C <=> TopBit(old, i.w))
  <2>1. Shift(i, 2 * old, TopBit(old, i.w))
    BY <1>3, Which DEF ShiftLeft
  <2> HIDE DEF old
  <2> QED
    BY <2>1, <1>f DEF Shift, Result
<1>4. ASSUME i.op = "ROTXL"
      PROVE  er' = Put(er, i.d, 2 * old + Ones(flags.C)) /\ (flags'.C <=> TopBit(old, i.w))
  <2>1. Shift(i, 2 * old + Ones(flags.C), TopBit(old, i.w))
    BY <1>4, Which DEF Rotate
  <2> HIDE DEF old
  <2> QED
    BY <2>1, <1>f DEF Shift, Result
<1>5. ASSUME i.op = "MULXU" PROVE er' = Put(er, i.d, by * (old % Mod(i.w)))
  BY <1>5, Which DEF MultiplyUnsigned, Result
<1>6. ASSUME i.op = "DIVXU", by # 0
      PROVE  er' = Put(er, i.d, (Mod(i.w) * ((old - (Quotient(old, by) * by)) % Mod(i.w)))
                                + (Quotient(old, by) % Mod(i.w)))
  <2>1. QuotientOf(old, by) = Quotient(old, by)
    BY <1>6 DEF QuotientOf
  <2>2. ~Traps(by = 0)
    BY <1>6 DEF Traps
  <2>3. \E v, f : v = (Mod(i.w) * ((old - (QuotientOf(old, by) * by)) % Mod(i.w)))
                      + (QuotientOf(old, by) % Mod(i.w))
                  /\ Result(i, v, f)
    BY <1>6, <2>2, Which DEF DivideUnsigned
  <2> QED
    BY <2>1, <2>3 DEF Result
<1> QED
  BY <1>1, <1>2, <1>3, <1>4, <1>5, <1>6 DEF Did

\* the bit that it changes is there,
LEMMA StoredHolds ==
  ASSUME StateTyped, NEW i, Decoded(i), Acts(i),
         NEW x, x.i = i, x.er = er, x.flags = flags
  PROVE  Stored(x, er', memory')
<1> HIDE DEF Byte, Word, Long
<1> SUFFICES ASSUME i.op \in Changes, Kept(i)
             PROVE  /\ i.mode = "reg" /\ i.op # "BST" => (Has(Get(er', i.d), i.k) <=> Meant(x))
                    /\ i.mode # "reg" => /\ er' = er
                                         /\ Has(Peek(memory', Cell(i, er'), "b"), i.k) <=> Meant(x)
  BY DEF Stored
<1>k. i.k \in Nat /\ i.a \in Nat /\ Bit(i.k) < Byte /\ BitNumber(i) = i.k
  BY DEF Decoded, Kept, Changes, OnBits, BitNumber
<1>d. i.mode \in {"reg", "@R"} => i.d \in Operands
  BY Shapes DEF NamesD, Changes, OnBits, Absolute
<1>w. i.mode = "reg" => WidthOf(i.d) = "b"
  BY DEF Decoded, Changes, OnBits
<1>m. flags \in Flags /\ memory \in Memories /\ er \in Ers
  BY DEF StateTyped
<1>c. ASSUME NEW a \in Int, ChangeBit(i, a), Cell(i, er) = a
      PROVE  er' = er /\ (Has(Peek(memory', Cell(i, er'), "b"), i.k) <=> Meant(x))
  <2>1. PICK v \in 0 .. Byte - 1 : v = Peek(memory, a, "b")
    <3>1. Peek(memory, a, "b") = memory[(a + 0) % Word] /\ a + 0 = a
      BY DEF Peek
    <3>2. memory[a % Word] \in Nat /\ memory[a % Word] < Byte
      BY <1>m, Addressed
    <3>3. \A n \in Nat : n < Byte => n \in 0 .. Byte - 1
      BY Numbers, SMT
    <3> QED
      BY <3>1, <3>2, <3>3
  <2>2. PICK c \in BOOLEAN : c = Meant(x)
    BY DEF Meant, Flags
  <2>3. PICK s : s = Assigned(v, i.k, c)
    OBVIOUS
  <2>4. s % Byte = s /\ (Has(s, i.k) <=> c) /\ s \in Int
    BY <2>3, <1>k, BitAssigned, BitsTyped
  <2>5. PokeByte(a, s)
    BY <1>c, <1>k, <2>1, <2>2, <2>3 DEF ChangeBit, Meant, Changes, Assigned
  <2>6. memory' = Poke(memory, a, "b", s) /\ er' = er
    BY <2>5 DEF PokeByte
  <2>7. Peek(memory', a, "b") = s
    BY <2>4, <2>6, <1>m, PokePeek
  <2> QED
    BY <1>c, <2>2, <2>4, <2>6, <2>7
<1>1. CASE BitRegister(i)
  <2>1. /\ i.mode = "reg" /\ i.op \in {"BSET", "BCLR"} /\ i.d \in Operands /\ WidthOf(i.d) = "b"
        /\ er' = Put(er, i.d, Assigned(Get(er, i.d), i.k, i.op = "BSET"))
    BY <1>1, <1>d, <1>k, <1>w DEF BitRegister, Result
  <2>2. PICK v \in 0 .. Byte - 1 : v = Get(er, i.d)
    BY <2>1, <1>m, PutGet, Mods DEF Values
  <2>3. PICK c \in BOOLEAN : c = (i.op = "BSET")
    OBVIOUS
  <2>4. PICK s \in Int : s = Assigned(v, i.k, c)
    BY <1>k, BitsTyped
  <2>5. s % Byte = s /\ (Has(s, i.k) <=> c)
    BY <2>4, <1>k, BitAssigned
  <2>6. Get(er', i.d) = s
    BY <2>1, <2>2, <2>3, <2>4, <2>5, <1>m, PutGet, Mods
  <2>7. Meant(x) <=> c
    BY <2>1, <2>3 DEF Meant
  <2> QED
    BY <2>1, <2>5, <2>6, <2>7
<1>2. CASE StoreBitRegister(i)
  BY <1>2 DEF StoreBitRegister
<1>3. CASE BitIndirect(i)
  <2>1. i.mode = "@R" /\ ChangeBit(i, er[i.d.n]) /\ Cell(i, er) = er[i.d.n]
    BY <1>3 DEF BitIndirect, Cell
  <2>2. er[i.d.n] \in Int
    BY <2>1, <1>d, Found
  <2> QED
    BY <2>1, <2>2, <1>c
<1>4. CASE BitAbsolute(i)
  <2>1. i.mode = "aa8" /\ ChangeBit(i, Page(i.a)) /\ Cell(i, er) = Page(i.a)
    BY <1>4 DEF BitAbsolute, Cell
  <2>2. Page(i.a) \in Int
    BY <1>k, Numbers, SMT DEF Page
  <2> QED
    BY <2>1, <2>2, <1>c
<1> QED
  BY <1>1, <1>2, <1>3, <1>4, Which

\* and the bit that it tests is in the flag, while memory stays.
LEMMA TestedHolds ==
  ASSUME StateTyped, NEW i, Decoded(i), Acts(i),
         NEW x, x.i = i, x.er = er, x.flags = flags
  PROVE  Tested(x, flags', memory') /\ (i.op \in Tests => memory' = memory)
<1> HIDE DEF Byte, Word, Long
<1> SUFFICES ASSUME i.op \in Tests
             PROVE  Tested(x, flags', memory') /\ memory' = memory
  BY DEF Tested, Tests
<1>f. \A c : [flags EXCEPT !.C = c].C = c /\ [flags EXCEPT !.Z = c].Z = c
  BY DEF StateTyped, Flags
<1>1. CASE TestBit(i)
  <2>1. PICK c \in BOOLEAN : c = Has(Get(er, i.d), i.k)
    BY DEF Has
  <2>2. i.mode = "reg" /\ memory' = memory
        /\ flags' = IF i.op = "BLD" THEN [flags EXCEPT !.C = c] ELSE [flags EXCEPT !.Z = ~c]
    BY <1>1, <2>1 DEF TestBit, OnlyFlags
  <2> QED
    BY <2>1, <2>2, <1>f DEF Tested
<1>2. ASSUME NEW a, LoadBitAt(i, a), i.op = "BLD", i.mode # "reg", Cell(i, er) = a
      PROVE  Tested(x, flags', memory') /\ memory' = memory
  <2>1. PICK c \in BOOLEAN : c = Has(Peek(memory, a, "b"), i.k)
    BY DEF Has
  <2>2. memory' = memory /\ flags' = [flags EXCEPT !.C = c]
    BY <1>2, <2>1 DEF LoadBitAt, OnlyFlags
  <2> QED
    BY <1>2, <2>1, <2>2, <1>f DEF Tested
<1>3. CASE LoadBitIndirect(i)
  BY <1>3, <1>2 DEF LoadBitIndirect, Cell
<1>4. CASE LoadBitAbsolute(i)
  BY <1>4, <1>2 DEF LoadBitAbsolute, Cell
<1> QED
  BY <1>1, <1>3, <1>4, Which

\* The first state has the invariant,
LEMMA CpuInit == Init => CpuInv
<1> SUFFICES ASSUME Init PROVE CpuInv
  OBVIOUS
<1> HIDE DEF Byte, Word, Long
<1>1. PICK start \in Starts : rom \in start.programs /\ er \in start.registers
  BY DEF Init
<1>2. er \in Ers /\ \A a \in DOMAIN rom : Decoded(rom[a])
  BY <1>1, CpuAssumption DEF Ers
<1>3. flags \in Flags
  BY FlagsGiven DEF Init
<1>4. memory \in Memories
  <2>1. 0 \in 0 .. Byte - 1
    BY Numbers, SMT
  <2> QED
    BY <2>1 DEF Init, Memories
<1>5. past = <<>> /\ pc \in Nat
  BY DEF Init
<1> QED
  BY <1>2, <1>3, <1>4, <1>5 DEF CpuInv, StateTyped, History

\* and every step keeps it.
LEMMA CpuStep == CpuInv /\ [Next]_vars => CpuInv'
<1> SUFFICES ASSUME CpuInv, [Next]_vars PROVE CpuInv'
  OBVIOUS
<1> USE DEF CpuInv
<1>1. CASE UNCHANGED vars
  BY <1>1 DEF vars, StateTyped, History, JustRan, RanBefore
<1>2. CASE Next
  <2>1. PICK y : y = Now
    OBVIOUS
  <2>2. /\ y.i = rom[pc] /\ y.er = er /\ y.flags = flags
        /\ pc \in DOMAIN rom /\ rom' = rom
        /\ past' = Append(IF Len(past) = 2 THEN Tail(past) ELSE past, y)
    BY <1>2, <2>1 DEF Next, Now
  <2>3. Acts(rom[pc])
    BY <1>2 DEF Next, Acts
  <2>4. PICK i : i = rom[pc] /\ Decoded(i) /\ y.i = i /\ Acts(i)
    BY <2>2, <2>3
  <2>5. StateTyped' /\ pc' \in Nat
    BY <2>4, TypedStep
  <2>6. JustRan(y)'
    <3>1. Sound(y)
      BY <2>2, <2>4 DEF Sound, StateTyped
    <3>2. Did(y, er', flags')
      BY <2>2, <2>4, DidHolds
    <3>3. Stored(y, er', memory')
      BY <2>2, <2>4, StoredHolds
    <3>4. Tested(y, flags', memory')
      BY <2>2, <2>4, TestedHolds
    <3> QED
      BY <3>1, <3>2, <3>3, <3>4 DEF JustRan
  <2>7. ASSUME NEW x, JustRan(x) PROVE RanBefore(x, y)'
    <3>1. Sound(x) /\ Did(x, y.er, y.flags) /\ Stored(x, y.er, memory)
      BY <2>2, <2>7 DEF JustRan
    <3>2. y.i \in {y.i} /\ (y.i.op \in Tests => memory' = memory)
      BY <2>2, <2>4, TestedHolds
    <3> QED
      BY <3>1, <3>2 DEF RanBefore
  <2>8. History'
    <3>0. past = <<>> \/ past = <<past[1]>> \/ past = <<past[1], past[2]>>
      BY DEF History
    <3>1. \/ past = <<>> /\ past' = <<y>>
          \/ past = <<past[1]>> /\ past' = <<past[1], y>>
          \/ past = <<past[1], past[2]>> /\ past' = <<past[2], y>>
      <4>1. PICK p, q : p = past /\ q = past'
        OBVIOUS
      <4>2. p = <<>> \/ p = <<p[1]>> \/ p = <<p[1], p[2]>>
        BY <4>1, <3>0
      <4>3. q = Append(IF Len(p) = 2 THEN Tail(p) ELSE p, y)
        BY <4>1, <2>2
      <4>4. \/ p = <<>> /\ q = <<y>>
            \/ p = <<p[1]>> /\ q = <<p[1], y>>
            \/ p = <<p[1], p[2]>> /\ q = <<p[2], y>>
        BY <4>2, <4>3, Pasts
      <4> QED
        BY <4>1, <4>4
    <3>2. CASE past = <<>> /\ past' = <<y>>
      <4>1. past'[1] = y /\ past' = <<past'[1]>>
        BY <3>2
      <4> QED
        BY <4>1, <2>6 DEF History
    <3>3. CASE past = <<past[1]>> /\ past' = <<past[1], y>>
      <4>1. past # <<>> /\ past # <<past[1], past[2]>>
        <5>1. PICK a, b : a = past[1] /\ b = past[2]
          OBVIOUS
        <5>2. past = <<a>>
          BY <3>3, <5>1
        <5>3. <<a>> # <<>> /\ Len(<<a>>) = 1 /\ Len(<<a, b>>) = 2
          OBVIOUS
        <5> QED
          BY <5>1, <5>2, <5>3
      <4>2. JustRan(past[1])
        BY <4>1 DEF History
      <4>3. PICK x : x = past[1] /\ RanBefore(x, y)'
        BY <4>2, <2>7
      <4>4. past'[1] = x /\ past'[2] = y /\ past' = <<past'[1], past'[2]>>
        BY <3>3, <4>3
      <4> QED
        BY <4>3, <4>4, <2>6 DEF History
    <3>4. CASE past = <<past[1], past[2]>> /\ past' = <<past[2], y>>
      <4>1. past # <<>> /\ past # <<past[1]>>
        <5>1. PICK a, b : a = past[1] /\ b = past[2]
          OBVIOUS
        <5>2. past = <<a, b>>
          BY <3>4, <5>1
        <5>3. <<a, b>> # <<>> /\ Len(<<a>>) = 1 /\ Len(<<a, b>>) = 2
          OBVIOUS
        <5> QED
          BY <5>1, <5>2, <5>3
      <4>2. JustRan(past[2])
        BY <4>1 DEF History
      <4>3. PICK x : x = past[2] /\ RanBefore(x, y)'
        BY <4>2, <2>7
      <4>4. past'[1] = x /\ past'[2] = y /\ past' = <<past'[1], past'[2]>>
        BY <3>4, <4>3
      <4> QED
        BY <4>3, <4>4, <2>6 DEF History
    <3> QED
      BY <3>1, <3>2, <3>3, <3>4
  <2> QED
    BY <2>2, <2>5, <2>8
<1> QED
  BY <1>1, <1>2

\* Registers, flags, memory and pc keep their types, and the history says what
\* the last two instructions did.  (runNextInstruction)
THEOREM CpuInvariant == Spec => []CpuInv
<1> QED
  BY CpuInit, CpuStep, PTL DEF Spec

\* The invariant, said of Ran.
LEMMA LastTwo ==
  ASSUME CpuInv
  PROVE  /\ past # <<>> => JustRan(Ran(1))
         /\ Len(past) >= 2 => RanBefore(Ran(2), Ran(1))
<1>1. CASE past = <<>>
  BY <1>1
<1>2. CASE past = <<past[1]>> /\ JustRan(past[1])
  <2>1. PICK a : a = past[1]
    OBVIOUS
  <2>2. past = <<a>> /\ Len(<<a>>) = 1
    BY <2>1, <1>2
  <2>3. Ran(1) = a /\ ~(Len(past) >= 2)
    BY <2>2 DEF Ran
  <2> QED
    BY <2>1, <2>3, <1>2
<1>3. CASE past = <<past[1], past[2]>> /\ JustRan(past[2]) /\ RanBefore(past[1], past[2])
  <2>1. PICK a, b : a = past[1] /\ b = past[2]
    OBVIOUS
  <2>2. past = <<a, b>> /\ Len(<<a, b>>) = 2
    BY <2>1, <1>3
  <2>3. Ran(1) = b /\ Ran(2) = a
    BY <2>2 DEF Ran
  <2> QED
    BY <2>1, <2>3, <1>3
<1> QED
  BY <1>1, <1>2, <1>3 DEF CpuInv, History

-----------------------------------------------------------------------------
\* The properties.  Two digits of base m doubled with the carry of the lower
\* one are the digits of the doubled number,
Doubles(m, lo, hi, c) ==
  ((2 * hi + c) % m) * m + ((2 * lo) % m) = (2 * (hi * m + lo)) % (m * m)

\* and the carry of the higher one is the carry of the number.
LEMMA DoubleWidth ==
  ASSUME NEW h \in Nat, h > 0, NEW m \in Nat, m = 2 * h,
         NEW lo \in Nat, lo < m, NEW hi \in Nat, hi < m,
         NEW c \in {0, 1}, c = 1 <=> lo >= h
  PROVE  /\ Doubles(m, lo, hi, c)
         /\ hi >= h <=> 2 * (hi * m + lo) >= m * m
<1>1. PICK l \in Nat : 2 * lo = c * m + l /\ l < m
  <2>1. CASE lo >= h
    <3>1. 2 * lo - m \in Nat /\ 2 * lo = c * m + (2 * lo - m) /\ 2 * lo - m < m
      BY <2>1, SMT
    <3> QED BY <3>1
  <2>2. CASE ~(lo >= h)
    <3>1. 2 * lo \in Nat /\ 2 * lo = c * m + 2 * lo /\ 2 * lo < m
      BY <2>2, SMT
    <3> QED BY <3>1
  <2> QED BY <2>1, <2>2
<1>2. PICK d \in {0, 1}, g \in Nat : 2 * hi + c = d * m + g /\ g < m /\ (d = 1 <=> hi >= h)
  <2>1. CASE hi >= h
    <3>1. 2 * hi + c - m \in Nat /\ 2 * hi + c = 1 * m + (2 * hi + c - m) /\ 2 * hi + c - m < m
      BY <2>1, SMT
    <3> QED BY <2>1, <3>1
  <2>2. CASE ~(hi >= h)
    <3>1. 2 * hi + c \in Nat /\ 2 * hi + c = 0 * m + (2 * hi + c) /\ 2 * hi + c < m
      BY <2>2, SMT
    <3> QED BY <2>2, <3>1
  <2> QED BY <2>1, <2>2
<1>3. c \in Int /\ d \in Int
  BY <1>2
<1>4. (2 * lo) % m = l
  BY <1>1, <1>3, Digits
<1>5. (2 * hi + c) % m = g
  BY <1>2, <1>3, Digits
<1>6. PICK n \in Nat : n = m * m
  BY SMT
<1>7. g * m + l \in Nat /\ g * m + l < n
  <2>1. g * m <= (m - 1) * m /\ (m - 1) * m = m * m - m /\ g * m \in Nat
    BY <1>2, SMT
  <2> QED
    BY <2>1, <1>1, <1>6, SMT
<1>8. 2 * (hi * m + lo) = d * n + (g * m + l)
  <2>1. 2 * (hi * m + lo) = (2 * hi) * m + 2 * lo
    BY SMT
  <2>2. (2 * hi) * m + c * m = (2 * hi + c) * m
    BY <1>3, SMT
  <2>3. (d * m + g) * m = d * n + g * m
    BY <1>2, <1>6, SMT
  <2>4. /\ (2 * hi) * m \in Int /\ c * m \in Int /\ (2 * hi + c) * m \in Int /\ d * n \in Int /\ g * m \in Int
    BY <1>2, <1>3, <1>6, SMT
  <2>5. (2 * hi + c) * m = (d * m + g) * m
    BY <1>2
  <2> QED
    BY <2>1, <2>2, <2>3, <2>4, <2>5, <1>1, SMT
<1>9. (2 * (hi * m + lo)) % n = g * m + l
  <2>1. n > 0
    BY <1>7, SMT
  <2> QED
    BY <2>1, <1>3, <1>7, <1>8, Digits
<1>10. hi >= h <=> 2 * (hi * m + lo) >= n
  <2>1. CASE d = 1
    BY <2>1, <1>2, <1>6, <1>7, <1>8, SMT
  <2>2. CASE d = 0
    <3>1. 2 * (hi * m + lo) = g * m + l
      BY <2>2, <1>6, <1>7, <1>8, SMT
    <3>2. ~(2 * (hi * m + lo) >= n)
      BY <3>1, <1>6, <1>7, SMT
    <3> QED
      BY <2>2, <3>2, <1>2
  <2> QED
    BY <1>2, <2>1, <2>2
<1> QED
  BY <1>4, <1>5, <1>6, <1>9, <1>10 DEF Doubles

\* The invariant gives CarryMoves.
LEMMA CarryHolds == CpuInv => CarryMoves
<1> SUFFICES ASSUME CpuInv, Len(past) >= 2, NEW x, x = Ran(2), NEW y, y = Ran(1),
                    x.i.op = "SHLL", y.i.op = "ROTXL", x.i.w = y.i.w, x.i.d # y.i.d,
                    NEW m, m = Mod(x.i.w)
             PROVE  /\ Get(er, y.i.d) * m + Get(er, x.i.d)
                       = (2 * (Get(x.er, y.i.d) * m + Get(x.er, x.i.d))) % (m * m)
                    /\ flags.C <=> 2 * (Get(x.er, y.i.d) * m + Get(x.er, x.i.d)) >= m * m
  BY DEF CarryMoves
<1> HIDE DEF Byte, Word, Long
<1>0. past # <<>>
  <2>1. past = <<>> => Len(past) = 0
    OBVIOUS
  <2> QED
    BY <2>1
<1>1. /\ Sound(x) /\ Sound(y)
      /\ y.er = Put(x.er, x.i.d, 2 * Get(x.er, x.i.d))
      /\ y.flags.C <=> TopBit(Get(x.er, x.i.d), x.i.w)
      /\ er = Put(y.er, y.i.d, 2 * Get(y.er, y.i.d) + Ones(y.flags.C))
      /\ flags.C <=> TopBit(Get(y.er, y.i.d), y.i.w)
  BY <1>0, LastTwo DEF JustRan, RanBefore, Did
<1>2. PICK w \in Widths, p \in Operands, q \in Operands :
        /\ w = x.i.w /\ w = y.i.w /\ p = x.i.d /\ q = y.i.d /\ p # q
        /\ WidthOf(p) = w /\ WidthOf(q) = w
  BY <1>1 DEF Sound, Decoded, NamesD, Unary
<1>3. PICK h \in Nat : h > 0 /\ m = 2 * h /\ m \in Nat /\ m = Mod(w) /\ h = m \div 2
  <2>1. PICK h \in Nat \ {0} : Mod(w) = 2 * h
    BY Sizes, SMT
  <2>2. Mod(w) \div 2 = h /\ Mod(w) \in Nat
    BY <2>1, SMT
  <2> QED
    BY <2>1, <2>2, <1>2
<1>4. PICK lo \in Nat, hi \in Nat : lo = Get(x.er, p) /\ hi = Get(x.er, q) /\ lo < m /\ hi < m
  <2>1. Get(x.er, p) \in Values(w) /\ Get(x.er, q) \in Values(w)
    BY <1>1, <1>2, PutGet DEF Sound
  <2>2. \A v \in 0 .. m - 1 : v \in Nat /\ v < m
    BY <1>3, SMT
  <2> QED
    BY <2>1, <2>2, <1>3 DEF Values
<1>5. PICK c : c = Ones(y.flags.C) /\ c = IF lo >= h THEN 1 ELSE 0
  BY <1>1, <1>2, <1>3, <1>4 DEF Ones, TopBit
<1>6. y.er \in Ers /\ Get(y.er, p) = (2 * lo) % m /\ Get(y.er, q) = hi
  <2>1. PICK v \in Int : v = 2 * lo
    BY SMT
  <2>2. x.er \in Ers /\ y.er = Put(x.er, p, v)
    BY <1>1, <1>2, <1>4, <2>1 DEF Sound
  <2>3. y.er \in Ers /\ Get(y.er, p) = v % Mod(w) /\ Get(y.er, q) = Get(x.er, q)
    BY <2>2, <1>2, PutGet
  <2> QED
    BY <2>1, <2>3, <1>3, <1>4
<1>7. Get(er, q) = (2 * hi + c) % m /\ Get(er, p) = (2 * lo) % m
  <2>1. PICK v \in Int : v = 2 * hi + c
    BY <1>5, SMT
  <2>2. er = Put(y.er, q, v)
    BY <1>1, <1>2, <1>5, <1>6, <2>1
  <2>3. Get(er, q) = v % Mod(w) /\ Get(er, p) = Get(y.er, p)
    BY <2>2, <1>2, <1>6, PutGet
  <2> QED
    BY <2>1, <2>3, <1>3, <1>6
<1>8. flags.C <=> hi >= h
  BY <1>1, <1>2, <1>3, <1>6 DEF TopBit
<1>9. /\ Doubles(m, lo, hi, c)
      /\ hi >= h <=> 2 * (hi * m + lo) >= m * m
  <2>1. /\ h \in Nat /\ m \in Nat /\ lo \in Nat /\ hi \in Nat
        /\ h > 0 /\ m = 2 * h /\ lo < m /\ hi < m /\ c \in {0, 1} /\ (c = 1 <=> lo >= h)
    BY <1>3, <1>4, <1>5
  <2> QED
    BY ONLY <2>1, DoubleWidth
<1> QED
  BY <1>2, <1>4, <1>7, <1>8, <1>9 DEF Doubles

\* A product by b, divided by b.
LEMMA Undone ==
  ASSUME NEW m \in Nat, m > 0, NEW a \in Nat, a < m, NEW b \in Nat, b < m, b # 0
  PROVE  /\ (b * a) % (m * m) = b * a
         /\ Quotient(b * a, b) = a
         /\ ((b * a) - (a * b)) % m = 0 /\ a % m = a
         /\ a % (m * m) = a
<1>1. b * a \in Nat /\ b * a < m * m /\ m * m \in Nat /\ m * m > 0 /\ a < m * m
  <2>1. PICK k \in Nat, j \in Nat : m = a + 1 + k /\ m = b + 1 + j
    <3>1. m - (a + 1) \in Nat /\ m = a + 1 + (m - (a + 1)) /\ m - (b + 1) \in Nat /\ m = b + 1 + (m - (b + 1))
      BY SMT
    <3> QED
      BY <3>1
  <2>2. m * m = b * a + b * (1 + k) + (1 + j) * m
    BY <2>1, SMT
  <2>3. b * a \in Nat /\ b * (1 + k) \in Nat /\ (1 + j) * m \in Nat /\ (1 + j) * m >= m
    BY SMT
  <2>4. m * m >= m
    BY SMT
  <2> QED
    BY <2>2, <2>3, <2>4, SMT
<1>2. (b * a) % (m * m) = b * a /\ a % (m * m) = a /\ a % m = a
  BY <1>1, SmallRemainder
<1>3. (b * a) \div b = a
  <2>1. b * a = a * b + 0 /\ b > 0
    BY SMT
  <2> QED
    BY <2>1, Digits, SMT
<1>4. Abs(b * a) = b * a /\ Abs(b) = b /\ ~(b * a < 0) /\ ~(b < 0)
  BY <1>1, SMT DEF Abs
<1>5. Quotient(b * a, b) = a
  BY <1>3, <1>4 DEF Quotient
<1>6. (b * a) - (a * b) = 0 /\ 0 % m = 0
  BY SMT
<1> QED
  BY <1>2, <1>5, <1>6

\* The invariant gives DivisionUndoes.
LEMMA DivisionHolds == CpuInv => DivisionUndoes
<1> SUFFICES ASSUME CpuInv, Len(past) >= 2, NEW x, x = Ran(2), NEW y, y = Ran(1),
                    x.i.op = "MULXU", y.i.op = "DIVXU",
                    y.i.w = x.i.w, y.i.s = x.i.s, y.i.d = x.i.d,
                    x.i.s.n # x.i.d.n, Get(x.er, x.i.s) # 0
             PROVE  Get(er, x.i.d) = Get(x.er, x.i.d) % Mod(x.i.w)
  BY DEF DivisionUndoes
<1> HIDE DEF Byte, Word, Long
<1>0. past # <<>>
  <2>1. past = <<>> => Len(past) = 0
    OBVIOUS
  <2> QED
    BY <2>1
<1>1. /\ Sound(x) /\ Sound(y)
      /\ y.er = Put(x.er, x.i.d, Get(x.er, x.i.s) * (Get(x.er, x.i.d) % Mod(x.i.w)))
      /\ Did(y, er, flags)
  BY <1>0, LastTwo DEF JustRan, RanBefore, Did
<1>2. PICK w \in {"b", "w"}, s \in Operands, d \in Operands :
        /\ w = x.i.w /\ s = x.i.s /\ d = x.i.d /\ s.n # d.n
        /\ WidthOf(s) = w /\ WidthOf(d) = IF w = "b" THEN "w" ELSE "l"
  BY <1>1 DEF Sound, Decoded, NamesD, NamesS, Doubling, Widths
<1>3. PICK m \in Nat : m > 0 /\ m = Mod(w) /\ Mod(WidthOf(d)) = m * m
  BY <1>2, Mods, Numbers, SMT
<1>4. PICK b \in Nat : b = Get(x.er, s) /\ b < m /\ b # 0
  <2>1. Get(x.er, s) \in Values(w)
    BY <1>1, <1>2, PutGet DEF Sound
  <2>2. \A v \in 0 .. m - 1 : v \in Nat /\ v < m
    BY <1>3, SMT
  <2> QED
    BY <2>1, <2>2, <1>2, <1>3 DEF Values
<1>5. PICK a \in Nat : a = Get(x.er, d) % m /\ a < m
  <2>1. Get(x.er, d) \in Values(WidthOf(d)) /\ WidthOf(d) \in Widths
    BY <1>1, PutGet, PartKinds DEF Sound
  <2>2. Get(x.er, d) \in Int
    BY <2>1, Mods DEF Values
  <2> QED
    BY <2>2, <1>3, Divide
<1>6. /\ (b * a) % (m * m) = b * a
      /\ Quotient(b * a, b) = a
      /\ ((b * a) - (a * b)) % m = 0 /\ a % m = a
      /\ a % (m * m) = a
  <2>1. m > 0 /\ a < m /\ b < m /\ b # 0
    BY <1>3, <1>4, <1>5
  <2> QED
    BY <2>1, Undone, Zenon
<1>7. y.er \in Ers /\ Get(y.er, d) = b * a /\ Get(y.er, s) = b
  <2>1. PICK v \in Int : v = b * a
    BY Products
  <2>2. x.er \in Ers /\ y.er = Put(x.er, d, v)
    BY <1>1, <1>2, <1>3, <1>4, <1>5, <2>1 DEF Sound
  <2>3. y.er \in Ers /\ Get(y.er, d) = v % Mod(WidthOf(d)) /\ Get(y.er, s) = Get(x.er, s)
    BY <2>2, <1>2, PutGet
  <2> QED
    BY <2>1, <2>3, <1>3, <1>4, <1>6
<1>8. er = Put(y.er, d, (m * (((b * a) - (a * b)) % m)) + (a % m))
  <2>1. LET old == Get(y.er, y.i.d)
            by == Get(y.er, y.i.s)
            q == Quotient(old, by)
        IN by # 0 => er = Put(y.er, y.i.d, (Mod(y.i.w) * ((old - (q * by)) % Mod(y.i.w))) + (q % Mod(y.i.w)))
    BY <1>1 DEF Did
  <2>2. y.i.d = d /\ y.i.s = s /\ Mod(y.i.w) = m
    BY <1>2, <1>3
  <2> QED
    BY <2>1, <2>2, <1>4, <1>6, <1>7
<1>9. er = Put(y.er, d, a)
  <2>1. (m * 0) + a = a
    BY SMT
  <2> QED
    BY <2>1, <1>6, <1>8
<1>10. Get(er, d) = a
  <2>1. Get(er, d) = a % Mod(WidthOf(d))
    BY <1>7, <1>9, PutGet
  <2> QED
    BY <2>1, <1>3, <1>6
<1> QED
  BY <1>2, <1>3, <1>5, <1>10

\* The invariant gives BitReadsBack.
LEMMA BitHolds == CpuInv => BitReadsBack
<1> SUFFICES ASSUME CpuInv, Len(past) >= 2, NEW x, x = Ran(2), NEW y, y = Ran(1),
                    x.i.op \in Changes, y.i.op \in Tests,
                    <<x.i.mode, x.i.d, x.i.a, x.i.k>> = <<y.i.mode, y.i.d, y.i.a, y.i.k>>,
                    Kept(x.i), x.i.op = "BST" => x.i.mode # "reg"
             PROVE  (IF y.i.op = "BLD" THEN flags.C ELSE ~flags.Z) = Meant(x)
  BY DEF BitReadsBack, Changes, Tests, Kept, Meant
<1> HIDE DEF Byte, Word, Long
<1>0. past # <<>>
  <2>1. past = <<>> => Len(past) = 0
    OBVIOUS
  <2> QED
    BY <2>1
<1>1. Sound(x) /\ Sound(y) /\ Stored(x, y.er, memory) /\ Tested(y, flags, memory)
  BY <1>0, LastTwo DEF JustRan, RanBefore
<1>2. y.i.mode = x.i.mode /\ y.i.d = x.i.d /\ y.i.a = x.i.a /\ y.i.k = x.i.k
  OBVIOUS
<1>3. PICK v : v = IF y.i.mode = "reg" THEN Get(y.er, y.i.d) ELSE Peek(memory, Cell(y.i, y.er), "b")
  OBVIOUS
<1>4. PICK c \in BOOLEAN : c = Meant(x)
  BY DEF Meant
<1>5. PICK b \in BOOLEAN : b = Has(v, y.i.k)
  BY DEF Has
<1>6. b = c
  <2>1. CASE x.i.mode = "reg"
    BY <2>1, <1>1, <1>2, <1>3, <1>4, <1>5 DEF Stored
  <2>2. CASE x.i.mode # "reg"
    <3>1. Cell(y.i, y.er) = Cell(x.i, y.er)
      BY <1>2 DEF Cell
    <3> QED
      BY <2>2, <3>1, <1>1, <1>2, <1>3, <1>4, <1>5 DEF Stored
  <2> QED
    BY <2>1, <2>2
<1>7. flags.C \in BOOLEAN /\ flags.Z \in BOOLEAN
  BY DEF CpuInv, StateTyped, Flags
<1>8. (y.i.op = "BTST" => (flags.Z <=> ~b)) /\ (y.i.op = "BLD" => (flags.C <=> b))
  BY <1>1, <1>3, <1>5 DEF Tested
<1> QED
  BY <1>4, <1>6, <1>7, <1>8 DEF Tests

\* A number added to another moves its remainder unless it has none itself.
LEMMA OtherPlace ==
  ASSUME NEW m \in Nat, m > 0, NEW a \in Int, NEW k \in Int
  PROVE  (a + k) % m = a % m <=> k % m = 0
<1>1. PICK p \in Int, r \in Int : a = p * m + r /\ 0 <= r /\ r < m /\ r = a % m
  <2>1. a \div m \in Int /\ a % m \in Int /\ 0 <= a % m /\ a % m < m /\ a = (a \div m) * m + (a % m)
    BY Divide
  <2> QED BY <2>1
<1>2. PICK q \in Int, s \in Int : k = q * m + s /\ 0 <= s /\ s < m /\ s = k % m
  <2>1. k \div m \in Int /\ k % m \in Int /\ 0 <= k % m /\ k % m < m /\ k = (k \div m) * m + (k % m)
    BY Divide
  <2> QED BY <2>1
<1>3. (p + q) * m = p * m + q * m /\ (p + q + 1) * m = p * m + q * m + m /\ p * m \in Int /\ q * m \in Int
  BY SMT
<1>4. CASE r + s < m
  <2>1. a + k = (p + q) * m + (r + s)
    BY <1>1, <1>2, <1>3, SMT
  <2>2. (a + k) % m = r + s
    BY <2>1, <1>1, <1>2, <1>4, Digits, SMT
  <2> QED
    BY <2>2, <1>1, <1>2, SMT
<1>5. CASE r + s >= m
  <2>1. a + k = (p + q + 1) * m + (r + s - m)
    BY <1>1, <1>2, <1>3, SMT
  <2>2. PICK c \in Int, d \in Int : c = p + q + 1 /\ d = r + s - m /\ 0 <= d /\ d < m
    <3>1. p + q + 1 \in Int /\ r + s - m \in Int /\ 0 <= r + s - m /\ r + s - m < m
      BY <1>1, <1>2, <1>5, SMT
    <3> QED BY <3>1
  <2>3. (c * m + d) % m = d
    BY <2>2, Digits
  <2>4. (a + k) % m = r + s - m
    BY <2>1, <2>2, <2>3
  <2> QED
    BY <2>4, <1>1, <1>2, <1>5, SMT
<1> QED
  BY <1>1, <1>2, <1>4, <1>5, SMT

\* A displacement that is sign extended is the same one modulo a word.
LEMMA ExtendedSame ==
  ASSUME NEW k \in Int
  PROVE  Extended(k) \in Int /\ Extended(k) % Word = k % Word
<1> HIDE DEF Byte, Word, Long
<1>1. Extended(k) = IF Negative(k, "w") THEN k - Word ELSE k
  BY Mods DEF Extended, Signed
<1>2. PICK j \in Int : j = - Word
  BY Numbers, SMT
<1>3. k - Word = k + j /\ j % Word = 0
  <2>1. j = (-1) * Word + 0
    BY <1>2, Numbers, SMT
  <2>2. Word \in Nat /\ Word > 0
    BY Numbers, SMT
  <2>3. ((-1) * Word + 0) % Word = 0
    BY <2>2, Digits, SMT
  <2> QED
    BY <1>2, <2>1, <2>3, Numbers, SMT
<1>4. (k + j) % Word = k % Word
  <2>1. PICK q \in Int, s \in Int : k = q * Word + s /\ 0 <= s /\ s < Word /\ s = k % Word
    <3>1. Word \in Nat /\ Word > 0
      BY Numbers, SMT
    <3>2. k \div Word \in Int /\ k % Word \in Int /\ 0 <= k % Word /\ k % Word < Word
          /\ k = (k \div Word) * Word + (k % Word)
      BY <3>1, Divide
    <3> QED BY <3>2
  <2>2. PICK c \in Int : c = q - 1
    BY SMT
  <2>3. k + j = c * Word + s /\ Word \in Nat /\ Word > 0
    BY <2>1, <2>2, <1>2, Numbers, SMT
  <2>4. (c * Word + s) % Word = s
    BY <2>1, <2>3, Digits
  <2> QED
    BY <2>1, <2>3, <2>4
<1> QED
  BY <1>1, <1>2, <1>3, <1>4

\* A step of a branch goes where the order of the operands says.
LEMMA BranchHolds == CpuInv /\ Next => BranchGoes
<1> SUFFICES ASSUME CpuInv, Next, NEW b, b = rom[pc], NEW x, x = Ran(1),
                    NEW n, n = IF b.mode = "d8" THEN 2 ELSE 4,
                    NEW old, old = Get(x.er, x.i.d),
                    b.op \in Orders, past # <<>>, b.k % Word # 0
             PROVE  /\ x.i.op \in {"CMP", "SUB"} =>
                         (pc' # (pc + n) % Word <=> Ordered(b.op, old, Operand(x), x.i.w))
                    /\ x.i.op = "DEC" /\ b.op \in {"BEQ", "BNE"} =>
                         (pc' # (pc + n) % Word <=> Ordered(b.op, old, x.i.k, x.i.w))
  BY DEF BranchGoes
<1> HIDE DEF Byte, Word, Long
<1>1. Sound(x) /\ Did(x, er, flags)
  BY LastTwo DEF JustRan
<1>2. Acts(b) /\ Decoded(b) /\ b.k \in Int /\ pc \in Nat
  <2>1. Acts(b) /\ pc \in DOMAIN rom
    BY DEF Next, Acts
  <2>2. Decoded(b) /\ pc \in Nat
    BY <2>1 DEF CpuInv
  <2> QED
    BY <2>1, <2>2, Shapes
<1>3. Branch8(b) \/ Branch16(b)
  BY <1>2, Which DEF Orders
<1>4. PICK k \in Int : /\ k % Word # 0 /\ n \in Nat
                       /\ pc' = IF Taken(b.op, flags) THEN (pc + (n + k)) % Word ELSE (pc + n) % Word
  <2>1. CASE Branch8(b)
    <3>1. pc' = (pc + (IF Taken(b.op, flags) THEN 2 + b.k ELSE 2)) % Word /\ n = 2
      BY <2>1 DEF Branch8, Advance
    <3> QED
      BY <3>1, <1>2
  <2>2. CASE Branch16(b)
    <3>1. pc' = (pc + (IF Taken(b.op, flags) THEN 4 + Extended(b.k) ELSE 4)) % Word /\ n = 4
      BY <2>2 DEF Branch16, Advance
    <3>2. Extended(b.k) \in Int /\ Extended(b.k) % Word # 0
      BY <1>2, ExtendedSame
    <3> QED
      BY <3>1, <3>2
  <2> QED
    BY <1>3, <2>1, <2>2
<1>5. pc' # (pc + n) % Word <=> Taken(b.op, flags)
  <2>1. PICK a \in Int : a = pc + n
    BY <1>2, <1>4, SMT
  <2>2. pc + (n + k) = a + k
    BY <2>1, <1>2, <1>4, SMT
  <2>3. Word \in Nat /\ Word > 0
    BY Numbers, SMT
  <2>4. (a + k) % Word # a % Word
    BY <2>3, <1>4, OtherPlace
  <2> QED
    BY <2>1, <2>2, <2>4, <1>4
<1>6. ASSUME x.i.op \in {"CMP", "SUB"}
      PROVE  Taken(b.op, flags) <=> Ordered(b.op, old, Operand(x), x.i.w)
  <2>1. flags = SetFlagsSUB(x.flags, old, Operand(x), x.i.w) /\ x.i.mode \in {"imm", "reg"}
    BY <1>1, <1>6 DEF Did
  <2>2. /\ x.flags \in Flags /\ x.er \in Ers /\ x.i.w \in Widths
        /\ x.i.d \in Operands /\ WidthOf(x.i.d) = x.i.w
        /\ x.i.mode = "imm" => x.i.k \in Values(x.i.w)
        /\ x.i.mode = "reg" => x.i.s \in Operands /\ WidthOf(x.i.s) = x.i.w
    BY <1>1, <1>6 DEF Sound, Decoded, NamesD, NamesS, Binary
  <2>3. old \in Values(x.i.w)
    BY <2>2, PutGet
  <2>4. Operand(x) \in Values(x.i.w)
    <3>1. CASE x.i.mode = "imm"
      BY <3>1, <2>2 DEF Operand
    <3>2. CASE x.i.mode = "reg"
      <4>1. Get(x.er, x.i.s) \in Values(WidthOf(x.i.s))
        BY <3>2, <2>2, PutGet
      <4> QED
        BY <3>2, <4>1, <2>2 DEF Operand
    <3> QED
      BY <2>1, <3>1, <3>2
  <2> QED
    BY <2>1, <2>2, <2>3, <2>4, CompareDecides
<1>7. ASSUME x.i.op = "DEC", b.op \in {"BEQ", "BNE"}
      PROVE  Taken(b.op, flags) <=> Ordered(b.op, old, x.i.k, x.i.w)
  <2>1. flags = SetFlagsINC(x.flags, old, Long - x.i.k, x.i.w)
    BY <1>1, <1>7 DEF Did
  <2>2. x.flags \in Flags /\ x.er \in Ers /\ x.i.w \in Widths /\ x.i.d \in Operands
        /\ WidthOf(x.i.d) = x.i.w /\ x.i.k \in {1, 2}
    BY <1>1, <1>7 DEF Sound, Decoded, NamesD, Unary
  <2>3. old \in Nat /\ old < Long
    <3>1. old \in Values(x.i.w)
      BY <2>2, PutGet
    <3>2. Mod(x.i.w) \in Nat /\ Mod(x.i.w) <= Long
      BY <2>2, Sizes
    <3> QED
      BY <3>1, <3>2, Numbers, SMT DEF Values
  <2>4. PICK z \in BOOLEAN : z = (((old + (Long - x.i.k)) % Long) = 0)
    OBVIOUS
  <2>5. flags.Z = z
    BY <2>1, <2>2, <2>4 DEF SetFlagsINC, Flags
  <2>6. z <=> old = x.i.k
    <3>1. PICK q \in Int : q = x.i.k /\ q \in {1, 2}
      BY <2>2
    <3>2. Long >= 4 /\ Long \in Nat
      BY Numbers, SMT
    <3>3. CASE old < q
      <4>1. old + (Long - q) \in Nat /\ old + (Long - q) < Long /\ old + (Long - q) # 0
        BY <3>1, <3>2, <3>3, <2>3, SMT
      <4>2. (old + (Long - q)) % Long = old + (Long - q)
        BY <4>1, <3>2, SmallRemainder, SMT
      <4>3. ~z
        BY <4>1, <4>2, <3>1, <2>4
      <4>4. old # q
        BY <3>1, <3>3, <2>3, SMT
      <4> QED
        BY <4>3, <4>4, <3>1
    <3>4. CASE old >= q
      <4>1. PICK d \in Nat : d = old - q
        BY <3>1, <3>4, <2>3, SMT
      <4>2. old + (Long - q) = 1 * Long + d /\ d < Long
        BY <4>1, <3>1, <3>2, <2>3, SMT
      <4>3. (1 * Long + d) % Long = d
        BY <4>2, <3>2, Digits, SMT
      <4>4. z = (d = 0)
        BY <4>2, <4>3, <2>4, <3>1
      <4>5. d = 0 <=> old = q
        BY <4>1, <3>1, <2>3, SMT
      <4> QED
        BY <4>4, <4>5, <3>1
    <3> QED
      BY <3>1, <3>3, <3>4, <2>3, SMT
  <2>7. CASE b.op = "BEQ"
    BY <2>5, <2>6, <2>7 DEF Taken, Ordered
  <2>8. CASE b.op = "BNE"
    BY <2>5, <2>6, <2>8 DEF Taken, Ordered
  <2> QED
    BY <1>7, <2>7, <2>8
<1> QED
  BY <1>5, <1>6, <1>7

\* SHLL on the low half and ROTXL on the high half double a number of twice the
\* width, for every width, register and value.  (SHLL, ROTXL)
THEOREM CarriesMove == Spec => []CarryMoves
<1> QED
  BY CpuInvariant, CarryHolds, PTL

\* DIVXU gives back what MULXU by the same register multiplied, unless that
\* register is zero or a part of the product.  (MULXU, DIVXU)
THEOREM DivisionsUndo == Spec => []DivisionUndoes
<1> QED
  BY CpuInvariant, DivisionHolds, PTL

\* A bit named by the opcode that was set or cleared in a register or in memory,
\* or stored in memory, is the bit that is then tested or loaded from the same
\* place.  (BSET, BCLR, BST, BTST, BLD)
THEOREM BitsReadBack == Spec => []BitReadsBack
<1> QED
  BY CpuInvariant, BitHolds, PTL

\* A branch behind a comparison, a subtraction or a DEC goes where the order of
\* the operands says, at every width.  (setFlagsSUB, setFlagsINC, Bcc)
THEOREM BranchesDecide == Spec => BranchDecides
<1>1. CpuInv /\ [Next]_vars => [BranchGoes]_vars
  BY BranchHolds
<1> QED
  BY <1>1, CpuInvariant, PTL DEF Spec, BranchDecides
=============================================================================
