----------------------------- MODULE LegacyAlu -----------------------------
(***************************************************************************)
(* The arithmetic of the legacy core (src/src/walker.c): the operand       *)
(* widths, the condition flags each group of instructions sets, and the    *)
(* conditions the branches test.                                           *)
(*                                                                         *)
(* The code computes on nibbles of 16 values; here the number of values of *)
(* a nibble is a parameter, and bytes, words and longs follow from it, so  *)
(* that TLC covers every operand of a small machine and the proofs in      *)
(* LegacyCpuProofs cover the real one.  A uint32_t of the code is a number *)
(* modulo Long.                                                            *)
(***************************************************************************)
EXTENDS Integers

CONSTANT Nibble

ASSUME NibbleAssumption == Nibble \in Nat \ {0} /\ Nibble % 2 = 0

Byte == Nibble * Nibble
Word == Byte * Byte
Long == Word * Word

Widths == {"b", "w", "l"}

\* The values an operand of each width has (maxValue + 1).
Mod(w) == CASE w = "b" -> Byte [] w = "w" -> Word [] w = "l" -> Long
Values(w) == 0 .. Mod(w) - 1

\* The part below the half carry (maxValueLo + 1) and the bit that is tested
\* for it: in a byte it is the top bit of the nibble, elsewhere the next bit.
Low(w) == CASE w = "b" -> Nibble [] w = "w" -> Byte [] w = "l" -> Word
HalfCarryFlag(w) == IF w = "b" THEN Nibble \div 2 ELSE Low(w)

\* The negativeFlag bit of a uint32_t, and the operand read as signed.
Negative(v, w) == (v % Mod(w)) >= (Mod(w) \div 2)
Signed(v, w) == IF Negative(v, w) THEN v - Mod(w) ELSE v

\* The operators &, | and ^ of C on two numbers below Long, by their halves
\* down to the nibbles, which have at most four bits.
AndNibble(x, y) ==
  LET both(p) == p * ((x \div p) % 2) * ((y \div p) % 2)
  IN both(1) + both(2) + both(4) + both(8)
AndByte(x, y) ==
  Nibble * AndNibble(x \div Nibble, y \div Nibble) + AndNibble(x % Nibble, y % Nibble)
AndWord(x, y) == Byte * AndByte(x \div Byte, y \div Byte) + AndByte(x % Byte, y % Byte)
And(x, y) == Word * AndWord(x \div Word, y \div Word) + AndWord(x % Word, y % Word)
Or(x, y) == x + y - And(x, y)
Xor(x, y) == x + y - 2 * And(x, y)

-----------------------------------------------------------------------------
\* Flags after an addition.  The carry is set only when the first operand is
\* negative, the second is not and the sum is not.
SetFlagsADD(f, v1, v2, w) ==
  [f EXCEPT !.Z = ((v1 + v2) % Mod(w)) = 0,
            !.N = Negative(v1 + v2, w),
            !.V = /\ Negative(v1, w) = Negative(v2, w)
                  /\ Negative(v1 + v2, w) # Negative(v1, w),
            !.C = Negative(v1, w) /\ ~Negative(v2, w) /\ ~Negative(v1 + v2, w),
            !.H = (((v1 % Low(w)) + (v2 % Low(w))) \div HalfCarryFlag(w)) % 2 = 1]

\* The mistake of an overflow that is only seen on positive operands.
SetFlagsSUBHalfOverflow(f, v1, v2, w) ==
  [f EXCEPT !.Z = ((v1 - v2) % Long) = 0,
            !.N = Negative(v1 - v2, w),
            !.V = ~Negative(v1, w) /\ Negative(v2, w) /\ Negative(v1 - v2, w),
            !.C = v2 > v1]

\* Flags after a subtraction or a comparison.
SetFlagsSUB(f, v1, v2, w) ==
  [f EXCEPT !.Z = ((v1 - v2) % Long) = 0,
            !.N = Negative(v1 - v2, w),
            !.V = /\ Negative(v1, w) # Negative(v2, w)
                  /\ Negative(v1 - v2, w) = Negative(v2, w),
            !.C = v2 > v1,
            !.H = (v2 % Low(w)) > (v1 % Low(w))]

\* Flags after INC and DEC: the zero flag looks at the sum in 32 bits.
SetFlagsINC(f, v1, v2, w) ==
  [f EXCEPT !.Z = ((v1 + v2) % Long) = 0,
            !.N = Negative(v1 + v2, w),
            !.V = /\ Negative(v1, w) = Negative(v2, w)
                  /\ Negative(v1 + v2, w) # Negative(v1, w)]

SetFlagsMOV(f, v, w) ==
  [f EXCEPT !.V = FALSE, !.Z = (v = 0), !.N = Negative(v, w)]

-----------------------------------------------------------------------------
Conditions == {"BRA", "BHI", "BLS", "BCC", "BCS", "BNE", "BEQ", "BVC", "BVS",
               "BPL", "BMI", "BGE", "BLT", "BGT", "BLE"}

\* The tests of the conditional branches.
Taken(c, f) ==
  CASE c = "BRA" -> TRUE
    [] c = "BHI" -> ~(f.C \/ f.Z)    [] c = "BLS" -> f.C \/ f.Z
    [] c = "BCC" -> ~f.C             [] c = "BCS" -> f.C
    [] c = "BNE" -> ~f.Z             [] c = "BEQ" -> f.Z
    [] c = "BVC" -> ~f.V             [] c = "BVS" -> f.V
    [] c = "BPL" -> ~f.N             [] c = "BMI" -> f.N
    [] c = "BGE" -> f.N = f.V        [] c = "BLT" -> f.N # f.V
    [] c = "BGT" -> ~(f.Z \/ f.N # f.V)
    [] c = "BLE" -> f.Z \/ f.N # f.V

\* What a program means by the branch that follows a comparison of a with b:
\* an unsigned or a signed order, or equality.
Orders == Conditions \ {"BRA", "BVC", "BVS", "BPL", "BMI"}
Ordered(c, a, b, w) ==
  CASE c = "BHI" -> a > b            [] c = "BLS" -> a <= b
    [] c = "BCC" -> a >= b           [] c = "BCS" -> a < b
    [] c = "BNE" -> a # b            [] c = "BEQ" -> a = b
    [] c = "BGE" -> Signed(a, w) >= Signed(b, w)
    [] c = "BLT" -> Signed(a, w) < Signed(b, w)
    [] c = "BGT" -> Signed(a, w) > Signed(b, w)
    [] c = "BLE" -> Signed(a, w) <= Signed(b, w)
=============================================================================
