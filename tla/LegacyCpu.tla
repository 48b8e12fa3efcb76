----------------------------- MODULE LegacyCpu -----------------------------
(***************************************************************************)
(* The instructions of the legacy core: the switch of runNextInstruction   *)
(* in src/src/walker.c.  One action stands for one case, or for cases that *)
(* differ in the operand width alone.                                      *)
(*                                                                         *)
(* An instruction is a record of what the nibbles a, b, c ... of its       *)
(* opcode say: the operation op, its width w, how it addresses memory      *)
(* (mode), its registers s and d and its number k (an immediate, an        *)
(* address, a displacement or a bit).  The program is the function rom     *)
(* from the addresses of the instructions to the instructions; data is in  *)
(* memory, which has Word cells, as the code masks every address to 16     *)
(* bits.  What a register of a device does when it is read or written is   *)
(* in LegacyBus.                                                           *)
(***************************************************************************)
EXTENDS LegacyAlu, Sequences

CONSTANTS Regs,        \* the registers ER0 to ER7 that are used, 7 is SP
          Starts       \* the programs that are run, and what the registers hold

VARIABLES
  rom,       \* the program: address |-> instruction
  er,        \* ER[0..7], the 32 bits of which R, E, RH and RL are parts
  flags,     \* flags
  pc,        \* pc, a uint16_t
  memory,    \* memory
  sleep,     \* sleep
  stopped,   \* runNextInstruction returned 1, or a division trapped
  past,      \* history: the last two instructions and what they found
  frames     \* history: what is on the stack, the last pushed first

vars == <<rom, er, flags, pc, memory, sleep, stopped, past, frames>>

SP == 7

\* A register operand: the number of a register and the part that is meant.
Part(n, p) == [n |-> n, p |-> p]
NoReg == [n |-> 0, p |-> "none"]
WidthOf(x) == CASE x.p \in {"l", "h"} -> "b" [] x.p \in {"r", "e"} -> "w"
                [] x.p = "er" -> "l"
Bytes(w) == CASE w = "b" -> 1 [] w = "w" -> 2 [] w = "l" -> 4

\* *getRegRef8(x).ptr, *getRegRef16(x).ptr and *getRegRef32(x).ptr: read ...
Get(r, x) == CASE x.p = "l" -> r[x.n] % Byte
               [] x.p = "h" -> (r[x.n] \div Byte) % Byte
               [] x.p = "r" -> r[x.n] % Word
               [] x.p = "e" -> r[x.n] \div Word
               [] x.p = "er" -> r[x.n]

\* ... and assigned: the value is cut to the width, the rest is kept.
Put(r, x, value) ==
  LET v == value % Mod(WidthOf(x))
      unit == CASE x.p = "h" -> Byte [] x.p = "e" -> Word [] OTHER -> 1
  IN [r EXCEPT ![x.n] = @ + (v - Get(r, x)) * unit]

\* getMemory8, getMemory16, getMemory32: big-endian, at 16-bit addresses.
Peek(m, a, w) ==
  LET at(j) == m[(a + j) % Word]
  IN CASE w = "b" -> at(0)
       [] w = "w" -> at(0) * Byte + at(1)
       [] w = "l" -> (at(0) * Byte + at(1)) * Word + at(2) * Byte + at(3)

\* setMemory8, setMemory16, setMemory32: the last byte is the lowest.
Unit(n) == CASE n = 0 -> 1 [] n = 1 -> Byte [] n = 2 -> Word [] n = 3 -> Byte * Word
Poke(m, a, w, v) ==
  [x \in DOMAIN m |->
     LET j == (x - a) % Word
     IN IF j < Bytes(w) THEN (v \div Unit(Bytes(w) - 1 - j)) % Byte ELSE m[x]]

\* disp & 0x8000: a 16-bit displacement is sign extended.
Extended(k) == Signed(k, "w")

-----------------------------------------------------------------------------
\* What the nibbles of an opcode can say: which instructions name a register
\* in d and in s, and of which part.
Operands == [n : Regs, p : {"l", "h", "r", "e", "er"}]
Binary == {"MOV", "OR", "XOR", "AND", "ADD", "SUB", "CMP"}
Unary == {"INC", "DEC", "ADDS", "SUBS", "SUBX", "SHLL", "SHAL", "SHLR", "SHAR", "ROTXL", "ROTL",
          "NOT", "EXTU", "EXTS", "NEG"}
Doubling == {"MULXU", "MULXS", "DIVXU", "DIVXS"}
OnBits == {"BSET", "BCLR", "BNOT", "BST", "BLD", "BTST"}
Absolute == {"aa8", "aa16"}

NamesD(i) ==
  \/ i.op \in Binary \union Unary \union Doubling \union {"LOAD"}
  \/ i.op \in OnBits \union {"STORE"} /\ i.mode \notin Absolute
NamesS(i) ==
  \/ i.op \in Doubling \union {"SUBX", "STORE"}
  \/ i.op \in Binary /\ i.mode = "reg"
  \/ i.op = "LOAD" /\ i.mode \notin Absolute
  \/ i.op \in {"JMP", "JSR"} /\ i.mode = "@R"
  \/ i.op = "LDC" /\ i.w = "b" /\ i.mode # "imm"

Decoded(i) ==
  /\ i.w \in Widths /\ i.k \in Int /\ i.a \in Nat
  /\ {i.s, i.d} \subseteq Operands \union {NoReg}
  /\ NamesD(i) => i.d \in Operands
  /\ NamesS(i) => i.s \in Operands
  /\ i.op \in Binary \union Unary => WidthOf(i.d) = i.w
  /\ i.op \in Binary => IF i.mode = "imm" THEN i.k \in Values(i.w) ELSE WidthOf(i.s) = i.w
  /\ i.op = "DEC" => i.k \in {1, 2}
  /\ i.op \in Doubling => /\ i.w # "l" /\ WidthOf(i.s) = i.w
                          /\ WidthOf(i.d) = IF i.w = "b" THEN "w" ELSE "l"
  /\ i.op \in OnBits => i.k \in Nat /\ (i.mode = "reg" => WidthOf(i.d) = "b")

\* A nibble has one to four bits, and the programs consist of instructions.
ASSUME CpuAssumption ==
  /\ Nibble \in {2, 4, 8, 16} /\ SP \in Regs
  /\ \A start \in Starts :
       /\ start.registers \subseteq [Regs -> 0 .. Long - 1]
       /\ \A program \in start.programs : \A a \in DOMAIN program : Decoded(program[a])

-----------------------------------------------------------------------------
NoFlags == [C |-> FALSE, V |-> FALSE, Z |-> FALSE, N |-> FALSE, H |-> FALSE,
            I |-> FALSE]

Init ==
  /\ \E start \in Starts : rom \in start.programs /\ er \in start.registers
  /\ flags = NoFlags
  /\ pc = 0
  /\ memory = [a \in 0 .. Word - 1 |-> 0]
  /\ sleep = FALSE
  /\ stopped = FALSE
  /\ past = <<>>
  /\ frames = <<>>

\* pc moves over the words that were read.
Advance(n) == pc' = (pc + n) % Word

\* An instruction that leaves a value in its register d, or only flags.
Result(i, v, f) == er' = Put(er, i.d, v) /\ flags' = f /\ UNCHANGED memory
OnlyFlags(f) == flags' = f /\ UNCHANGED <<er, memory>>

\* MOV from memory at address a, and to it.
Load(i, a) == LET v == Peek(memory, a, i.w)
              IN Result(i, v, SetFlagsMOV(flags, v, i.w))
Store(i, a) == LET v == Get(er, i.s)
               IN /\ memory' = Poke(memory, a, i.w, v)
                  /\ flags' = SetFlagsMOV(flags, v, i.w)
                  /\ UNCHANGED er

\* MOV @ERs+, Rd: the pointer moves before the value arrives, so a register
\* loaded through itself keeps the value.
LoadIncrement(i) ==
  LET v == Peek(memory, er[i.s.n], i.w)
  IN /\ er' = Put(Put(er, i.s, er[i.s.n] + Bytes(i.w)), i.d, v)
     /\ flags' = SetFlagsMOV(flags, v, i.w)
     /\ UNCHANGED memory

\* MOV Rs, @-ERd for words and longs: the pointer moves before the value is
\* read.
StoreDecrement(i) ==
  LET r == Put(er, i.d, er[i.d.n] - Bytes(i.w))
      v == Get(r, i.s)
  IN /\ er' = r
     /\ memory' = Poke(memory, r[i.d.n], i.w, v)
     /\ flags' = SetFlagsMOV(flags, v, i.w)

-----------------------------------------------------------------------------
\* What the cases with two operands do to d with the value v.
Operate(i, v) ==
  LET old == Get(er, i.d)
      Logic(x) == Result(i, x, SetFlagsMOV(flags, x, i.w))
  IN \/ i.op = "MOV" /\ Logic(v)
     \/ i.op = "OR" /\ Logic(Or(old, v))
     \/ i.op = "XOR" /\ Logic(Xor(old, v))
     \/ i.op = "AND" /\ Logic(And(old, v))
     \/ i.op = "ADD" /\ Result(i, old + v, SetFlagsADD(flags, old, v, i.w))
     \/ i.op = "SUB" /\ Result(i, old - v, SetFlagsSUB(flags, old, v, i.w))
     \/ i.op = "CMP" /\ OnlyFlags(SetFlagsSUB(flags, old, v, i.w))

\* XXX.B #xx:8, Rd
ByteImmediate(i) ==
  /\ i.mode = "imm" /\ i.w = "b" /\ i.op # "SUB"
  /\ Operate(i, i.k)
  /\ Advance(2)

\* XXX.W #xx:16, Rd
WordImmediate(i) ==
  /\ i.mode = "imm" /\ i.w = "w"
  /\ Operate(i, i.k)
  /\ Advance(4)

\* XXX.L #xx:32, ERd
LongImmediate(i) ==
  /\ i.mode = "imm" /\ i.w = "l"
  /\ Operate(i, i.k)
  /\ Advance(6)

Register(i) == i.mode = "reg" /\ Operate(i, Get(er, i.s))

AddRegister(i) == i.op = "ADD" /\ Register(i) /\ Advance(2)
MoveRegister(i) == i.op = "MOV" /\ Register(i) /\ Advance(2)
SubRegister(i) == i.op = "SUB" /\ Register(i) /\ Advance(2)
CompareRegister(i) == i.op = "CMP" /\ Register(i) /\ Advance(2)

Logical == {"OR", "XOR", "AND"}
LogicByte(i) == i.op \in Logical /\ i.w = "b" /\ Register(i) /\ Advance(2)
LogicWord(i) == i.op \in Logical /\ i.w = "w" /\ Register(i) /\ Advance(2)
LogicLong(i) == i.op \in Logical /\ i.w = "l" /\ Register(i) /\ Advance(4)

\* INC and DEC by 1 or 2: a DEC adds the negated number.
Increment(i) ==
  /\ i.op = "INC"
  /\ Result(i, Get(er, i.d) + i.k, SetFlagsINC(flags, Get(er, i.d), i.k, i.w))
  /\ Advance(2)
Decrement(i) ==
  /\ i.op = "DEC"
  /\ Result(i, Get(er, i.d) - i.k, SetFlagsINC(flags, Get(er, i.d), Long - i.k, i.w))
  /\ Advance(2)

\* ADDS and SUBS: no flags.
AddAddress(i) == i.op = "ADDS" /\ Result(i, Get(er, i.d) + i.k, flags) /\ Advance(2)
SubAddress(i) == i.op = "SUBS" /\ Result(i, Get(er, i.d) - i.k, flags) /\ Advance(2)

\* SUBX takes the borrow of the comparison with the operand and the old
\* borrow, and subtracts that new borrow.
SubExtended(i) ==
  LET old == Get(er, i.d)
      v == Get(er, i.s)
      f == SetFlagsSUB(flags, old, v + (IF flags.C THEN 1 ELSE 0), "b")
  IN /\ i.op = "SUBX"
     /\ Result(i, old - v - (IF f.C THEN 1 ELSE 0), f)
     /\ Advance(2)

-----------------------------------------------------------------------------
Ones(c) == IF c THEN 1 ELSE 0
TopBit(v, w) == v >= Mod(w) \div 2

\* The value and the carry that a shift leaves.
Shift(i, v, carry) ==
  Result(i, v, [SetFlagsMOV(flags, v % Mod(i.w), i.w) EXCEPT !.C = carry])

ShiftLeft(i) ==
  /\ i.op = "SHLL"
  /\ Shift(i, 2 * Get(er, i.d), TopBit(Get(er, i.d), i.w))
  /\ Advance(2)

\* SHAL: the overflow flag is set only when a negative value becomes
\* positive.
ShiftArithmeticLeft(i) ==
  LET v == Get(er, i.d)
      moved == (2 * v) % Mod(i.w)
      c == TopBit(v, i.w)
  IN /\ i.op = "SHAL"
     /\ Result(i, moved, [SetFlagsMOV(flags, moved, i.w) EXCEPT
                            !.C = c, !.V = c /\ ~TopBit(moved, i.w)])
     /\ Advance(2)

\* SHLR and SHAR: SHAR keeps the top bit.
ShiftRight(i) ==
  LET v == Get(er, i.d)
      top == IF i.op = "SHAR" /\ TopBit(v, i.w) THEN Mod(i.w) \div 2 ELSE 0
  IN /\ i.op \in {"SHLR", "SHAR"}
     /\ i.op = "SHAR" => i.w # "b"
     /\ Shift(i, v \div 2 + top, v % 2 = 1)
     /\ Advance(2)

\* The mistake of rotating in the carry that has just left.
RotateNewCarry(i) ==
  LET v == Get(er, i.d)
      c == TopBit(v, i.w)
  IN /\ i.op \in {"ROTXL", "ROTL"}
     /\ Shift(i, 2 * v + Ones(c), c)
     /\ Advance(2)

\* ROTXL brings the old carry in, ROTL the bit that left.
Rotate(i) ==
  LET v == Get(er, i.d)
      c == TopBit(v, i.w)
      in == IF i.op = "ROTXL" THEN flags.C ELSE c
  IN /\ i.op \in {"ROTXL", "ROTL"}
     /\ Shift(i, 2 * v + Ones(in), c)
     /\ Advance(2)

\* NOT, EXTU, EXTS.
Invert(i) ==
  LET v == Mod(i.w) - 1 - Get(er, i.d)
  IN i.op = "NOT" /\ i.w # "l" /\ Result(i, v, SetFlagsMOV(flags, v, i.w)) /\ Advance(2)
Half(i) == Mod(IF i.w = "w" THEN "b" ELSE "w")
ExtendUnsigned(i) ==
  LET v == Get(er, i.d) % Half(i)
  IN i.op = "EXTU" /\ Result(i, v, SetFlagsMOV(flags, v, i.w)) /\ Advance(2)
ExtendSigned(i) ==
  LET low == Get(er, i.d) % Half(i)
      v == low + (IF low >= Half(i) \div 2 THEN Mod(i.w) - Half(i) ELSE 0)
  IN i.op = "EXTS" /\ Result(i, v, SetFlagsMOV(flags, v, i.w)) /\ Advance(2)

\* NEG leaves the least negative value as it is.
Negate(i) ==
  LET v == Get(er, i.d)
  IN /\ i.op = "NEG" /\ i.w # "l"
     /\ Result(i, IF v # Mod(i.w) \div 2 THEN - v ELSE v, SetFlagsSUB(flags, 0, v, i.w))
     /\ Advance(2)

-----------------------------------------------------------------------------
\* MULXU and MULXS: the low half of d times s.  MULXS extends the sign of d
\* alone.
MultiplyUnsigned(i) ==
  /\ i.op = "MULXU"
  /\ Result(i, Get(er, i.s) * (Get(er, i.d) % Mod(i.w)), flags)
  /\ Advance(2)
MultiplySigned(i) ==
  LET double == Mod(WidthOf(i.d))
      v == (Get(er, i.s) * Signed(Get(er, i.d) % Mod(i.w), i.w)) % double
  IN /\ i.op = "MULXS"
     /\ Result(i, v, [flags EXCEPT !.Z = (v = 0), !.N = v >= double \div 2])
     /\ Advance(4)

\* The division of C: the quotient is rounded towards zero.
Abs(x) == IF x < 0 THEN - x ELSE x
Quotient(a, b) == LET q == Abs(a) \div Abs(b)
                  IN IF (a < 0) = (b < 0) THEN q ELSE - q

\* A division by zero, or one whose quotient is too large, has no meaning in C:
\* on one of the machines the program runs on it traps, on the other a quotient
\* by zero is zero and the large one is cut.
Traps(undefined) ==
  undefined /\ stopped' = TRUE /\ UNCHANGED <<er, flags, memory, pc>>

\* The divisor is tested after the result was written, which may be over it.
ZeroAfter(i, result) == Get(Put(er, i.d, result), i.s) = 0
QuotientOf(a, b) == IF b = 0 THEN 0 ELSE Quotient(a, b)

\* The mistake of packing the quotient in the high half.
DivideUnsignedSwapped(i) ==
  LET a == Get(er, i.d)
      b == Get(er, i.s)
      q == QuotientOf(a, b)
      packed == (Mod(i.w) * (q % Mod(i.w))) + ((a - (q * b)) % Mod(i.w))
  IN /\ i.op = "DIVXU"
     /\ \/ Traps(b = 0)
        \/ /\ Result(i, packed, [flags EXCEPT !.Z = ZeroAfter(i, packed), !.N = FALSE])
           /\ Advance(2)
           /\ UNCHANGED stopped

\* DIVXU: the remainder in the high half, the quotient, cut to the width, in
\* the low half.
DivideUnsigned(i) ==
  LET a == Get(er, i.d)
      b == Get(er, i.s)
      q == QuotientOf(a, b)
      packed == (Mod(i.w) * ((a - (q * b)) % Mod(i.w))) + (q % Mod(i.w))
  IN /\ i.op = "DIVXU"
     /\ \/ Traps(b = 0)
        \/ /\ Result(i, packed, [flags EXCEPT !.Z = ZeroAfter(i, packed), !.N = FALSE])
           /\ Advance(2)
           /\ UNCHANGED stopped

\* DIVXS: a negative quotient also fills the high half.
DivideSigned(i) ==
  LET a == Signed(Get(er, i.d), WidthOf(i.d))
      b == Signed(Get(er, i.s), i.w)
      q == QuotientOf(a, b)
      low == q % Mod(i.w)
      high == IF TopBit(low, i.w) THEN Mod(i.w) - 1 ELSE (a - (q * b)) % Mod(i.w)
      packed == (Mod(i.w) * high) + low
      positive == ~TopBit(low, i.w) /\ (i.w = "b" => low # 0)
  IN /\ i.op = "DIVXS"
     /\ \/ Traps(b = 0 \/ (i.w = "w" /\ a = - (Long \div 2) /\ b = -1))
        \/ /\ Result(i, packed, [flags EXCEPT !.Z = ZeroAfter(i, packed), !.N = ~positive])
           /\ Advance(4)
           /\ UNCHANGED stopped

-----------------------------------------------------------------------------
\* Bits: the number is in the opcode or in a register, and a bit beyond the
\* byte is lost.
BitNumber(i) == IF i.s = NoReg THEN i.k ELSE Get(er, i.s)
Bit(k) == 2^(k % 32)
Has(v, k) == (v \div Bit(k)) % 2 = 1
With(v, k) == IF Has(v, k) THEN v ELSE (v + Bit(k)) % Byte
Without(v, k) == IF Has(v, k) THEN v - Bit(k) ELSE v
Assigned(v, k, c) == IF c THEN With(v, k) ELSE Without(v, k)

\* BSET and BCLR on a register, by a register and by an immediate number.
BitRegister(i) ==
  /\ i.mode = "reg" /\ i.op \in {"BSET", "BCLR"}
  /\ Result(i, Assigned(Get(er, i.d), BitNumber(i), i.op = "BSET"), flags)
  /\ Advance(2)

\* BTST and BLD on a register.
TestBit(i) ==
  /\ i.mode = "reg" /\ i.op \in {"BTST", "BLD"}
  /\ LET bit == Has(Get(er, i.d), i.k)
     IN OnlyFlags(IF i.op = "BLD" THEN [flags EXCEPT !.C = bit]
                                  ELSE [flags EXCEPT !.Z = ~bit])
  /\ Advance(2)

PokeByte(a, v) == memory' = Poke(memory, a, "b", v) /\ UNCHANGED <<er, flags>>

\* BST #xx:3, Rd writes the memory at the address that Rd holds.
StoreBitRegister(i) ==
  /\ i.mode = "reg" /\ i.op = "BST"
  /\ LET a == Get(er, i.d)
     IN PokeByte(a, Assigned(Peek(memory, a, "b"), i.k, flags.C))
  /\ Advance(2)

\* BLD #xx:3, @ERd and BLD #xx:3, @aa:8.
Page(k) == Word - Byte + k
LoadBitAt(i, a) == OnlyFlags([flags EXCEPT !.C = Has(Peek(memory, a, "b"), i.k)])
LoadBitIndirect(i) ==
  /\ i.op = "BLD" /\ i.mode = "@R"
  /\ LoadBitAt(i, er[i.d.n])
  /\ Advance(4)
LoadBitAbsolute(i) ==
  /\ i.op = "BLD" /\ i.mode = "aa8"
  /\ LoadBitAt(i, Page(i.a))
  /\ Advance(4)

\* The mistake of a BST that never clears the bit.
ChangeBitOnlySets(i, a) ==
  LET v == Peek(memory, a, "b")
      k == BitNumber(i)
  IN PokeByte(a, IF i.op = "BCLR" THEN Without(v, k)
                 ELSE IF i.op = "BST" /\ ~flags.C THEN v ELSE With(v, k))

\* The bit instructions on memory.  BNOT tests the byte with the number of
\* the bit, not with the bit.
ChangeBit(i, a) ==
  LET v == Peek(memory, a, "b")
      k == BitNumber(i)
  IN PokeByte(a, CASE i.op = "BSET" -> With(v, k)
                   [] i.op = "BCLR" -> Without(v, k)
                   [] i.op = "BST" -> Assigned(v, k, flags.C)
                   [] i.op = "BNOT" -> Assigned(v, k, And(v, k) = 0))
BitIndirect(i) ==
  /\ i.op \in {"BSET", "BCLR", "BST", "BNOT"} /\ i.mode = "@R"
  /\ ChangeBit(i, er[i.d.n])
  /\ Advance(4)
BitAbsolute(i) ==
  /\ i.op \in {"BSET", "BCLR"} /\ i.mode = "aa8"
  /\ ChangeBit(i, Page(i.a))
  /\ Advance(4)

-----------------------------------------------------------------------------
\* MOV between registers and memory, by the way the address is given.
MoveAbsolute8(i) ==
  /\ i.mode = "aa8" /\ i.w = "b"
  /\ \/ i.op = "LOAD" /\ Load(i, Page(i.k))
     \/ i.op = "STORE" /\ Store(i, Page(i.k))
  /\ Advance(2)

MoveAbsolute16(i) ==
  /\ i.mode = "aa16" /\ i.w # "l"
  /\ \/ i.op = "LOAD" /\ Load(i, i.k)
     \/ i.op = "STORE" /\ Store(i, i.k)
  /\ Advance(4)

MoveLongAbsolute16(i) ==
  /\ i.mode = "aa16" /\ i.w = "l"
  /\ \/ i.op = "LOAD" /\ Load(i, i.k)
     \/ i.op = "STORE" /\ Store(i, i.k)
  /\ Advance(6)

MoveIndirect(i) ==
  /\ i.mode = "@R" /\ i.w # "l"
  /\ \/ i.op = "LOAD" /\ Load(i, er[i.s.n])
     \/ i.op = "STORE" /\ Store(i, er[i.d.n])
  /\ Advance(2)

MoveLongIndirect(i) ==
  /\ i.mode = "@R" /\ i.w = "l"
  /\ \/ i.op = "LOAD" /\ Load(i, er[i.s.n])
     \/ i.op = "STORE" /\ Store(i, er[i.d.n])
  /\ Advance(4)

MoveDisplaced(i) ==
  /\ i.mode = "@(d,R)" /\ i.w # "l"
  /\ \/ i.op = "LOAD" /\ Load(i, er[i.s.n] + Extended(i.k))
     \/ i.op = "STORE" /\ Store(i, er[i.d.n] + Extended(i.k))
  /\ Advance(4)

MoveLongDisplaced(i) ==
  /\ i.mode = "@(d,R)" /\ i.w = "l"
  /\ \/ i.op = "LOAD" /\ Load(i, er[i.s.n] + Extended(i.k))
     \/ i.op = "STORE" /\ Store(i, er[i.d.n] + Extended(i.k))
  /\ Advance(6)

MoveWordStack(i) ==
  /\ i.w = "w"
  /\ \/ i.op = "LOAD" /\ i.mode = "@R+" /\ LoadIncrement(i)
     \/ i.op = "STORE" /\ i.mode = "@-R" /\ StoreDecrement(i)
  /\ Advance(2)

MoveLongStack(i) ==
  /\ i.w = "l"
  /\ \/ i.op = "LOAD" /\ i.mode = "@R+" /\ LoadIncrement(i)
     \/ i.op = "STORE" /\ i.mode = "@-R" /\ StoreDecrement(i)
  /\ Advance(4)

\* MOV.B Rs, @-ERd stores the byte at the address that the byte itself is.
MoveByteStack(i) ==
  /\ i.w = "b"
  /\ \/ i.op = "LOAD" /\ i.mode = "@R+" /\ LoadIncrement(i)
     \/ /\ i.op = "STORE" /\ i.mode = "@-R"
        /\ LET r == Put(er, i.d, er[i.d.n] - 1)
               v == Get(r, i.s)
           IN /\ er' = r
              /\ memory' = Poke(memory, v, "b", v)
              /\ flags' = SetFlagsMOV(flags, v, "b")
  /\ Advance(2)

-----------------------------------------------------------------------------
Stay == UNCHANGED <<er, flags, memory>>

\* Bcc d:8 and Bcc d:16.  BRN d:8 is not implemented; BRN d:16 goes on with
\* the word of its displacement.
Branch8(i) ==
  /\ i.op \in Conditions /\ i.mode = "d8"
  /\ Advance(IF Taken(i.op, flags) THEN 2 + i.k ELSE 2)
  /\ Stay
Branch16(i) ==
  /\ i.op \in Conditions /\ i.mode = "d16"
  /\ Advance(IF Taken(i.op, flags) THEN 4 + Extended(i.k) ELSE 4)
  /\ Stay

\* The registers when there is room for one more word on the stack.
Deeper == Put(er, Part(SP, "er"), er[SP] - 2)

\* The mistake of a call that takes every call for a short one.
CallShort(length, target) ==
  /\ er' = Deeper
  /\ memory' = Poke(memory, Deeper[SP], "w", (pc + 2) % Word)
  /\ pc' = target % Word
  /\ UNCHANGED flags

\* A call pushes the address of the instruction behind it.
Call(length, target) ==
  /\ er' = Deeper
  /\ memory' = Poke(memory, Deeper[SP], "w", (pc + length) % Word)
  /\ pc' = target % Word
  /\ UNCHANGED flags

BranchSubroutine8(i) == i.op = "BSR" /\ i.mode = "d8" /\ Call(2, pc + 2 + i.k)
BranchSubroutine16(i) == i.op = "BSR" /\ i.mode = "d16" /\ Call(4, pc + 4 + Extended(i.k))
\* The register is read after the push: JSR @ER7 jumps to the new top.
JumpSubroutineRegister(i) == i.op = "JSR" /\ i.mode = "@R" /\ Call(2, Deeper[i.s.n])
JumpSubroutine(i) == i.op = "JSR" /\ i.mode = "aa24" /\ Call(4, i.k)

Jump(i) ==
  /\ i.op = "JMP"
  /\ pc' = (IF i.mode = "@R" THEN er[i.s.n] ELSE i.k) % Word
  /\ Stay

ReturnSubroutine(i) ==
  /\ i.op = "RTS"
  /\ pc' = Peek(memory, er[SP], "w")
  /\ er' = Put(er, Part(SP, "er"), er[SP] + 2)
  /\ UNCHANGED <<flags, memory>>

-----------------------------------------------------------------------------
\* setFlags: LDC.B #xx:8, CCR and LDC.B Rs, CCR.
FlagsOf(v) == [C |-> Has(v, 0), V |-> Has(v, 1), Z |-> Has(v, 2),
               N |-> Has(v, 3), H |-> Has(v, 5), I |-> Has(v, 7)]
LoadFlags(i) ==
  /\ i.op = "LDC" /\ i.w = "b"
  /\ OnlyFlags(FlagsOf(IF i.mode = "imm" THEN i.k ELSE Get(er, i.s)))
  /\ Advance(2)

\* The word forms of LDC and STC are read and do nothing.
LoadFlagsWord(i) == i.op = "LDC" /\ i.w = "w" /\ Stay /\ Advance(4)

\* NOP, and jumps that are left out: the next word is run.
Ignore(i) == i.op \in {"NOP", "BRN", "JMP@@", "JSR@@"} /\ Stay /\ Advance(2)

EnterSleep(i) == i.op = "SLEEP" /\ Stay /\ Advance(2)

\* An instruction that is not implemented ends the run: some are met after
\* their first word was passed.
Unimplemented(i) == i.op = "UNIMPLEMENTED" /\ Stay /\ Advance(0)
UnimplementedPrefixed(i) == i.op = "UNIMPLEMENTED.L" /\ Stay /\ Advance(2)

-----------------------------------------------------------------------------
Proceeds(i) ==
  \/ ByteImmediate(i) \/ WordImmediate(i) \/ LongImmediate(i)
  \/ AddRegister(i) \/ MoveRegister(i) \/ SubRegister(i) \/ CompareRegister(i)
  \/ LogicByte(i) \/ LogicWord(i) \/ LogicLong(i)
  \/ Increment(i) \/ Decrement(i) \/ AddAddress(i) \/ SubAddress(i) \/ SubExtended(i)
  \/ ShiftLeft(i) \/ ShiftArithmeticLeft(i) \/ ShiftRight(i) \/ Rotate(i)
  \/ Invert(i) \/ ExtendUnsigned(i) \/ ExtendSigned(i) \/ Negate(i)
  \/ MultiplyUnsigned(i) \/ MultiplySigned(i)
  \/ BitRegister(i) \/ TestBit(i) \/ StoreBitRegister(i)
  \/ LoadBitIndirect(i) \/ LoadBitAbsolute(i) \/ BitIndirect(i) \/ BitAbsolute(i)
  \/ MoveAbsolute8(i) \/ MoveAbsolute16(i) \/ MoveLongAbsolute16(i)
  \/ MoveIndirect(i) \/ MoveLongIndirect(i) \/ MoveDisplaced(i) \/ MoveLongDisplaced(i)
  \/ MoveByteStack(i) \/ MoveWordStack(i) \/ MoveLongStack(i)
  \/ Branch8(i) \/ Branch16(i) \/ Jump(i)
  \/ BranchSubroutine8(i) \/ BranchSubroutine16(i)
  \/ JumpSubroutineRegister(i) \/ JumpSubroutine(i) \/ ReturnSubroutine(i)
  \/ LoadFlags(i) \/ LoadFlagsWord(i) \/ Ignore(i)

Divisions(i) == DivideUnsigned(i) \/ DivideSigned(i)

\* History: what a push, a call, a pop and a return do to the stack.  Any
\* other store and any other change of SP forget it.
After == CHOOSE a \in DOMAIN rom : a > pc /\ \A b \in DOMAIN rom : b > pc => a <= b
Pushed(i) ==
  CASE i.op \in {"BSR", "JSR"} -> <<[w |-> "w", v |-> After]>> \o frames
    [] i.op = "STORE" /\ i.mode = "@-R" /\ i.d.n = SP /\ i.w # "b" ->
         <<[w |-> i.w, v |-> Get(er', i.s)]>> \o frames
    [] /\ \/ i.op = "RTS"
          \/ i.op = "LOAD" /\ i.mode = "@R+" /\ i.s.n = SP /\ i.d.n # SP
       /\ frames # <<>> -> Tail(frames)
    [] OTHER -> IF memory' = memory /\ er'[SP] = er[SP] THEN frames ELSE <<>>

Next ==
  /\ ~stopped /\ ~sleep /\ pc \in DOMAIN rom
  /\ LET i == rom[pc]
     IN /\ \/ Proceeds(i) /\ UNCHANGED <<sleep, stopped>>
           \/ Divisions(i) /\ UNCHANGED sleep
           \/ EnterSleep(i) /\ sleep' = TRUE /\ UNCHANGED stopped
           \/ /\ Unimplemented(i) \/ UnimplementedPrefixed(i)
              /\ stopped' = TRUE /\ UNCHANGED sleep
        /\ past' = Append(IF Len(past) = 2 THEN Tail(past) ELSE past,
                          [i |-> i, er |-> er, flags |-> flags])
        /\ frames' = Pushed(i)
  /\ UNCHANGED rom

Spec == Init /\ [][Next]_vars
-----------------------------------------------------------------------------
\* The n-th last instruction that was run, and the operands it found.
Ran(n) == past[Len(past) + 1 - n]
Operand(x) == IF x.i.mode = "imm" THEN x.i.k ELSE Get(x.er, x.i.s)

\* A branch behind a comparison or a subtraction goes where the order of the
\* operands, signed or unsigned, says, at every width; behind a DEC, BEQ and
\* BNE know whether the register reached zero.  A branch to the next
\* instruction tells nothing.  (setFlagsSUB, setFlagsINC and the conditions
\* of Bcc)
BranchGoes ==
  LET b == rom[pc]
      x == Ran(1)
      length == IF b.mode = "d8" THEN 2 ELSE 4
      old == Get(x.er, x.i.d)
  IN /\ b.op \in Orders /\ past # <<>> /\ b.k % Word # 0
     => /\ x.i.op \in {"CMP", "SUB"} =>
             (pc' # (pc + length) % Word <=> Ordered(b.op, old, Operand(x), x.i.w))
        /\ x.i.op = "DEC" /\ b.op \in {"BEQ", "BNE"} =>
             (pc' # (pc + length) % Word <=> Ordered(b.op, old, x.i.k, x.i.w))
BranchDecides == [][BranchGoes]_vars

\* What was pushed last is what is popped first: a return goes to the
\* instruction behind the call that is still open, and a pop gives the value
\* that was pushed, also across the end of the address space.  (BSR, JSR, RTS,
\* MOV @-ER7 and MOV @ER7+)
StackKept ==
  [][LET i == rom[pc]
         top == Head(frames)
     IN frames # <<>> =>
          /\ i.op = "RTS" /\ top.w = "w" => pc' = top.v
          /\ i.op = "LOAD" /\ i.mode = "@R+" /\ i.s.n = SP /\ i.w = top.w
               => Get(er', i.d) = top.v]_vars

\* SHLL on the low half and ROTXL on the high half double a number of twice
\* the width: the carry that one leaves is the bit that the other takes.
CarryMoves ==
  Len(past) >= 2 =>
    LET x == Ran(2)
        y == Ran(1)
        m == Mod(x.i.w)
        Pair(r) == Get(r, y.i.d) * m + Get(r, x.i.d)
    IN (x.i.op = "SHLL" /\ y.i.op = "ROTXL" /\ x.i.w = y.i.w /\ x.i.d # y.i.d)
       => /\ Pair(er) = (2 * Pair(x.er)) % (m * m)
          /\ flags.C <=> 2 * Pair(x.er) >= m * m

\* DIVXU gives back what MULXU by the same register multiplied, and no
\* remainder, unless that register is zero or a part of the product.
DivisionUndoes ==
  Len(past) >= 2 =>
    LET x == Ran(2)
        y == Ran(1)
    IN (/\ x.i.op = "MULXU" /\ y.i.op = "DIVXU"
        /\ <<y.i.w, y.i.s, y.i.d>> = <<x.i.w, x.i.s, x.i.d>>
        /\ x.i.s.n # x.i.d.n /\ Get(x.er, x.i.s) # 0)
       => Get(er, x.i.d) = Get(x.er, x.i.d) % Mod(x.i.w)

\* A bit named by the opcode that was set, cleared or stored is the bit that is
\* then tested or loaded from the same place.  (BNOT and BST on a register are
\* left out: the first only sets, the second writes to memory.)
BitReadsBack ==
  Len(past) >= 2 =>
    LET x == Ran(2)
        y == Ran(1)
        Place(i) == <<i.mode, i.d, i.a, i.k>>
        meant == (x.i.op = "BSET") \/ (x.i.op = "BST" /\ x.flags.C)
    IN (/\ x.i.op \in {"BSET", "BCLR", "BST"} /\ y.i.op \in {"BTST", "BLD"}
        /\ Place(x.i) = Place(y.i) /\ x.i.s = NoReg /\ Bit(x.i.k) < Byte
        /\ x.i.op = "BST" => x.i.mode # "reg")
       => (IF y.i.op = "BLD" THEN flags.C ELSE ~flags.Z) = meant
=============================================================================
