---------------------------- MODULE MCLegacyCpu ----------------------------
(***************************************************************************)
(* Programs for LegacyCpu with nibbles of two values: a byte has 4 values, *)
(* a word 16 and a long 256, and memory has 16 cells.  Every case of the   *)
(* instruction switch is run, on every value of ER0 and on the values of   *)
(* ER1 around the borders.                                                 *)
(***************************************************************************)
EXTENDS LegacyCpu, TLC

MCRegs == {0, 1, 7}

Plain == [op |-> "NOP", mode |-> "none", w |-> "b", s |-> NoReg, d |-> NoReg,
          k |-> 0, a |-> 0]
One(op) == [Plain EXCEPT !.op = op]

Of(w, n) == Part(n, CASE w = "b" -> "l" [] w = "w" -> "r" [] w = "l" -> "er")
Twice(w) == IF w = "b" THEN Part(0, "r") ELSE Part(0, "er")
High(w) == IF w = "b" THEN Part(0, "h") ELSE Part(0, "e")

Reg(op, w) == [Plain EXCEPT !.op = op, !.mode = "reg", !.w = w,
                            !.s = Of(w, 1), !.d = Of(w, 0)]
Imm(op, w, k) == [Plain EXCEPT !.op = op, !.mode = "imm", !.w = w,
                               !.d = Of(w, 0), !.k = k]
By(op, w, k) == [Plain EXCEPT !.op = op, !.w = w, !.d = Of(w, 0), !.k = k]
LoadFrom(mode, w, n, k, m) == [Plain EXCEPT !.op = "LOAD", !.mode = mode, !.w = w,
                                 !.s = Part(n, "er"), !.d = Of(w, m), !.k = k]
StoreTo(mode, w, m, n, k) == [Plain EXCEPT !.op = "STORE", !.mode = mode, !.w = w,
                                !.s = Of(w, m), !.d = Part(n, "er"), !.k = k]
Cond(op, mode, k) == [Plain EXCEPT !.op = op, !.mode = mode, !.k = k]
OnBit(op, mode, s, k) == [Plain EXCEPT !.op = op, !.mode = mode, !.s = s, !.k = k,
        !.d = IF mode = "@R" THEN Part(1, "er") ELSE Of("b", 0), !.a = 1]

LengthOfImm(w) == CASE w = "b" -> 2 [] w = "w" -> 4 [] w = "l" -> 6
Two(a, length, b) == 0 :> a @@ length :> b

-----------------------------------------------------------------------------
Border(w) == Values(w) \cap {0, 1, 3, 7, 8, 9, 15, 16, 127, 128, 129, 255}

\* ER0 over the values up to max, ER1 over seconds, the stack at sps.
Find(programs, max, seconds, sps) ==
  [programs |-> programs,
   registers |-> {[n \in MCRegs |-> CASE n = 0 -> x [] n = 1 -> y [] n = 7 -> z] :
                    x \in 0 .. max, y \in seconds, z \in sps}]

Decisions(w) ==
  {Two(Reg(op, w), 2, Cond(c, m, 4)) :
     op \in {"CMP", "SUB"}, c \in Conditions, m \in {"d8"}}
  \cup {Two(Imm("CMP", w, k), LengthOfImm(w), Cond(c, "d16", 4)) :
     k \in Border(w) \cap {0, 3, 8, 128}, c \in Conditions}
  \cup {Two(By("DEC", w, k), 2, Cond(c, "d8", -2)) :
     k \in {1} \cup (IF w = "b" THEN {} ELSE {2}), c \in {"BNE", "BEQ"}}

Operations(w) ==
  {0 :> Reg(op, w) : op \in {"ADD", "MOV", "OR", "XOR", "AND"}}
  \cup {0 :> Imm(op, w, k) : op \in {"ADD", "MOV", "OR", "XOR", "AND"}, k \in {1, 3}}
  \cup {0 :> By("INC", w, k) : k \in {1} \cup (IF w = "b" THEN {} ELSE {2})}
  \cup {0 :> By(op, w, 1) : op \in {"SHAL", "SHLR", "ROTL"}}
  \cup (IF w = "b" THEN {} ELSE {0 :> By("SHAR", w, 1)})
  \cup (IF w = "l" THEN {} ELSE {0 :> By(op, w, 1) : op \in {"NOT", "NEG"}})
  \cup {0 :> [By(op, "l", k) EXCEPT !.mode = "reg"] : op \in {"ADDS", "SUBS"}, k \in {1, 4}}
  \cup (IF w = "b" THEN {0 :> Reg("SUBX", w), Two(Reg("CMP", w), 2, Reg("SUBX", w))}
        ELSE {0 :> By(op, w, 0) : op \in {"EXTU", "EXTS"}}
             \cup {0 :> Imm("SUB", w, k) : k \in {1, 3}})

Shifts(w) == {Two(By("SHLL", w, 0), 2, [By("ROTXL", w, 0) EXCEPT !.d = High(w)])}

Products(w) ==
  LET p(op) == [Reg(op, w) EXCEPT !.d = Twice(w)]
  IN {Two(p("MULXU"), 2, p("DIVXU")), Two(p("MULXS"), 4, p("DIVXS")),
      0 :> p("DIVXU"), 0 :> p("DIVXS")}

Exists(op, mode) ==
  CASE mode = "reg" -> op # "BNOT"
    [] mode = "@R" -> op # "BTST"
    [] mode = "aa8" -> op \in {"BSET", "BCLR", "BLD"}
BitPrograms ==
  UNION {
    {Two(OnBit(op, mode, NoReg, k), IF mode = "reg" THEN 2 ELSE 4,
         OnBit(test, mode, NoReg, k)) :
       op \in {x \in {"BSET", "BCLR", "BST", "BNOT"} : Exists(x, mode)},
       test \in {x \in {"BLD", "BTST"} : Exists(x, mode)}, k \in {0, 1}} :
    mode \in {"reg", "@R", "aa8"}}
  \cup {0 :> OnBit("BSET", "@R", NoReg, k) @@ 4 :> OnBit("BST", "@R", NoReg, k)
        @@ 8 :> OnBit("BLD", "@R", NoReg, k) : k \in {0, 1}}
  \cup {0 :> Reg("CMP", "b") @@ 2 :> OnBit("BST", "@R", NoReg, k)
        @@ 6 :> OnBit("BLD", "@R", NoReg, k) : k \in {0, 1}}
  \cup {0 :> OnBit(op, mode, Part(1, "l"), 0) : op \in {"BSET", "BCLR"},
        mode \in {"reg", "@R", "aa8"}}

Memory ==
  {Two(StoreTo("@R", w, 0, 1, 0), IF w = "l" THEN 4 ELSE 2, LoadFrom("@R+", w, 1, 0, 0)) :
     w \in Widths}
  \cup {Two(StoreTo("aa16", w, 0, 1, 15), IF w = "l" THEN 6 ELSE 4,
            LoadFrom("aa16", w, 1, 15, 0)) : w \in Widths}
  \cup {Two(StoreTo("@(d,R)", w, 0, 1, k), IF w = "l" THEN 6 ELSE 4,
            LoadFrom("@(d,R)", w, 1, k, 0)) : w \in Widths, k \in {1, 15}}
  \cup {Two(StoreTo("aa8", "b", 0, 1, 2), 2, LoadFrom("aa8", "b", 1, 2, 0))}
  \cup {0 :> LoadFrom("@R", w, 1, 0, 1) : w \in Widths}
  \cup {Two(StoreTo("@-R", "b", 0, 1, 0), 2, LoadFrom("@R+", "b", 1, 0, 0))}

Push(w, n) == StoreTo("@-R", w, n, 7, 0)
Pop(w, n) == LoadFrom("@R+", w, 7, 0, n)
Rts == One("RTS")
Stack ==
  { \* a call of a call that saves a register
    0 :> Cond("JSR", "aa24", 6) @@ 4 :> One("SLEEP")
      @@ 6 :> Push("w", 0) @@ 8 :> Cond("BSR", "d8", 4) @@ 10 :> Pop("w", 1) @@ 12 :> Rts
      @@ 14 :> Rts,
    0 :> Cond("BSR", "d16", 2) @@ 4 :> One("SLEEP")
      @@ 6 :> Push("l", 0) @@ 10 :> Pop("l", 1) @@ 14 :> Rts,
    0 :> [One("JSR") EXCEPT !.mode = "@R", !.s = Part(1, "er")] @@ 2 :> One("SLEEP")
      @@ 6 :> Push("l", 7) @@ 10 :> Pop("l", 0),
    0 :> [One("JSR") EXCEPT !.mode = "@R", !.s = Part(7, "er")] @@ 2 :> One("SLEEP")
      @@ 14 :> Rts,
    0 :> Push("w", 0) @@ 2 :> Push("l", 1) @@ 6 :> Pop("l", 0) @@ 10 :> Pop("w", 1),
    0 :> Cond("JMP", "aa24", 8) @@ 8 :> [One("JMP") EXCEPT !.mode = "@R", !.s = Part(1, "er")]}

Others ==
  {0 :> Imm("LDC", "b", k) @@ 2 :> One(op) : k \in {0, 3},
     op \in {"NOP", "BRN", "JMP@@", "JSR@@", "UNIMPLEMENTED", "UNIMPLEMENTED.L"}}
  \cup {0 :> [One("LDC") EXCEPT !.mode = "reg", !.s = Part(0, "l")],
        0 :> [One("LDC") EXCEPT !.w = "w"] @@ 4 :> One("SLEEP")}

MCStarts ==
  {Find(Decisions(w) \cup Operations(w), Mod(w) - 1, Border(w), {0}) : w \in Widths}
  \cup {Find(Shifts(w) \cup Products(w), Mod(WidthOf(Twice(w))) - 1, Border(w), {0}) :
           w \in {"b", "w"}}
  \cup {Find(BitPrograms, Byte - 1, {0, 1, 3, 14}, {0}),
        Find(Memory, Long - 1, {0, 13, 15, 255}, {0}),
        Find(Stack, 40, {6, 130}, {0, 1, 2, 5, 16, 255}),
        Find(Others, 15, {0}, {0})}
=============================================================================
