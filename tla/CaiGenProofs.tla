---------------------------- MODULE CaiGenProofs ----------------------------
(***************************************************************************)
(* For every word size, every set of virtual registers, immediates and     *)
(* symbols and every set of instruction forms, the operand that eax_holds  *)
(* names is the one that eax holds, and the text of a function computes    *)
(* what its instructions mean in CaiIR.                                    *)
(***************************************************************************)
EXTENDS CaiGen, TLAPS

-----------------------------------------------------------------------------
\* The operators of CaiWords stay within words and longs.

\* a remainder is below its modulus
LEMMA ModRange == ASSUME NEW n \in Int, NEW m \in Nat \ {0} PROVE n % m \in 0 .. m - 1
  OBVIOUS

LEMMA WIsPositive == W \in Nat \ {0} /\ W * W \in Nat \ {0} /\ 0 \in Word
  <1>1. W \in Nat \ {0}
    BY WordsAssumption DEF WordsAssumption
  <1>2. \A n \in Nat \ {0} : n * n \in Nat \ {0}
    OBVIOUS
  <1> QED  BY <1>1, <1>2 DEF Word

LEMMA WordsAreInts == Word \subseteq Int /\ \A x \in Long : x.hi \in Int /\ x.lo \in Int
  BY WIsPositive DEF Word, Long

LEMMA ZeroExtendType == ASSUME NEW w \in Word PROVE ZeroExtend(w) \in Long
  BY WIsPositive DEF ZeroExtend, Long

LEMMA SignExtendType == ASSUME NEW w \in Word PROVE SignExtend(w) \in Long
  BY WIsPositive DEF SignExtend, Long, Word

LEMMA ImmType ==
  ASSUME NEW i \in Imms PROVE ImmWord(i) \in Word /\ ImmLong(i) \in Long
  <1>1. i \in Int
    BY WordsAssumption DEF WordsAssumption
  <1>2. i % W \in Word
    BY <1>1, WIsPositive, ModRange DEF Word
  <1> QED  BY <1>2, SignExtendType DEF ImmWord, ImmLong

LEMMA LongOfType == ASSUME NEW n \in Int PROVE LongOf(n) \in Long
  <1>1. n \div W \in Int
    BY WIsPositive
  <1>2. (n \div W) % W \in 0 .. W - 1 /\ n % W \in 0 .. W - 1
    BY <1>1, WIsPositive, ModRange
  <1> QED  BY <1>2 DEF LongOf, Long, Word

LEMMA BitsType == ASSUME NEW x \in Long PROVE Bits(x) \in Int
  <1>1. \A h, l, w \in Int : h * w + l \in Int
    OBVIOUS
  <1> QED  BY <1>1, WordsAreInts, WIsPositive DEF Bits

\* a long is a number below W * W
LEMMA BitsRange == ASSUME NEW x \in Long PROVE Bits(x) \in 0 .. W * W - 1
  <1>1. \A w \in Nat \ {0} : \A h, l \in 0 .. w - 1 :
          h * w >= 0 /\ h * w <= w * w - w
    <2> SUFFICES ASSUME NEW w \in Nat \ {0}, NEW h \in 0 .. w - 1
                 PROVE  h * w >= 0 /\ h * w <= w * w - w
      OBVIOUS
    <2>1. h * w <= (w - 1) * w
      OBVIOUS
    <2>2. (w - 1) * w = w * w - w
      OBVIOUS
    <2> QED  BY <2>1, <2>2
  <1>2. x.hi \in 0 .. W - 1 /\ x.lo \in 0 .. W - 1
    BY DEF Long, Word
  <1>3. x.hi * W >= 0 /\ x.hi * W <= W * W - W
    BY <1>1, <1>2, WIsPositive
  <1> DEFINE high == x.hi * W
             square == W * W
  <1>4. high \in Int /\ square \in Int /\ high >= 0 /\ high <= square - W
    BY <1>2, <1>3, WIsPositive
  <1> HIDE DEF high, square
  <1>5. high + x.lo \in 0 .. square - 1
    BY <1>2, <1>4, WIsPositive
  <1> QED  BY <1>5 DEF Bits, high, square

LEMMA QuotientType == ASSUME NEW a \in Int, NEW b \in Int, b # 0 PROVE Quotient(a, b) \in Int
  <1>1. Magnitude(a) \in Int /\ Magnitude(b) \in Nat \ {0}
    BY DEF Magnitude
  <1>2. Magnitude(a) \div Magnitude(b) \in Int
    BY <1>1
  <1> QED  BY <1>2 DEF Quotient

LEMMA ArithType ==
  ASSUME NEW op \in ArithOps, NEW range \in Nat \ {0},
         NEW a \in 0 .. range - 1, NEW b \in 0 .. range - 1, ~Traps(op, a, b, range)
  PROVE  Arith(op, a, b, range) \in 0 .. range - 1
  <1>1. a + b \in Int /\ a - b \in Int /\ a * b \in Int
    OBVIOUS
  <1>2. CASE op = "add"
    BY <1>1, <1>2, ModRange DEF Arith
  <1>3. CASE op = "sub"
    BY <1>1, <1>3, ModRange DEF Arith
  <1>4. CASE op = "mul"
    BY <1>1, <1>4, ModRange DEF Arith
  <1>5. CASE op = "div"
    <2>1. Signed(a, range) \in Int /\ Signed(b, range) \in Int /\ Signed(b, range) # 0
      BY <1>5 DEF Signed, Traps
    <2>2. Quotient(Signed(a, range), Signed(b, range)) \in Int
      BY <2>1, QuotientType
    <2> QED  BY <1>5, <2>2, ModRange DEF Arith
  <1> QED  BY <1>2, <1>3, <1>4, <1>5 DEF ArithOps
LEMMA CompareType ==
  ASSUME NEW op \in CmpOps, NEW range \in Nat \ {0}, NEW a \in Int, NEW b \in Int
  PROVE  Compare(op, a, b, range) \in {0, 1}
  BY DEF Compare

LEMMA BoolIsWord == {0, 1} \subseteq Word
  BY WIsPositive, WordsAssumption DEF Word, WordsAssumption

\* the byte below a multiple of the byte range stays below the next multiple
LEMMA SetByteType == ASSUME NEW w \in Word, NEW v \in Word PROVE SetByte(w, v) \in Word
  <1>1. ByteRange \in Nat \ {0} /\ W % ByteRange = 0
    BY WordsAssumption, WIsPositive DEF WordsAssumption
  <1>2. \A n \in Int : /\ n \div ByteRange \in Int
                       /\ n = ByteRange * (n \div ByteRange) + (n % ByteRange)
                       /\ n % ByteRange \in 0 .. ByteRange - 1
    BY <1>1
  <1> DEFINE q == w \div ByteRange
             k == W \div ByteRange
  <1>3. w \in Int /\ v \in Int /\ W \in Int /\ 0 <= w /\ w < W
    BY WIsPositive DEF Word
  <1>4. q \in Int /\ k \in Int /\ W = ByteRange * k /\ w = ByteRange * q + (w % ByteRange)
    BY <1>1, <1>2, <1>3
  <1>5. w % ByteRange \in 0 .. ByteRange - 1 /\ v % ByteRange \in 0 .. ByteRange - 1
    BY <1>2, <1>3
  <1>6. 0 <= ByteRange * q /\ ByteRange * q <= ByteRange * k - ByteRange
    <2>1. \A m \in Nat \ {0}, x, y, l \in Int :
            /\ 0 <= m * x + l /\ m * x + l < m * y /\ l \in 0 .. m - 1
            => x >= 0 /\ x <= y - 1
      <3> SUFFICES ASSUME NEW m \in Nat \ {0}, NEW x \in Int, NEW y \in Int, NEW l \in Int,
                          0 <= m * x + l, m * x + l < m * y, l \in 0 .. m - 1
                   PROVE  x >= 0 /\ x <= y - 1
        OBVIOUS
      <3>1. ASSUME x < 0 PROVE FALSE
        <4>1. m * x <= -m
          BY <3>1
        <4> QED  BY <4>1
      <3>2. ASSUME x >= y PROVE FALSE
        <4>1. m * x >= m * y
          BY <3>2
        <4> QED  BY <4>1
      <3> QED  BY <3>1, <3>2
    <2>2. q >= 0 /\ q <= k - 1
      BY <2>1, <1>1, <1>3, <1>4, <1>5
    <2>3. \A m \in Nat \ {0}, x, y \in Int :
            x >= 0 /\ x <= y - 1 => 0 <= m * x /\ m * x <= m * y - m
      <3> SUFFICES ASSUME NEW m \in Nat \ {0}, NEW x \in Int, NEW y \in Int,
                          x >= 0, x <= y - 1
                   PROVE  0 <= m * x /\ m * x <= m * y - m
        OBVIOUS
      <3>1. m * x <= m * (y - 1)
        OBVIOUS
      <3>2. m * (y - 1) = m * y - m
        OBVIOUS
      <3> QED  BY <3>1, <3>2
    <2>4. q \in Int /\ k \in Int
      BY <1>4
    <2> HIDE DEF q, k
    <2> QED  BY <2>2, <2>3, <2>4, <1>1
  <1> HIDE DEF q, k
  <1>7. SetByte(w, v) = ByteRange * q + (v % ByteRange)
    <2> DEFINE below == ByteRange * q
               byte == w % ByteRange
               new == v % ByteRange
    <2>1. below \in Int /\ byte \in Int /\ new \in Int
      BY <1>1, <1>4, <1>5
    <2>2. w = below + byte
      BY <1>4
    <2>3. SetByte(w, v) = w - byte + new
      BY DEF SetByte
    <2> HIDE DEF below, byte, new
    <2>4. SetByte(w, v) = below + new
      BY <2>1, <2>2, <2>3
    <2> QED  BY <2>4 DEF below, new
  <1> QED  BY <1>1, <1>3, <1>4, <1>5, <1>6, <1>7 DEF Word

LEMMA ByteIsWord == ASSUME NEW w \in Word PROVE w % ByteRange \in Word
  <1>1. ByteRange \in Nat \ {0} /\ ByteRange <= W /\ w \in Int
    BY WordsAssumption, WIsPositive, WordsAreInts DEF WordsAssumption
  <1>2. w % ByteRange \in 0 .. ByteRange - 1
    BY <1>1, ModRange
  <1> QED  BY <1>1, <1>2, WIsPositive DEF Word

-----------------------------------------------------------------------------
\* What the generator's helpers leave in rax is a long.

LEMMA OperandsOfForms ==
  ASSUME NEW f \in Forms
  PROVE  f.dst \in Vars /\ f.dst \in Operands /\ f.a \in Operands /\ f.b \in Operands
  BY WordsAssumption DEF WordsAssumption, Operands, Plain

LEMMA OperandsOfMoves ==
  ASSUME NEW m \in Moves
  PROVE  m.ptr \in Vars /\ m.ptr \in Operands /\ m.reg \in Operands
  BY WordsAssumption DEF WordsAssumption, Operands, Plain

LEMMA SymAddrType == \A sym \in Syms : SymAddr[sym] \in Long
  BY WordsAssumption DEF WordsAssumption

LEMMA LoadPtrType == ASSUME TypeOK, NEW a \in Operands PROVE LoadPtr(a) \in Long
  BY SymAddrType, ImmType DEF TypeOK, LoadPtr, Operands

LEMMA LoadToEaxType ==
  ASSUME TypeOK, NEW a \in Operands, NEW h, NEW r \in Long
  PROVE  LoadToEax(a, h, r) \in Long
  <1>1. ASSUME a \in Vars PROVE ZeroExtend(cell[a].lo) \in Long
    <2>1. cell[a].lo \in Word
      BY <1>1 DEF TypeOK, Long
    <2> QED  BY <2>1, ZeroExtendType
  <1>2. ASSUME a \in Imms PROVE ZeroExtend(ImmWord(a)) \in Long
    BY <1>2, ImmType, ZeroExtendType
  <1> QED  BY <1>1, <1>2, SymAddrType DEF LoadToEax, Operands

LEMMA LowIsWord == \A x \in Long : x.lo \in Word
  BY DEF Long

LEMMA OperandTypes ==
  ASSUME TypeOK, NEW a \in Operands, NEW b \in Operands
  PROVE  First(a) \in Long /\ Second(a, b) \in Long /\ OrImm(a, b) \in Word
  <1>1. First(a) \in Long
    BY LoadToEaxType DEF First, TypeOK
  <1>2. Second(a, b) \in Long
    BY <1>1, LoadToEaxType DEF Second
  <1> QED  BY <1>1, <1>2, LowIsWord, ImmType DEF OrImm

\* an i32 operation yields a word
LEMMA ResultType ==
  ASSUME TypeOK, NEW op \in Ariths, NEW a \in Operands, NEW b \in Operands,
         ~Traps(op, First(a).lo, Second(a, b).lo, W)
  PROVE  ResultOf(op, a, b) \in Word
  <1>1. First(a).lo \in Word /\ Second(a, b).lo \in Word /\ OrImm(a, b) \in Word
        /\ First(b).lo \in Word /\ 0 \in Word
    BY OperandTypes, LowIsWord, WIsPositive
  <1>2. W \in Nat \ {0} /\ Word = 0 .. W - 1
    BY WIsPositive DEF Word
  <1>3. \A x, y \in Word : Arith("add", x, y, W) \in Word /\ Arith("sub", x, y, W) \in Word
                           /\ Arith("mul", x, y, W) \in Word
    <2> SUFFICES ASSUME NEW x \in Word, NEW y \in Word
                 PROVE  Arith("add", x, y, W) \in Word /\ Arith("sub", x, y, W) \in Word
                        /\ Arith("mul", x, y, W) \in Word
      OBVIOUS
    <2>1. ~Traps("add", x, y, W) /\ ~Traps("sub", x, y, W) /\ ~Traps("mul", x, y, W)
      BY DEF Traps
    <2>2. {"add", "sub", "mul"} \subseteq ArithOps
      BY DEF ArithOps
    <2> QED  BY <2>1, <2>2, <1>2, ArithType
  <1>4. CASE op = "add"
    BY <1>1, <1>3, <1>4 DEF ResultOf, SumOf
  <1>5. CASE op = "sub"
    <2>1. DifferenceOf(a, b) \in Word
      BY <1>1, <1>3 DEF DifferenceOf
    <2> QED  BY <2>1, <1>5 DEF ResultOf
  <1>6. CASE op = "mul"
    BY <1>1, <1>3, <1>6 DEF ResultOf, ProductOf
  <1>7. CASE op = "div"
    <2>1. "div" \in ArithOps
      BY DEF ArithOps
    <2>2. QuotientOf(a, b) \in Word
      BY <1>1, <1>2, <1>7, <2>1, ArithType DEF QuotientOf
    <2> QED  BY <2>2, <1>7 DEF ResultOf
  <1>8. op \in ArithOps
    BY WordsAssumption DEF WordsAssumption
  <1> QED  BY <1>4, <1>5, <1>6, <1>7, <1>8 DEF ArithOps

-----------------------------------------------------------------------------
\* Type correctness and eax_holds are one inductive invariant: what eax holds is
\* compared with a cell, which has to be there.
Inv == TypeOK /\ EaxCoherent

Shown == {"", "store", "load", "storep", "loadp2", "jnz", "ret", "call", "syscall",
          "storei", "storeb", "loadi", "loadb"}

LEMMA Showing ==
  /\ Quiet.k \in Shown
  /\ \A k \in Shown : \A vals : [k |-> k, vals |-> vals].k \in Shown
  BY DEF Quiet, Shown

LEMMA NamesDiffer == Nothing \notin Vars /\ Longs \subseteq Vars /\ InReg \subseteq Vars
  BY WordsAssumption DEF WordsAssumption, Operands

LEMMA Keep32Type ==
  ASSUME TypeOK, NEW dst \in Vars, NEW r \in Long, cell' = Keep32(dst, r)
  PROVE  /\ cell' \in [Vars -> Long]
         /\ cell'[dst].lo = r.lo
         /\ \A v \in InReg \ Longs : cell'[v].hi = 0
  <1>1. r.lo \in Word /\ r.hi \in Word
    BY DEF Long
  <1>2. \A v \in Vars : cell[v] \in Long
    BY DEF TypeOK
  <1>3. cell' \in [Vars -> Long] /\ cell'[dst].lo = r.lo
    <2>1. CASE dst \in InReg
      <3>1. cell' = [cell EXCEPT ![dst] = ZeroExtend(r.lo)]
        BY <2>1 DEF Keep32
      <3>2. ZeroExtend(r.lo) \in Long /\ ZeroExtend(r.lo).lo = r.lo
        BY <1>1, ZeroExtendType DEF ZeroExtend
      <3> QED  BY <3>1, <3>2 DEF TypeOK
    <2>2. CASE dst \notin InReg
      <3>1. cell' = [cell EXCEPT ![dst] = [cell[dst] EXCEPT !.lo = r.lo]]
        BY <2>2 DEF Keep32
      <3>2. [cell[dst] EXCEPT !.lo = r.lo] \in Long
            /\ [cell[dst] EXCEPT !.lo = r.lo].lo = r.lo
        BY <1>1, <1>2 DEF Long
      <3> QED  BY <3>1, <3>2 DEF TypeOK
    <2> QED  BY <2>1, <2>2
  <1>4. ASSUME NEW v \in InReg \ Longs PROVE cell'[v].hi = 0
    <2>1. v \in Vars
      BY NamesDiffer
    <2>2. CASE v = dst
      <3>1. cell' = [cell EXCEPT ![dst] = ZeroExtend(r.lo)]
        BY <2>2 DEF Keep32
      <3>2. ZeroExtend(r.lo).hi = 0
        BY DEF ZeroExtend
      <3> QED  BY <3>1, <3>2, <2>2 DEF TypeOK
    <2>3. CASE v # dst
      BY <2>1, <2>3 DEF Keep32, TypeOK
    <2> QED  BY <2>2, <2>3
  <1> QED  BY <1>3, <1>4

\* the instructions that keep 32 bits and say so, whatever the width of dst
LEMMA KeepEaxStep ==
  ASSUME TypeOK, NEW dst \in Vars, NEW r \in Long, KeepEax(dst, r), out'.k \in Shown
  PROVE  Inv'
  <1>1. /\ rax' = r
        /\ holds' = dst
        /\ cell' = Keep32(dst, r)
    BY DEF KeepEax
  <1> QED  BY <1>1, Keep32Type DEF Inv, TypeOK, EaxCoherent, Shown

\* the i32 instructions that end in store_eax_to
LEMMA StoreEaxStep ==
  ASSUME TypeOK, NEW dst \in Vars, NEW r \in Long, StoreEax(dst, r), out'.k \in Shown
  PROVE  Inv'
  BY KeepEaxStep DEF StoreEax

\* the i64 instructions, which end in emit_rax_to_slot64 and reset_eax
LEMMA StoreRaxStep ==
  ASSUME TypeOK, NEW dst \in Vars, NEW x \in Long, StoreRax(dst, x), Reset, out'.k \in Shown
  PROVE  Inv'
  <1>1. /\ dst \in Longs
        /\ rax' = x
        /\ holds' = Nothing
        /\ cell' = [cell EXCEPT ![dst] = x]
    BY DEF StoreRax, Reset
  <1>2. cell' \in [Vars -> Long] /\ \A v \in InReg \ Longs : cell'[v].hi = 0
    BY <1>1, NamesDiffer DEF TypeOK
  <1> QED  BY <1>1, <1>2, NamesDiffer DEF Inv, TypeOK, EaxCoherent, Shown

\* an instruction that moves no register and ends in reset_eax
LEMMA ResetStep ==
  ASSUME TypeOK, rax' \in Long, cell' = cell, holds' = Nothing, out'.k \in Shown
  PROVE  Inv'
  BY NamesDiffer DEF Inv, TypeOK, EaxCoherent, Shown

\* a write through a pointer that may hit a slot
LEMMA PokeStep ==
  ASSUME TypeOK, NEW p, NEW new \in [Vars -> Word],
         cell' = [v \in Vars |-> IF Hit(v, p) THEN [cell[v] EXCEPT !.lo = new[v]] ELSE cell[v]]
  PROVE  cell' \in [Vars -> Long] /\ \A v \in InReg \ Longs : cell'[v].hi = 0
  <1>1. ASSUME NEW v \in Vars PROVE [cell[v] EXCEPT !.lo = new[v]] \in Long
    BY DEF TypeOK, Long
  <1>2. cell' \in [Vars -> Long]
    BY <1>1 DEF TypeOK
  <1>3. \A v \in InReg : v \in Vars /\ ~Hit(v, p)
    BY NamesDiffer DEF Hit
  <1> QED  BY <1>2, <1>3 DEF TypeOK

-----------------------------------------------------------------------------
\* Every instruction keeps the invariant.

LEMMA Arith32Step == ASSUME TypeOK, Arith32 PROVE Inv'
  <1>1. PICK op \in Ariths, f \in Forms :
          /\ Silently
          /\ ~Traps(op, First(f.a).lo, Second(f.a, f.b).lo, W)
          /\ StoreEax(f.dst, ZeroExtend(ResultOf(op, f.a, f.b)))
    BY DEF Arith32
  <1>2. ZeroExtend(ResultOf(op, f.a, f.b)) \in Long
    BY <1>1, OperandsOfForms, ResultType, ZeroExtendType
  <1>3. out'.k \in Shown
    BY <1>1 DEF Silently, Quiet, Shown
  <1> QED  BY <1>1, <1>2, <1>3, OperandsOfForms, StoreEaxStep

LEMMA Compares32Step == ASSUME TypeOK, Compare32 \/ Compare64 PROVE Inv'
  <1>1. PICK f \in Forms, w \in {0, 1} : Silently /\ StoreEax(f.dst, ZeroExtend(w))
    <2>1. \A op \in Compares : op \in CmpOps
      BY WordsAssumption DEF WordsAssumption
    <2>2. CASE Compare32
      <3>1. PICK op \in Compares, f \in Forms :
              Silently /\ StoreEax(f.dst, ZeroExtend(Compare(op, First(f.a).lo, OrImm(f.a, f.b), W)))
        BY <2>2 DEF Compare32
      <3>2. Compare(op, First(f.a).lo, OrImm(f.a, f.b), W) \in {0, 1}
        BY <2>1, OperandsOfForms, OperandTypes, LowIsWord, WordsAreInts, WIsPositive, CompareType
      <3> QED  BY <3>1, <3>2
    <2>3. CASE Compare64
      <3>1. PICK op \in Compares, f \in Forms :
              /\ Silently
              /\ StoreEax(f.dst,
                          ZeroExtend(Compare(op, Bits(LoadPtr(f.a)), Bits(LoadPtr(f.b)), W * W)))
        BY <2>3 DEF Compare64
      <3>2. Compare(op, Bits(LoadPtr(f.a)), Bits(LoadPtr(f.b)), W * W) \in {0, 1}
        BY <2>1, OperandsOfForms, LoadPtrType, BitsType, WIsPositive, CompareType
      <3> QED  BY <3>1, <3>2
    <2> QED  BY <2>2, <2>3
  <1>2. ZeroExtend(w) \in Long
    BY BoolIsWord, ZeroExtendType
  <1>3. out'.k \in Shown
    BY <1>1 DEF Silently, Quiet, Shown
  <1> QED  BY <1>1, <1>2, <1>3, OperandsOfForms, StoreEaxStep

LEMMA MoveStep == ASSUME TypeOK, Store \/ Load \/ StoreP \/ LoadP2 PROVE Inv'
  <1>1. out'.k \in Shown
    <2>1. PICK k \in {"store", "load", "storep", "loadp2"} : Shows(k, <<>>)
      BY DEF Store, Load, StoreP, LoadP2
    <2>2. out'.k = k
      BY <2>1 DEF Shows
    <2> QED  BY <2>2 DEF Shown
  <1>2. \A a \in Operands : First(a) \in Long /\ LoadPtr(a) \in Long
    BY OperandTypes, LoadPtrType
  <1>3. CASE Store \/ Load
    <2>1. \E dst \in Vars, r \in Long : KeepEax(dst, r)
      BY <1>2, <1>3, OperandsOfMoves DEF Store, Load, StoreEax
    <2> QED  BY <1>1, <2>1, KeepEaxStep
  <1>4. CASE StoreP \/ LoadP2
    <2>1. \E dst \in Vars, x \in Long : StoreRax(dst, x) /\ Reset
      BY <1>2, <1>4, OperandsOfMoves DEF StoreP, LoadP2
    <2> QED  BY <1>1, <2>1, StoreRaxStep
  <1> QED  BY <1>3, <1>4

LEMMA LongsStep == ASSUME TypeOK, Move64 \/ AddP \/ AddrA \/ Arith64 PROVE Inv'
  <1>1. \E f \in Forms, x \in Long : Silently /\ StoreRax(f.dst, x) /\ Reset
    <2>1. CASE Move64
      BY <2>1, OperandsOfForms, LoadPtrType DEF Move64
    <2>2. CASE AddP
      <3>1. PICK f \in Forms : Silently /\ StoreRax(f.dst, PointerPlus(f.a, f.b)) /\ Reset
        BY <2>2 DEF AddP
      <3>2. \A n \in Int : LongOf(n % (W * W)) \in Long
        BY WIsPositive, ModRange, LongOfType
      <3>3. Bits(LoadPtr(f.a)) \in Int
        BY OperandsOfForms, LoadPtrType, BitsType
      <3>4. f.b \in Imms => Bits(ImmLong(f.b)) \in Int
        BY ImmType, BitsType
      <3>5. Bits(SignExtend(First(f.b).lo)) \in Int
        BY OperandsOfForms, OperandTypes, LowIsWord, SignExtendType, BitsType
      <3>6. \A m, n \in Int : m + n \in Int
        OBVIOUS
      <3>7. PointerPlus(f.a, f.b) \in Long
        BY <3>2, <3>3, <3>4, <3>5, <3>6, Zenon DEF PointerPlus
      <3> QED  BY <3>1, <3>7
    <2>3. CASE AddrA
      BY <2>3, WordsAssumption DEF AddrA, WordsAssumption
    <2>4. CASE Arith64
      <3>1. PICK op \in Ariths, f \in Forms :
              /\ Silently
              /\ ~Traps(op, Bits(LoadPtr(f.a)), Bits(LoadPtr(f.b)), W * W)
              /\ StoreRax(f.dst, LongOf(Arith(op, Bits(LoadPtr(f.a)), Bits(LoadPtr(f.b)), W * W)))
              /\ Reset
        BY <2>4 DEF Arith64
      <3>2. op \in ArithOps
        BY WordsAssumption DEF WordsAssumption
      <3>3. \A x \in Long : Bits(x) \in 0 .. W * W - 1
        BY BitsRange
      <3>4. Arith(op, Bits(LoadPtr(f.a)), Bits(LoadPtr(f.b)), W * W) \in 0 .. W * W - 1
        BY <3>1, <3>2, <3>3, OperandsOfForms, LoadPtrType, WIsPositive, ArithType
      <3>5. \A n, m \in Int : n \in 0 .. m => n \in Int
        OBVIOUS
      <3>6. Arith(op, Bits(LoadPtr(f.a)), Bits(LoadPtr(f.b)), W * W) \in Int
        BY <3>4
      <3> QED  BY <3>1, <3>6, LongOfType
    <2> QED  BY <2>1, <2>2, <2>3, <2>4
  <1>2. Silently => out'.k \in Shown
    BY Showing DEF Silently
  <1> QED  BY <1>1, <1>2, OperandsOfForms, StoreRaxStep

LEMMA ControlStep == ASSUME TypeOK, Label \/ Jnz \/ Ret \/ RetV PROVE Inv'
  <1>1. CASE Label
    <2>1. out'.k \in Shown
      BY <1>1, Showing DEF Label, Silently
    <2> QED  BY <1>1, <2>1, ResetStep DEF Label, AtLabel, TypeOK
  <1>2. CASE Jnz
    BY <1>2, OperandsOfForms, OperandTypes, ResetStep DEF Jnz, AtLabel, Shows, Shown
  <1>3. CASE Ret
    <2>1. PICK f \in Forms : rax' = SignExtend(First(f.a).lo)
      BY <1>3 DEF Ret
    <2>2. rax' \in Long
      BY <2>1, OperandsOfForms, OperandTypes, LowIsWord, SignExtendType
    <2> QED  BY <1>3, <2>2, ResetStep DEF Ret, Reset, Shows, Shown
  <1>4. CASE RetV
    BY <1>4, WIsPositive, ZeroExtendType, ResetStep DEF RetV, Reset, Shows, Shown
  <1> QED  BY <1>1, <1>2, <1>3, <1>4

LEMMA AnswerStep == ASSUME TypeOK, Call \/ Syscall PROVE Inv'
  <1>1. PICK r \in Results, k \in {"call", "syscall"} : Answered(r) /\ \E vals : Shows(k, vals)
    BY DEF Call, Syscall
  <1>2. out'.k = k
    BY <1>1 DEF Shows
  <1>3. r \in Long /\ out'.k \in Shown
    BY <1>2, WordsAssumption DEF WordsAssumption, Shown
  <1> QED  BY <1>1, <1>3, OperandsOfForms, StoreEaxStep, ResetStep DEF Answered, Reset

LEMMA WriteStep == ASSUME TypeOK, StoreI \/ StoreB PROVE Inv'
  <1>1. holds' = Nothing /\ out'.k \in Shown
    <2>1. PICK k \in {"storei", "storeb"} : Reset /\ \E vals : Shows(k, vals)
      BY DEF StoreI, StoreB
    <2>2. out'.k = k
      BY <2>1 DEF Shows
    <2> QED  BY <2>1, <2>2 DEF Reset, Shown
  <1>2. \A f \in Forms : /\ LoadPtr(f.dst) \in Long
                         /\ LoadToEax(f.a, Nothing, rax) \in Long
                         /\ Operand(f.a) \in Word
    <2> SUFFICES ASSUME NEW f \in Forms
                 PROVE  /\ LoadPtr(f.dst) \in Long
                        /\ LoadToEax(f.a, Nothing, rax) \in Long
                        /\ Operand(f.a) \in Word
      OBVIOUS
    <2>1. rax \in Long
      BY DEF TypeOK
    <2>2. LoadToEax(f.a, Nothing, rax) \in Long
      BY <2>1, OperandsOfForms, LoadToEaxType
    <2> QED  BY <2>2, OperandsOfForms, LoadPtrType, LowIsWord, ImmType DEF Operand
  <1>3. \A v \in Vars : cell[v].lo \in Word
    BY DEF TypeOK, Long
  <1>4. CASE StoreI
    <2>1. PICK f \in Forms :
            /\ rax' = IF f.a \in Imms THEN LoadPtr(f.dst) ELSE LoadToEax(f.a, Nothing, rax)
            /\ cell' = [v \in Vars |-> IF Hit(v, LoadPtr(f.dst))
                                       THEN [cell[v] EXCEPT !.lo = Operand(f.a)] ELSE cell[v]]
      BY <1>4 DEF StoreI
    <2> DEFINE new == [v \in Vars |-> Operand(f.a)]
    <2>2. new \in [Vars -> Word]
      BY <1>2
    <2>3. cell' = [v \in Vars |-> IF Hit(v, LoadPtr(f.dst))
                                  THEN [cell[v] EXCEPT !.lo = new[v]] ELSE cell[v]]
      BY <2>1
    <2>4. cell' \in [Vars -> Long] /\ \A v \in InReg \ Longs : cell'[v].hi = 0
      <3> HIDE DEF new
      <3> QED  BY <2>2, <2>3, PokeStep
    <2>5. rax' \in Long
      BY <1>2, <2>1
    <2> QED  BY <1>1, <2>4, <2>5, NamesDiffer DEF Inv, TypeOK, EaxCoherent, Shown
  <1>5. CASE StoreB
    <2>1. PICK f \in Forms :
            /\ rax' = LoadToEax(f.a, Nothing, rax)
            /\ cell' = [v \in Vars |-> IF Hit(v, LoadPtr(f.dst))
                          THEN [cell[v] EXCEPT
                                  !.lo = SetByte(cell[v].lo, LoadToEax(f.a, Nothing, rax).lo)]
                          ELSE cell[v]]
      BY <1>5 DEF StoreB
    <2> DEFINE new == [v \in Vars |-> SetByte(cell[v].lo, LoadToEax(f.a, Nothing, rax).lo)]
    <2>2. new \in [Vars -> Word]
      BY <1>2, <1>3, LowIsWord, SetByteType
    <2>3. cell' = [v \in Vars |-> IF Hit(v, LoadPtr(f.dst))
                                  THEN [cell[v] EXCEPT !.lo = new[v]] ELSE cell[v]]
      BY <2>1
    <2>4. cell' \in [Vars -> Long] /\ \A v \in InReg \ Longs : cell'[v].hi = 0
      <3> HIDE DEF new
      <3> QED  BY <2>2, <2>3, PokeStep
    <2>5. rax' \in Long
      BY <1>2, <2>1
    <2> QED  BY <1>1, <2>4, <2>5, NamesDiffer DEF Inv, TypeOK, EaxCoherent, Shown
  <1> QED  BY <1>4, <1>5

LEMMA ReadStep == ASSUME TypeOK, LoadI \/ LoadB PROVE Inv'
  <1>1. ASSUME NEW p, NEW r \in Results PROVE Fetched(p, r) \in Word
    <2>1. r.lo \in Word
      BY WordsAssumption, LowIsWord DEF WordsAssumption
    <2>2. \A v \in Vars : cell[v].lo \in Word
      BY DEF TypeOK, Long
    <2> QED  BY <2>1, <2>2 DEF Fetched
  <1>2. CASE LoadI
    <2>1. PICK f \in Forms, r \in Results :
            /\ f.dst \notin Longs
            /\ rax' = ZeroExtend(Fetched(LoadPtr(f.a), r))
            /\ cell' = Keep32(f.dst, rax')
            /\ holds' = Nothing
            /\ out'.k \in Shown
      BY <1>2 DEF LoadI, Reset, Shows, Shown
    <2>2. rax' \in Long
      BY <1>1, <2>1, ZeroExtendType
    <2>3. cell' \in [Vars -> Long] /\ \A v \in InReg \ Longs : cell'[v].hi = 0
      BY <2>1, <2>2, OperandsOfForms, Keep32Type
    <2> QED  BY <2>1, <2>2, <2>3, NamesDiffer DEF Inv, TypeOK, EaxCoherent, Shown
  <1>3. CASE LoadB
    <2>1. PICK f \in Forms, r \in Results :
            /\ StoreEax(f.dst, ZeroExtend(Fetched(LoadPtr(f.a), r) % ByteRange))
            /\ out'.k \in Shown
      BY <1>3 DEF LoadB, Shows, Shown
    <2>2. Fetched(LoadPtr(f.a), r) % ByteRange \in Word
      BY <1>1, ByteIsWord
    <2> QED  BY <2>1, <2>2, OperandsOfForms, ZeroExtendType, StoreEaxStep
  <1> QED  BY <1>2, <1>3

-----------------------------------------------------------------------------
LEMMA InvInit == Init => Inv
  <1> SUFFICES ASSUME Init PROVE Inv
    OBVIOUS
  <1>1. out.k \in Shown
    BY Showing DEF Init
  <1> QED  BY <1>1, NamesDiffer DEF Init, Inv, TypeOK, EaxCoherent, Shown

LEMMA InvNext == Inv /\ [Next]_vars => Inv'
  <1> SUFFICES ASSUME Inv, [Next]_vars PROVE Inv'
    OBVIOUS
  <1>1. TypeOK
    BY DEF Inv
  <1>2. CASE UNCHANGED vars
    BY <1>2 DEF vars, Inv, TypeOK, EaxCoherent
  <1>3. CASE Next
    BY <1>1, <1>3, Arith32Step, Compares32Step, MoveStep, LongsStep, ControlStep, AnswerStep,
       WriteStep, ReadStep DEF Next
  <1> QED  BY <1>2, <1>3

\* gen_func never leaves a register or a slot with something that is not 64 bits, an
\* i32 in rbx with an upper half, or eax_holds naming what it must not.
THEOREM TypeCorrectGen == Spec => []TypeOK
  <1>1. Inv => TypeOK
    BY DEF Inv
  <1> QED  BY InvInit, InvNext, <1>1, PTL DEF Spec

\* However the instructions of a function follow each other, what eax_holds names is
\* what eax holds: a load that load_to_eax leaves out would have changed nothing.
THEOREM EaxAlwaysCoherent == Spec => []EaxCoherent
  <1>1. Inv => EaxCoherent
    BY DEF Inv
  <1> QED  BY InvInit, InvNext, <1>1, PTL DEF Spec

-----------------------------------------------------------------------------
\* The refinement.  An instruction reads an i32 operand by its low half and an i64 one
\* whole, and so does CaiIR: where load_to_eax leaves a load out, EaxCoherent says that
\* nothing is missed.

Abs == [v \in Vars |-> IF v \in Longs THEN cell[v] ELSE ZeroExtend(cell[v].lo)]

\* The texts of which the code is right.  A load or a store through an address that a
\* register holds, an i32 register as the argument of a syscall and a register as its number
\* are what it gets wrong: cai_converter.c:835-865, :1043-1046 and :1079.
SlotsAreNamed == \A m \in Moves : m.ptr \in Slots
ArgumentsAreFull == \A args \in SyscallLists : \A i \in DOMAIN args : Is64(args[i])
NumbersAreFixed == Numbers \intersect Vars = {}

\* The operators of CaiWords are the same ones in CaiIR.
LEMMA SameWords ==
  /\ \A w : IR!ZeroExtend(w) = ZeroExtend(w) /\ IR!SignExtend(w) = SignExtend(w)
  /\ \A i : IR!ImmLong(i) = ImmLong(i)
  /\ \A x : IR!Bits(x) = Bits(x) /\ IR!LongOf(x) = LongOf(x)
  /\ \A w, v : IR!SetByte(w, v) = SetByte(w, v)
  BY DEF IR!ZeroExtend, ZeroExtend, IR!SignExtend, SignExtend, IR!ImmLong, ImmLong, IR!Bits, Bits,
         IR!LongOf, LongOf, IR!SetByte, SetByte

LEMMA SameArith ==
  /\ \A op, a, b, range : IR!Traps(op, a, b, range) <=> Traps(op, a, b, range)
  /\ \A op, a, b, range : IR!Arith(op, a, b, range) = Arith(op, a, b, range)
  /\ \A op, a, b, range : IR!Compare(op, a, b, range) = Compare(op, a, b, range)
  <1>1. \A n, range : IR!Signed(n, range) = Signed(n, range)
    BY DEF IR!Signed, Signed
  <1>2. \A a, b : IR!Quotient(a, b) = Quotient(a, b)
    BY DEF IR!Quotient, Quotient, IR!Magnitude, Magnitude
  <1>3. \A op, a, b, range : IR!Traps(op, a, b, range) <=> Traps(op, a, b, range)
    BY <1>1, <1>2 DEF IR!Traps, Traps
  <1>4. \A op, a, b, range : IR!Arith(op, a, b, range) = Arith(op, a, b, range)
    <2> TAKE op, a, b, range
    <2> DEFINE q == Quotient(Signed(a, range), Signed(b, range))
    <2>1. IR!Quotient(IR!Signed(a, range), IR!Signed(b, range)) = q
      BY <1>1, <1>2
    <2> HIDE DEF q
    <2>2. Arith(op, a, b, range) = CASE op = "add" -> (a + b) % range
                                     [] op = "sub" -> (a - b) % range
                                     [] op = "mul" -> (a * b) % range
                                     [] op = "div" -> q % range
      BY Zenon DEF Arith, q
    <2> QED  BY <2>1, <2>2, Zenon DEF IR!Arith
  <1>5. \A op, a, b, range : IR!Compare(op, a, b, range) = Compare(op, a, b, range)
    <2> TAKE op, a, b, range
    <2> DEFINE x == Signed(a, range)
               y == Signed(b, range)
    <2>1. IR!Signed(a, range) = x /\ IR!Signed(b, range) = y
      BY <1>1
    <2>2. Compare(op, a, b, range) = IF CASE op = "clt" -> x < y
                                          [] op = "cle" -> x <= y
                                          [] op = "ceq" -> x = y
                                          [] op = "cne" -> x # y
                                          [] op = "cgt" -> x > y
                                          [] op = "cge" -> x >= y
                                     THEN 1 ELSE 0
      BY Zenon DEF Compare
    <2> HIDE DEF x, y
    <2> QED  BY <2>1, <2>2, Zenon DEF IR!Compare
  <1> QED  BY <1>3, <1>4, <1>5

\* The abstract register of an i32 is the low half of its cell.
LEMMA AbsOf ==
  ASSUME TypeOK, NEW v \in Vars
  PROVE  /\ Abs[v].lo = cell[v].lo
         /\ v \in Longs => Abs[v] = cell[v]
         /\ v \notin Longs => Abs[v] = ZeroExtend(cell[v].lo)
  BY DEF Abs, ZeroExtend

\* What CaiIR reads.
LEMMA ReadsAlike ==
  ASSUME TypeOK, NEW a \in Operands
  PROVE  /\ IR!Read64(a).lo = LoadPtr(a).lo /\ IR!Read32(a) = LoadPtr(a).lo
         /\ Is64(a) => IR!Read64(a) = LoadPtr(a)
         /\ IR!Is64(a) <=> Is64(a)
         /\ a \in Imms => ImmWord(a) = LoadPtr(a).lo
  <1>1. IR!Read64(a) = IF a \in Vars THEN Abs[a] ELSE LoadPtr(a)
    BY SameWords DEF IR!Read64, Abs, LoadPtr
  <1>2. IR!Read32(a) = IR!Read64(a).lo
    BY DEF IR!Read32
  <1>3. a \in Vars => LoadPtr(a) = cell[a]
    BY DEF LoadPtr
  <1>4. a \in Imms => a \notin Vars /\ a \notin Syms
    BY WordsAssumption DEF WordsAssumption
  <1>5. a \in Imms => ImmWord(a) = LoadPtr(a).lo
    BY <1>4 DEF LoadPtr, ImmLong, ImmWord, SignExtend
  <1>6. IR!Is64(a) <=> Is64(a)
    BY DEF IR!Is64, Is64
  <1> QED  BY <1>1, <1>2, <1>3, <1>5, <1>6, AbsOf DEF Is64

\* Whatever eax_holds says, the low half of what is loaded is the operand's.
LEMMA LoadIsRead ==
  ASSUME TypeOK, NEW a \in Operands, NEW h, NEW r,
         h \in Operands => r.lo = LoadPtr(h).lo
  PROVE  LoadToEax(a, h, r).lo = LoadPtr(a).lo
  <1>1. a \in Vars => LoadPtr(a) = cell[a]
    BY DEF LoadPtr
  <1>2. a \in Syms => a \notin Vars /\ LoadPtr(a) = SymAddr[a]
    BY WordsAssumption DEF WordsAssumption, LoadPtr
  <1>3. a \notin Vars /\ a \notin Syms => a \in Imms
    BY DEF Operands
  <1>4. ZeroExtend(cell[a].lo).lo = cell[a].lo /\ ZeroExtend(ImmWord(a)).lo = ImmWord(a)
    BY DEF ZeroExtend
  <1>5. a \in Imms => ImmWord(a) = LoadPtr(a).lo
    BY ReadsAlike
  <1>6. CASE h = a
    BY <1>6 DEF LoadToEax
  <1>7. CASE h # a
    BY <1>1, <1>2, <1>3, <1>4, <1>5, <1>7 DEF LoadToEax
  <1> QED  BY <1>6, <1>7

LEMMA OperandsAreRead ==
  ASSUME Inv, NEW a \in Operands, NEW b \in Operands
  PROVE  /\ First(a).lo = IR!Read32(a)
         /\ Second(a, b).lo = IR!Read32(b)
         /\ OrImm(a, b) = IR!Read32(b)
         /\ LoadToEax(a, Nothing, rax).lo = IR!Read32(a)
         /\ Operand(a) = IR!Read32(a)
  <1>1. TypeOK /\ EaxCoherent
    BY DEF Inv
  <1>2. holds \in Operands => rax.lo = LoadPtr(holds).lo
    <2>1. Nothing \notin Operands
      BY WordsAssumption DEF WordsAssumption
    <2> QED  BY <1>1, <2>1 DEF TypeOK, EaxCoherent, LoadPtr
  <1>3. First(a).lo = LoadPtr(a).lo
    BY <1>1, <1>2, LoadIsRead DEF First
  <1>4. Second(a, b).lo = LoadPtr(b).lo
    BY <1>1, <1>3, LoadIsRead DEF Second
  <1>5. LoadToEax(a, Nothing, rax).lo = LoadPtr(a).lo
    BY <1>1, LoadIsRead, WordsAssumption DEF WordsAssumption
  <1>6. IR!Read32(a) = LoadPtr(a).lo /\ IR!Read32(b) = LoadPtr(b).lo
        /\ (a \in Imms => ImmWord(a) = LoadPtr(a).lo)
        /\ (b \in Imms => ImmWord(b) = LoadPtr(b).lo)
    BY <1>1, ReadsAlike
  <1> QED  BY <1>3, <1>4, <1>5, <1>6 DEF OrImm, Operand

\* What a store leaves in the registers.
LEMMA AbsSet ==
  ASSUME TypeOK, NEW d \in Vars, NEW x \in Long, cell' \in [Vars -> Long],
         \A v \in Vars : v # d => cell'[v] = cell[v],
         d \in Longs => cell'[d] = x, d \notin Longs => cell'[d].lo = x.lo
  PROVE  /\ d \in Longs => Abs' = [Abs EXCEPT ![d] = x]
         /\ d \notin Longs => Abs' = [Abs EXCEPT ![d] = ZeroExtend(x.lo)]
  BY DEF Abs

\* One register of CaiIR is written.
Writes(d, x) == Abs' = [Abs EXCEPT ![d] = x]

LEMMA StoreEaxIsSet ==
  ASSUME TypeOK, NEW d \in Vars, NEW r \in Long, StoreEax(d, r) \/ (d \notin Longs /\ cell' = Keep32(d, r))
  PROVE  d \notin Longs /\ Writes(d, ZeroExtend(r.lo))
  <1>1. d \notin Longs /\ cell' = Keep32(d, r)
    BY DEF StoreEax, KeepEax
  <1>2. cell' \in [Vars -> Long] /\ cell'[d].lo = r.lo
    BY <1>1, Keep32Type
  <1>3. \A v \in Vars : v # d => cell'[v] = cell[v]
    BY <1>1 DEF Keep32, TypeOK
  <1>4. Abs' = [Abs EXCEPT ![d] = ZeroExtend(r.lo)]
    BY <1>1, <1>2, <1>3, AbsSet
  <1> QED  BY <1>1, <1>4 DEF Writes

LEMMA StoreRaxIsSet ==
  ASSUME TypeOK, NEW d \in Vars, NEW x \in Long, StoreRax(d, x)
  PROVE  d \in Longs /\ Writes(d, x)
  <1>1. d \in Longs /\ cell' = [cell EXCEPT ![d] = x]
    BY DEF StoreRax
  <1>2. cell' \in [Vars -> Long] /\ cell'[d] = x /\ \A v \in Vars : v # d => cell'[v] = cell[v]
    BY <1>1 DEF TypeOK
  <1>3. Abs' = [Abs EXCEPT ![d] = x]
    BY <1>1, <1>2, AbsSet
  <1> QED  BY <1>1, <1>3 DEF Writes

LEMMA AbsStays == ASSUME cell' = cell PROVE Abs' = Abs
  BY DEF Abs

LEMMA SameShows ==
  /\ IR!Silently <=> Silently
  /\ \A k, vals : IR!Shows(k, vals) <=> (out' = [k |-> k, vals |-> vals])
  /\ \A v, p : IR!Hit(v, p) <=> Hit(v, p)
  BY DEF IR!Silently, Silently, IR!Quiet, Quiet, IR!Shows, IR!Hit, Hit

-----------------------------------------------------------------------------
\* Every instruction of the generator is one of CaiIR.

\* A slot is the only memory that its name points to.
LEMMA SlotOnly ==
  ASSUME NEW p \in Slots, NEW v PROVE IR!PointsTo(p, v) <=> v = p
  BY DEF IR!PointsTo

LEMMA SlotIsRead ==
  ASSUME NEW p \in Slots PROVE p \in Vars \ InReg /\ IR!At(p) = {Abs[p]}
  <1>1. p \in Vars \ InReg
    BY WordsAssumption DEF WordsAssumption
  <1>2. {v \in Vars : IR!PointsTo(p, v)} = {p}
    BY <1>1, SlotOnly
  <1> QED  BY <1>1, <1>2 DEF IR!At, Abs

LEMMA StoreMaps == ASSUME Inv, SlotsAreNamed, Store PROVE IR!Store
  <1>1. PICK m \in Moves :
          /\ out' = [k |-> "store", vals |-> <<>>]
          /\ cell' = Keep32(m.ptr, First(m.reg))
    BY DEF Store, KeepEax, Shows
  <1>2. TypeOK /\ m.ptr \in Slots /\ m.ptr \in Vars /\ m.ptr \notin InReg
    BY SlotIsRead DEF Inv, SlotsAreNamed
  <1> DEFINE w == IR!Read32(m.reg)
             new == [v \in Vars |-> w]
  <1>3. First(m.reg).lo = w
    BY OperandsOfMoves, OperandsAreRead
  <1>4. cell' = [cell EXCEPT ![m.ptr] = [cell[m.ptr] EXCEPT !.lo = w]]
    BY <1>1, <1>2, <1>3 DEF Keep32
  <1> HIDE DEF w
  <1>5. Abs' = [v \in Vars |-> IF v = m.ptr THEN [Abs[v] EXCEPT !.lo = w] ELSE Abs[v]]
    <2>1. ASSUME NEW v \in Vars
          PROVE  Abs'[v] = IF v = m.ptr THEN [Abs[v] EXCEPT !.lo = w] ELSE Abs[v]
      <3>1. cell'[v] = IF v = m.ptr THEN [cell[v] EXCEPT !.lo = w] ELSE cell[v]
        BY <1>2, <1>4 DEF TypeOK
      <3>2. cell[v] \in Long
        BY <1>2 DEF TypeOK
      <3>3. v = m.ptr => cell'[v].lo = w
        BY <3>1, <3>2 DEF Long
      <3>4. v = m.ptr => ZeroExtend(cell'[v].lo) = [ZeroExtend(cell[v].lo) EXCEPT !.lo = w]
        BY <3>3 DEF ZeroExtend
      <3> QED  BY <3>1, <3>4 DEF Abs
    <2>2. Abs' = [v \in Vars |-> Abs'[v]]
      BY DEF Abs
    <2> QED  BY <2>1, <2>2
  <1>6. Abs' = [v \in Vars |-> IF IR!PointsTo(m.ptr, v) THEN [Abs[v] EXCEPT !.lo = w] ELSE Abs[v]]
    BY <1>2, <1>5, SlotOnly
  <1>7. IR!Pointer(m.ptr)
    BY <1>2 DEF IR!Pointer
  <1> QED  BY <1>1, <1>6, <1>7 DEF IR!Store, IR!Shows, Abs, w

LEMMA LoadMaps == ASSUME Inv, SlotsAreNamed, Load PROVE IR!Load
  <1>1. PICK m \in Moves :
          /\ out' = [k |-> "load", vals |-> <<>>]
          /\ m.reg \in Vars /\ StoreEax(m.reg, First(m.ptr))
    BY DEF Load, Shows
  <1>2. TypeOK /\ m.ptr \in Slots /\ m.ptr \in Vars /\ IR!Pointer(m.ptr)
    BY SlotIsRead DEF Inv, SlotsAreNamed, IR!Pointer
  <1>3. First(m.ptr) \in Long /\ First(m.ptr).lo = IR!Read32(m.ptr)
    BY <1>2, OperandsOfMoves, OperandTypes, OperandsAreRead
  <1>4. m.reg \notin Longs /\ Writes(m.reg, ZeroExtend(Abs[m.ptr].lo))
    <2>1. IR!Read32(m.ptr) = Abs[m.ptr].lo
      BY <1>2 DEF IR!Read32, IR!Read64, Abs
    <2> QED  BY <1>1, <1>2, <1>3, <2>1, StoreEaxIsSet
  <1>5. Abs[m.ptr] \in IR!At(m.ptr)
    BY <1>2, SlotIsRead
  <1> QED  BY <1>1, <1>2, <1>4, <1>5, SameWords DEF IR!Load, IR!Shows, IR!Set32, Writes, Abs

LEMMA StorePMaps == ASSUME Inv, SlotsAreNamed, StoreP PROVE IR!StoreP
  <1>1. PICK m \in Moves :
          /\ out' = [k |-> "storep", vals |-> <<>>]
          /\ Is64(m.reg) /\ StoreRax(m.ptr, LoadPtr(m.reg))
    BY DEF StoreP, Shows
  <1>2. TypeOK /\ m.ptr \in Slots /\ m.ptr \in Vars
    BY SlotIsRead DEF Inv, SlotsAreNamed
  <1>3. IR!Is64(m.reg) /\ IR!Read64(m.reg) = LoadPtr(m.reg) /\ LoadPtr(m.reg) \in Long
    BY <1>1, <1>2, OperandsOfMoves, ReadsAlike, LoadPtrType
  <1>4. m.ptr \in Longs /\ Abs' = [Abs EXCEPT ![m.ptr] = IR!Read64(m.reg)]
    BY <1>1, <1>2, <1>3, StoreRaxIsSet DEF Writes
  <1>5. Abs' = [v \in Vars |-> IF IR!PointsTo(m.ptr, v) THEN IR!Read64(m.reg) ELSE Abs[v]]
    <2>1. Abs' = [v \in Vars |-> IF v = m.ptr THEN IR!Read64(m.reg) ELSE Abs[v]]
      BY <1>4 DEF Abs
    <2> QED  BY <1>2, <2>1, SlotOnly
  <1> QED  BY <1>1, <1>3, <1>4, <1>5 DEF IR!StoreP, IR!Shows, Abs

LEMMA LoadP2Maps == ASSUME Inv, SlotsAreNamed, LoadP2 PROVE IR!LoadP2
  <1>1. PICK m \in Moves :
          /\ out' = [k |-> "loadp2", vals |-> <<>>]
          /\ m.ptr \in Longs /\ m.reg \in Vars
          /\ StoreRax(m.reg, LoadPtr(m.ptr))
    BY DEF LoadP2, Shows
  <1>2. TypeOK /\ m.ptr \in Slots /\ m.ptr \in Vars
    BY SlotIsRead DEF Inv, SlotsAreNamed
  <1>3. LoadPtr(m.ptr) \in Long /\ LoadPtr(m.ptr) = Abs[m.ptr]
    BY <1>1, <1>2, OperandsOfMoves, LoadPtrType, AbsOf DEF LoadPtr
  <1>4. m.reg \in Longs /\ Writes(m.reg, Abs[m.ptr])
    BY <1>1, <1>2, <1>3, StoreRaxIsSet
  <1>5. Abs[m.ptr] \in IR!At(m.ptr)
    BY <1>2, SlotIsRead
  <1> QED  BY <1>1, <1>4, <1>5 DEF IR!LoadP2, IR!Shows, IR!Set64, Writes, Abs

LEMMA ZeroReads == ASSUME TypeOK, 0 \in Operands PROVE IR!Read32(0) = 0
  <1>1. 0 \in Imms
    BY WordsAssumption DEF WordsAssumption, Operands
  <1>2. IR!Read32(0) = ImmWord(0)
    BY <1>1, ReadsAlike
  <1>3. ImmWord(0) = 0
    BY WIsPositive DEF ImmWord
  <1> QED  BY <1>2, <1>3

LEMMA ResultIsMeant ==
  ASSUME Inv, NEW op \in Ariths, NEW a \in Operands, NEW b \in Operands
  PROVE  ResultOf(op, a, b) = Arith(op, IR!Read32(a), IR!Read32(b), W)
  <1>1. /\ First(a).lo = IR!Read32(a) /\ First(b).lo = IR!Read32(b)
        /\ Second(a, b).lo = IR!Read32(b) /\ OrImm(a, b) = IR!Read32(b)
    BY OperandsAreRead
  <1>2. a = 0 => IR!Read32(a) = 0
    BY ZeroReads DEF Inv
  <1>3. CASE op = "add"
    BY <1>1, <1>3 DEF ResultOf, SumOf
  <1>4. CASE op = "sub"
    <2>1. DifferenceOf(a, b) = Arith("sub", IR!Read32(a), IR!Read32(b), W)
      BY <1>1, <1>2 DEF DifferenceOf
    <2> QED  BY <1>4, <2>1 DEF ResultOf
  <1>5. CASE op = "mul"
    BY <1>1, <1>5 DEF ResultOf, ProductOf
  <1>6. CASE op = "div"
    BY <1>1, <1>6 DEF ResultOf, QuotientOf
  <1>7. op \in ArithOps
    BY WordsAssumption DEF WordsAssumption
  <1> QED  BY <1>3, <1>4, <1>5, <1>6, <1>7 DEF ArithOps

LEMMA Arith32Maps == ASSUME Inv, Arith32 PROVE IR!Arith32
  <1>1. PICK op \in Ariths, f \in Forms :
          /\ Silently
          /\ ~Traps(op, First(f.a).lo, Second(f.a, f.b).lo, W)
          /\ StoreEax(f.dst, ZeroExtend(ResultOf(op, f.a, f.b)))
    BY DEF Arith32
  <1>2. TypeOK /\ First(f.a).lo = IR!Read32(f.a) /\ Second(f.a, f.b).lo = IR!Read32(f.b)
    BY OperandsOfForms, OperandsAreRead DEF Inv
  <1>3. ZeroExtend(ResultOf(op, f.a, f.b)) \in Long
    BY <1>1, <1>2, OperandsOfForms, ResultType, ZeroExtendType
  <1>4. /\ f.dst \notin Longs
        /\ Writes(f.dst, ZeroExtend(ZeroExtend(ResultOf(op, f.a, f.b)).lo))
    BY <1>1, <1>2, <1>3, OperandsOfForms, StoreEaxIsSet
  <1>5. ZeroExtend(ResultOf(op, f.a, f.b)).lo = Arith(op, IR!Read32(f.a), IR!Read32(f.b), W)
    BY OperandsOfForms, ResultIsMeant DEF ZeroExtend
  <1> DEFINE n == Arith(op, IR!Read32(f.a), IR!Read32(f.b), W)
  <1>6. f.dst \notin Longs /\ Writes(f.dst, ZeroExtend(n))
    BY <1>4, <1>5
  <1>7. n = IR!Arith(op, IR!Read32(f.a), IR!Read32(f.b), W)
        /\ ~IR!Traps(op, IR!Read32(f.a), IR!Read32(f.b), W)
    BY <1>1, <1>2, SameArith
  <1> HIDE DEF n
  <1> QED  BY <1>1, <1>6, <1>7, SameWords, SameShows DEF IR!Arith32, IR!Set32, Writes, Abs

LEMMA Compare32Maps == ASSUME Inv, Compare32 PROVE IR!Compare32
  <1>1. PICK op \in Compares, f \in Forms :
          Silently /\ StoreEax(f.dst, ZeroExtend(Compare(op, First(f.a).lo, OrImm(f.a, f.b), W)))
    BY DEF Compare32
  <1> DEFINE c == Compare(op, First(f.a).lo, OrImm(f.a, f.b), W)
  <1>2. TypeOK /\ First(f.a).lo = IR!Read32(f.a) /\ OrImm(f.a, f.b) = IR!Read32(f.b)
    BY OperandsOfForms, OperandsAreRead DEF Inv
  <1>3. op \in CmpOps
    BY WordsAssumption DEF WordsAssumption
  <1>4. c \in {0, 1}
    BY <1>2, <1>3, OperandsOfForms, OperandTypes, LowIsWord, WordsAreInts, WIsPositive, CompareType
  <1>5. c = IR!Compare(op, IR!Read32(f.a), IR!Read32(f.b), W)
    BY <1>2, SameArith
  <1> HIDE DEF c
  <1>6. ZeroExtend(c) \in Long /\ ZeroExtend(c).lo = c
    BY <1>4, BoolIsWord, ZeroExtendType DEF ZeroExtend
  <1>7. f.dst \notin Longs /\ Writes(f.dst, ZeroExtend(c))
    BY <1>1, <1>2, <1>6, OperandsOfForms, StoreEaxIsSet DEF c
  <1> QED  BY <1>1, <1>5, <1>7, SameWords, SameShows DEF IR!Compare32, IR!Set32, Writes, Abs

LEMMA Compare64Maps == ASSUME Inv, Compare64 PROVE IR!Compare64
  <1>1. PICK op \in Compares, f \in Forms :
          /\ Silently
          /\ Is64(f.a) /\ Is64(f.b)
          /\ StoreEax(f.dst,
                      ZeroExtend(Compare(op, Bits(LoadPtr(f.a)), Bits(LoadPtr(f.b)), W * W)))
    BY DEF Compare64
  <1> DEFINE c == Compare(op, Bits(LoadPtr(f.a)), Bits(LoadPtr(f.b)), W * W)
  <1>2. TypeOK
    BY DEF Inv
  <1>3. op \in CmpOps
    BY WordsAssumption DEF WordsAssumption
  <1>4. c \in {0, 1}
    BY <1>2, <1>3, OperandsOfForms, LoadPtrType, BitsType, WIsPositive, CompareType
  <1>5. IR!Read64(f.a) = LoadPtr(f.a) /\ IR!Read64(f.b) = LoadPtr(f.b)
        /\ IR!Is64(f.a) /\ IR!Is64(f.b)
    BY <1>1, <1>2, OperandsOfForms, ReadsAlike
  <1>6. c = IR!Compare(op, IR!Bits(IR!Read64(f.a)), IR!Bits(IR!Read64(f.b)), W * W)
    BY <1>5, SameArith, SameWords
  <1> HIDE DEF c
  <1>7. ZeroExtend(c) \in Long /\ ZeroExtend(c).lo = c
    BY <1>4, BoolIsWord, ZeroExtendType DEF ZeroExtend
  <1>8. f.dst \notin Longs /\ Writes(f.dst, ZeroExtend(c))
    BY <1>1, <1>2, <1>7, OperandsOfForms, StoreEaxIsSet DEF c
  <1> QED  BY <1>1, <1>5, <1>6, <1>8, SameWords, SameShows DEF IR!Compare64, IR!Set32, Writes, Abs

-----------------------------------------------------------------------------
LEMMA MoveMaps == ASSUME Inv, Move64 PROVE IR!Move64
  <1>1. PICK f \in Forms : Silently /\ Is64(f.a) /\ StoreRax(f.dst, LoadPtr(f.a))
    BY DEF Move64
  <1>2. TypeOK
    BY DEF Inv
  <1>3. f.dst \in Longs /\ Writes(f.dst, LoadPtr(f.a))
    BY <1>1, <1>2, OperandsOfForms, LoadPtrType, StoreRaxIsSet
  <1>4. IR!Is64(f.a) /\ IR!Read64(f.a) = LoadPtr(f.a)
    BY <1>1, <1>2, OperandsOfForms, ReadsAlike
  <1> QED  BY <1>1, <1>3, <1>4, SameShows DEF IR!Move64, IR!Set64, Writes, Abs

LEMMA AddrMaps == ASSUME Inv, AddrA PROVE IR!AddressOf
  <1>1. PICK f \in Forms, s \in Slots : Silently /\ StoreRax(f.dst, SlotAddr[s])
    BY DEF AddrA
  <1>2. TypeOK /\ SlotAddr[s] \in Long
    BY WordsAssumption DEF Inv, WordsAssumption
  <1>3. f.dst \in Longs /\ Writes(f.dst, SlotAddr[s])
    BY <1>1, <1>2, OperandsOfForms, StoreRaxIsSet
  <1> QED  BY <1>1, <1>3, SameShows DEF IR!AddressOf, IR!Set64, Writes, Abs

\* An immediate offset is sign-extended like one that was loaded.
LEMMA OffsetIsMeant ==
  ASSUME Inv, NEW a \in Operands, NEW b \in Operands, Is64(a)
  PROVE  /\ PointerPlus(a, b)
              = LongOf((Bits(IR!Read64(a)) + Bits(SignExtend(IR!Read32(b)))) % (W * W))
         /\ PointerPlus(a, b) \in Long
  <1>1. TypeOK
    BY DEF Inv
  <1>2. LoadPtr(a) = IR!Read64(a) /\ LoadPtr(a) \in Long
    BY <1>1, ReadsAlike, LoadPtrType
  <1>3. First(b).lo = IR!Read32(b) /\ First(b).lo \in Word
    BY <1>1, OperandsAreRead, OperandTypes, LowIsWord
  <1>4. b \in Imms => ImmLong(b) = SignExtend(IR!Read32(b))
    BY <1>1, ReadsAlike DEF ImmLong, ImmWord
  <1> DEFINE off == Bits(SignExtend(IR!Read32(b)))
             sum == Bits(IR!Read64(a)) + off
  <1>5. PointerPlus(a, b) = LongOf(sum % (W * W))
    BY <1>2, <1>3, <1>4, Zenon DEF PointerPlus
  <1>6. off \in Int /\ Bits(IR!Read64(a)) \in Int
    BY <1>2, <1>3, SignExtendType, BitsType
  <1> HIDE DEF off
  <1>7. sum \in Int
    BY <1>6
  <1> HIDE DEF sum
  <1>8. LongOf(sum % (W * W)) \in Long
    BY <1>7, WIsPositive, ModRange, LongOfType
  <1> QED  BY <1>5, <1>8 DEF sum, off

LEMMA AddPMaps == ASSUME Inv, AddP PROVE IR!Offset
  <1>1. PICK f \in Forms : Silently /\ Is64(f.a) /\ StoreRax(f.dst, PointerPlus(f.a, f.b))
    BY DEF AddP
  <1> DEFINE x == LongOf((Bits(IR!Read64(f.a)) + Bits(SignExtend(IR!Read32(f.b)))) % (W * W))
             y == IR!LongOf((IR!Bits(IR!Read64(f.a)) + IR!Bits(IR!SignExtend(IR!Read32(f.b))))
                            % (W * W))
  <1>2. TypeOK /\ IR!Is64(f.a)
    BY <1>1, OperandsOfForms, ReadsAlike DEF Inv
  <1>3. PointerPlus(f.a, f.b) = x /\ PointerPlus(f.a, f.b) \in Long
    BY <1>1, OperandsOfForms, OffsetIsMeant
  <1>4. y = x
    BY SameWords, Zenon
  <1>5. f.dst \in Longs /\ Writes(f.dst, x)
    <2> HIDE DEF x
    <2> QED  BY <1>1, <1>2, <1>3, OperandsOfForms, StoreRaxIsSet
  <1> QED  BY <1>1, <1>2, <1>4, <1>5, SameShows, Zenon DEF IR!Offset, IR!Set64, Writes, Abs

LEMMA Arith64Maps == ASSUME Inv, Arith64 PROVE IR!Arith64
  <1>1. PICK op \in Ariths, f \in Forms :
          /\ Silently
          /\ Is64(f.a) /\ Is64(f.b)
          /\ ~Traps(op, Bits(LoadPtr(f.a)), Bits(LoadPtr(f.b)), W * W)
          /\ StoreRax(f.dst, LongOf(Arith(op, Bits(LoadPtr(f.a)), Bits(LoadPtr(f.b)), W * W)))
    BY DEF Arith64
  <1> DEFINE a == Bits(LoadPtr(f.a))
             b == Bits(LoadPtr(f.b))
             n == Arith(op, a, b, W * W)
  <1>2. TypeOK
    BY DEF Inv
  <1>3. op \in ArithOps
    BY WordsAssumption DEF WordsAssumption
  <1>4. a \in 0 .. W * W - 1 /\ b \in 0 .. W * W - 1
    BY <1>2, OperandsOfForms, LoadPtrType, BitsRange
  <1>5. n \in Int
    BY <1>1, <1>3, <1>4, WIsPositive, ArithType
  <1>6. IR!Bits(IR!Read64(f.a)) = a /\ IR!Bits(IR!Read64(f.b)) = b
        /\ IR!Is64(f.a) /\ IR!Is64(f.b)
    BY <1>1, <1>2, OperandsOfForms, ReadsAlike, SameWords
  <1>7. ~IR!Traps(op, a, b, W * W) /\ IR!LongOf(IR!Arith(op, a, b, W * W)) = LongOf(n)
    BY <1>1, SameArith, SameWords
  <1> HIDE DEF n
  <1>8. f.dst \in Longs /\ Writes(f.dst, LongOf(n))
    BY <1>1, <1>2, <1>5, OperandsOfForms, LongOfType, StoreRaxIsSet DEF n
  <1> HIDE DEF a, b
  <1> QED  BY <1>1, <1>6, <1>7, <1>8, SameShows DEF IR!Arith64, IR!Set64, Writes, Abs

-----------------------------------------------------------------------------
LEMMA ControlMaps ==
  ASSUME Inv, Label \/ Jnz \/ Ret \/ RetV
  PROVE  IR!Label \/ IR!Branch \/ IR!Return \/ IR!ReturnVoid
  <1>1. Abs' = Abs
    BY AbsStays DEF Label, Jnz, Ret, RetV
  <1>2. CASE Label
    BY <1>1, <1>2, SameShows DEF Label, IR!Label, Abs
  <1>3. CASE Jnz
    <2>1. PICK f \in Forms : out' = [k |-> "jnz", vals |-> <<ZeroExtend(First(f.a).lo)>>]
      BY <1>3 DEF Jnz, Shows
    <2>2. First(f.a).lo = IR!Read32(f.a)
      BY OperandsOfForms, OperandsAreRead
    <2> QED  BY <1>1, <2>1, <2>2, SameWords DEF IR!Branch, IR!Shows, Abs
  <1>4. CASE Ret
    <2>1. PICK f \in Forms : out' = [k |-> "ret", vals |-> <<SignExtend(First(f.a).lo)>>]
      BY <1>4 DEF Ret, Shows
    <2>2. First(f.a).lo = IR!Read32(f.a)
      BY OperandsOfForms, OperandsAreRead
    <2> QED  BY <1>1, <2>1, <2>2, SameWords DEF IR!Return, IR!Shows, Abs
  <1>5. CASE RetV
    BY <1>1, <1>5, SameWords DEF RetV, Shows, IR!ReturnVoid, IR!Shows, Abs
  <1> QED  BY <1>2, <1>3, <1>4, <1>5

\* A callee looks at as many bits of an argument as its parameter has.
LEMMA SeenIsArg ==
  ASSUME TypeOK, NEW args \in ArgLists
  PROVE  \A i \in DOMAIN args : Seen(args[i]) = IR!Arg(args[i])
  <1>1. ASSUME NEW i \in DOMAIN args PROVE args[i] \in Operands
    <2>1. args \in Seq(Plain)
      BY WordsAssumption DEF WordsAssumption
    <2> QED  BY <2>1 DEF Plain
  <1>2. ASSUME NEW a \in Operands PROVE Seen(a) = IR!Arg(a)
    BY ReadsAlike, SameWords DEF Seen, IR!Arg
  <1> QED  BY <1>1, <1>2

\* The kernel looks at all of them.
LEMMA LoadedIsKernelArg ==
  ASSUME TypeOK, ArgumentsAreFull, NEW args \in SyscallLists
  PROVE  \A i \in DOMAIN args : LoadPtr(args[i]) = IR!KernelArg(args[i])
  <1>1. ASSUME NEW i \in DOMAIN args PROVE args[i] \in Operands /\ Is64(args[i])
    <2>1. args \in Seq(Plain)
      BY WordsAssumption DEF WordsAssumption
    <2> QED  BY <2>1 DEF Plain, ArgumentsAreFull
  <1>2. ASSUME NEW a \in Operands, Is64(a) PROVE LoadPtr(a) = IR!KernelArg(a)
    BY <1>2, ReadsAlike DEF IR!KernelArg
  <1> QED  BY <1>1, <1>2

\* The answer goes to one i32 register or to none.
LEMMA AnswerIsAnswer ==
  ASSUME Inv, NEW r \in Results, Answered(r)
  PROVE  IR!Answer(r)
  <1>1. r \in Long /\ TypeOK
    BY WordsAssumption DEF WordsAssumption, Inv
  <1>2. CASE \E f \in Forms : StoreEax(f.dst, r)
    <2>1. PICK f \in Forms : f.dst \notin Longs /\ Writes(f.dst, ZeroExtend(r.lo))
      BY <1>1, <1>2, OperandsOfForms, StoreEaxIsSet
    <2> QED  BY <2>1, SameWords DEF IR!Answer, IR!Set32, Writes, Abs
  <1>3. CASE cell' = cell
    <2>1. Abs' = Abs
      BY <1>3, AbsStays
    <2> QED  BY <2>1 DEF IR!Answer, Abs
  <1> QED  BY <1>2, <1>3 DEF Answered

LEMMA CallMaps == ASSUME Inv, Call PROVE IR!Call
  <1>1. PICK args \in ArgLists, r \in Results :
          /\ out' = [k |-> "call", vals |-> [i \in DOMAIN args |-> Seen(args[i])]]
          /\ Answered(r)
    BY DEF Call, Shows
  <1>2. [i \in DOMAIN args |-> Seen(args[i])]
          = [i \in DOMAIN args |-> IR!Arg(args[i])]
    BY SeenIsArg DEF Inv
  <1>3. IR!Answer(r)
    BY <1>1, AnswerIsAnswer
  <1> QED  BY <1>1, <1>2, <1>3 DEF IR!Call, IR!Shows

\* The number is an immediate or a symbol, and neither can be what eax_holds names.
LEMMA NumberIsRead ==
  ASSUME TypeOK, NEW nr \in Numbers, nr \notin Vars, NEW args
  PROVE  NumberOf(nr, args) = SignExtend(IR!Read32(nr))
  <1>1. nr \in Operands /\ holds # nr
    BY WordsAssumption DEF WordsAssumption, TypeOK, Plain
  <1>2. CASE nr \in Imms
    BY <1>1, <1>2, ReadsAlike DEF NumberOf, ImmLong, ImmWord
  <1>3. CASE nr \notin Imms
    <2>1. nr \in Syms
      BY <1>1, <1>3 DEF Operands
    <2>2. LoadToEax(nr, holds, LastLoaded(args)) = SymAddr[nr] /\ LoadPtr(nr) = SymAddr[nr]
      BY <1>1, <2>1 DEF LoadToEax, LoadPtr
    <2> QED  BY <1>1, <1>3, <2>2, ReadsAlike DEF NumberOf
  <1> QED  BY <1>2, <1>3

LEMMA SyscallMaps == ASSUME Inv, ArgumentsAreFull, NumbersAreFixed, Syscall PROVE IR!Syscall
  <1>1. PICK nr \in Numbers, args \in SyscallLists, r \in Results :
          /\ out' = [k |-> "syscall",
                     vals |-> <<NumberOf(nr, args)>> \o [i \in DOMAIN args |-> LoadPtr(args[i])]]
          /\ Answered(r)
    BY DEF Syscall, Shows
  <1>2. nr \notin Vars
    BY DEF NumbersAreFixed
  <1>3. [i \in DOMAIN args |-> LoadPtr(args[i])] = [i \in DOMAIN args |-> IR!KernelArg(args[i])]
    BY LoadedIsKernelArg DEF Inv
  <1>4. NumberOf(nr, args) = IR!SignExtend(IR!Read32(nr))
    BY <1>2, NumberIsRead, SameWords DEF Inv
  <1>5. IR!Answer(r)
    BY <1>1, AnswerIsAnswer
  <1> QED  BY <1>1, <1>3, <1>4, <1>5 DEF IR!Syscall, IR!Shows

-----------------------------------------------------------------------------
\* A write that hits the slots at p changes the low halves of the same registers.
LEMMA PokeIsPoke ==
  ASSUME TypeOK, NEW p, NEW new,
         cell' = [v \in Vars |-> IF Hit(v, p) THEN [cell[v] EXCEPT !.lo = new[v]] ELSE cell[v]]
  PROVE  Abs' = [v \in Vars |-> IF Hit(v, p) THEN [Abs[v] EXCEPT !.lo = new[v]] ELSE Abs[v]]
  <1>1. ASSUME NEW v \in Vars, Hit(v, p), v \notin Longs
        PROVE  ZeroExtend(cell'[v].lo) = [ZeroExtend(cell[v].lo) EXCEPT !.lo = new[v]]
    <2>1. cell'[v].lo = new[v]
      BY <1>1 DEF TypeOK, Long
    <2> QED  BY <2>1 DEF ZeroExtend
  <1> QED  BY <1>1 DEF Abs

LEMMA StoreIMaps == ASSUME Inv, StoreI PROVE IR!StoreWord
  <1>1. PICK f \in Forms :
          /\ out' = [k |-> "storei", vals |-> <<LoadPtr(f.dst), ZeroExtend(Operand(f.a))>>]
          /\ Is64(f.dst)
          /\ cell' = [v \in Vars |-> IF Hit(v, LoadPtr(f.dst))
                                     THEN [cell[v] EXCEPT !.lo = Operand(f.a)] ELSE cell[v]]
    BY DEF StoreI, Shows
  <1> DEFINE w == IR!Read32(f.a)
             p == LoadPtr(f.dst)
             new == [v \in Vars |-> w]
  <1>2. TypeOK /\ IR!Read64(f.dst) = p /\ IR!Is64(f.dst)
    BY <1>1, OperandsOfForms, ReadsAlike DEF Inv
  <1>3. Operand(f.a) = w
    BY OperandsOfForms, OperandsAreRead
  <1> HIDE DEF w, p
  <1>4. cell' = [v \in Vars |-> IF Hit(v, p) THEN [cell[v] EXCEPT !.lo = new[v]] ELSE cell[v]]
    BY <1>1, <1>3 DEF p
  <1>5. Abs' = [v \in Vars |-> IF Hit(v, p) THEN [Abs[v] EXCEPT !.lo = new[v]] ELSE Abs[v]]
    <2> HIDE DEF new
    <2>1. PICK at, put : at = p /\ put = new
      OBVIOUS
    <2>2. cell' = [v \in Vars |-> IF Hit(v, at) THEN [cell[v] EXCEPT !.lo = put[v]] ELSE cell[v]]
      BY <1>4, <2>1
    <2>3. Abs' = [v \in Vars |-> IF Hit(v, at) THEN [Abs[v] EXCEPT !.lo = put[v]] ELSE Abs[v]]
      BY <1>2, <2>2, PokeIsPoke
    <2> QED  BY <2>1, <2>3
  <1>6. Abs' = [v \in Vars |-> IF IR!Hit(v, p) THEN [Abs[v] EXCEPT !.lo = w] ELSE Abs[v]]
    BY <1>5, SameShows
  <1>7. out' = [k |-> "storei", vals |-> <<p, IR!ZeroExtend(w)>>]
    BY <1>1, <1>3, SameWords DEF p
  <1> QED  BY <1>2, <1>6, <1>7 DEF IR!StoreWord, IR!Shows, Abs, w

LEMMA StoreBMaps == ASSUME Inv, StoreB PROVE IR!StoreByte
  <1>1. PICK f \in Forms :
          /\ out' = [k |-> "storeb",
                     vals |-> <<LoadPtr(f.dst),
                                ZeroExtend(LoadToEax(f.a, Nothing, rax).lo % ByteRange)>>]
          /\ Is64(f.dst)
          /\ cell' = [v \in Vars |-> IF Hit(v, LoadPtr(f.dst))
                        THEN [cell[v] EXCEPT
                                !.lo = SetByte(cell[v].lo, LoadToEax(f.a, Nothing, rax).lo)]
                        ELSE cell[v]]
    BY DEF StoreB, Shows
  <1> DEFINE w == IR!Read32(f.a)
             p == LoadPtr(f.dst)
             new == [v \in Vars |-> SetByte(cell[v].lo, w)]
  <1>2. TypeOK /\ IR!Read64(f.dst) = p /\ IR!Is64(f.dst)
    BY <1>1, OperandsOfForms, ReadsAlike DEF Inv
  <1>3. LoadToEax(f.a, Nothing, rax).lo = w
    BY OperandsOfForms, OperandsAreRead
  <1> HIDE DEF w, p
  <1>4. cell' = [v \in Vars |-> IF Hit(v, p) THEN [cell[v] EXCEPT !.lo = new[v]] ELSE cell[v]]
    BY <1>1, <1>3 DEF p
  <1>5. Abs' = [v \in Vars |-> IF Hit(v, p) THEN [Abs[v] EXCEPT !.lo = new[v]] ELSE Abs[v]]
    <2> HIDE DEF new
    <2>1. PICK at, put : at = p /\ put = new
      OBVIOUS
    <2>2. cell' = [v \in Vars |-> IF Hit(v, at) THEN [cell[v] EXCEPT !.lo = put[v]] ELSE cell[v]]
      BY <1>4, <2>1
    <2>3. Abs' = [v \in Vars |-> IF Hit(v, at) THEN [Abs[v] EXCEPT !.lo = put[v]] ELSE Abs[v]]
      BY <1>2, <2>2, PokeIsPoke
    <2> QED  BY <2>1, <2>3
  <1>6. \A v \in Vars : new[v] = IR!SetByte(Abs[v].lo, w)
    BY <1>2, AbsOf, SameWords
  <1> HIDE DEF new
  <1>7. Abs' = [v \in Vars |-> IF IR!Hit(v, p)
                                THEN [Abs[v] EXCEPT !.lo = IR!SetByte(Abs[v].lo, w)] ELSE Abs[v]]
    BY <1>5, <1>6, SameShows
  <1>8. out' = [k |-> "storeb", vals |-> <<p, IR!ZeroExtend(w % ByteRange)>>]
    BY <1>1, <1>3, SameWords DEF p
  <1> QED  BY <1>2, <1>7, <1>8 DEF IR!StoreByte, IR!Shows, Abs, w

LEMMA FetchedAlike ==
  ASSUME TypeOK, NEW p, NEW r \in Results
  PROVE  Fetched(p, r) = IR!Fetched(p, r) /\ Fetched(p, r) \in Word
  <1>1. r.lo \in Word
    BY WordsAssumption, LowIsWord DEF WordsAssumption
  <1>2. \A v \in Vars : cell[v].lo \in Word /\ Abs[v].lo = cell[v].lo
    BY AbsOf DEF TypeOK, Long
  <1> DEFINE hit == CHOOSE v \in Vars : Hit(v, p)
  <1>3. hit = CHOOSE v \in Vars : IR!Hit(v, p)
    BY DEF IR!Hit, Hit
  <1>4. (\E v \in Vars : Hit(v, p)) => hit \in Vars
    BY Zenon
  <1>5. (\E v \in Vars : Hit(v, p)) <=> (\E v \in Vars : IR!Hit(v, p))
    BY SameShows
  <1>6. Fetched(p, r) = IF \E v \in Vars : Hit(v, p) THEN cell[hit].lo ELSE r.lo
    BY DEF Fetched
  <1>7. IR!Fetched(p, r) = IF \E v \in Vars : IR!Hit(v, p) THEN Abs[hit].lo ELSE r.lo
    BY <1>3 DEF IR!Fetched, Abs
  <1> HIDE DEF hit
  <1> QED  BY <1>1, <1>2, <1>4, <1>5, <1>6, <1>7

LEMMA LoadIMaps == ASSUME Inv, LoadI PROVE IR!LoadWord
  <1>1. PICK f \in Forms, r \in Results :
          /\ out' = [k |-> "loadi", vals |-> <<LoadPtr(f.a)>>]
          /\ Is64(f.a) /\ f.dst \notin Longs
          /\ cell' = Keep32(f.dst, ZeroExtend(Fetched(LoadPtr(f.a), r)))
    BY DEF LoadI, Shows
  <1> DEFINE w == Fetched(LoadPtr(f.a), r)
  <1>2. TypeOK /\ IR!Read64(f.a) = LoadPtr(f.a) /\ IR!Is64(f.a)
    BY <1>1, OperandsOfForms, ReadsAlike DEF Inv
  <1>3. w \in Word /\ w = IR!Fetched(IR!Read64(f.a), r)
    BY <1>2, FetchedAlike
  <1>4. ZeroExtend(w) \in Long /\ ZeroExtend(w).lo = w
    BY <1>3, ZeroExtendType DEF ZeroExtend
  <1>5. f.dst \notin Longs /\ Writes(f.dst, ZeroExtend(w))
    <2> HIDE DEF w
    <2> QED  BY <1>1, <1>2, <1>4, OperandsOfForms, StoreEaxIsSet DEF w
  <1> HIDE DEF w
  <1> QED  BY <1>1, <1>2, <1>3, <1>5, SameWords DEF IR!LoadWord, IR!Shows, IR!Set32, Writes, Abs

LEMMA LoadBMaps == ASSUME Inv, LoadB PROVE IR!LoadByte
  <1>1. PICK f \in Forms, r \in Results :
          /\ out' = [k |-> "loadb", vals |-> <<LoadPtr(f.a)>>]
          /\ Is64(f.a)
          /\ StoreEax(f.dst, ZeroExtend(Fetched(LoadPtr(f.a), r) % ByteRange))
    BY DEF LoadB, Shows
  <1> DEFINE w == Fetched(LoadPtr(f.a), r)
  <1>2. TypeOK /\ IR!Read64(f.a) = LoadPtr(f.a) /\ IR!Is64(f.a)
    BY <1>1, OperandsOfForms, ReadsAlike DEF Inv
  <1>3. w \in Word /\ w = IR!Fetched(IR!Read64(f.a), r)
    BY <1>2, FetchedAlike
  <1> HIDE DEF w
  <1>4. w % ByteRange \in Word
    BY <1>3, ByteIsWord
  <1>5. ZeroExtend(w % ByteRange) \in Long /\ ZeroExtend(w % ByteRange).lo = w % ByteRange
    BY <1>4, ZeroExtendType DEF ZeroExtend
  <1>6. f.dst \notin Longs /\ Writes(f.dst, ZeroExtend(w % ByteRange))
    BY <1>1, <1>2, <1>5, OperandsOfForms, StoreEaxIsSet DEF w
  <1> QED  BY <1>1, <1>2, <1>3, <1>6, SameWords DEF IR!LoadByte, IR!Shows, IR!Set32, Writes, Abs

-----------------------------------------------------------------------------
LEMMA AbsInit == Init => IR!Init
  <1> SUFFICES ASSUME Init PROVE IR!Init
    OBVIOUS
  <1>1. \A v \in Vars : cell[v] \in Long /\ ZeroExtend(cell[v].lo) \in Long
    BY ZeroExtendType, LowIsWord DEF Init
  <1>2. Abs \in [Vars -> Long] /\ \A v \in Vars \ Longs : Abs[v].hi = 0
    BY <1>1 DEF Abs, ZeroExtend
  <1>3. IR!Long = Long
    BY DEF IR!Long, Long, IR!Word, Word
  <1> QED  BY <1>2, <1>3, SameShows
           DEF Init, IR!Init, IR!Values, IR!HighHalvesOnlyInLongs, IR!Quiet, Quiet, Abs

LEMMA AbsNext ==
  ASSUME Inv, [Next]_vars, SlotsAreNamed, ArgumentsAreFull, NumbersAreFixed
  PROVE  IR!Next \/ (Abs' = Abs /\ out' = out)
  <1>1. CASE UNCHANGED vars
    BY <1>1, AbsStays DEF vars
  <1>2. CASE Next
    <2>1. CASE Store \/ Load \/ StoreP \/ LoadP2
      BY <2>1, StoreMaps, LoadMaps, StorePMaps, LoadP2Maps DEF IR!Next
    <2>2. CASE Arith32 \/ Compare32 \/ Compare64
      BY <2>2, Arith32Maps, Compare32Maps, Compare64Maps DEF IR!Next
    <2>3. CASE Move64 \/ AddP \/ AddrA \/ Arith64
      BY <2>3, MoveMaps, AddPMaps, AddrMaps, Arith64Maps DEF IR!Next
    <2>4. CASE Label \/ Jnz \/ Ret \/ RetV \/ Call \/ Syscall
      BY <2>4, ControlMaps, CallMaps, SyscallMaps DEF IR!Next
    <2>5. CASE StoreI \/ StoreB \/ LoadI \/ LoadB
      BY <2>5, StoreIMaps, StoreBMaps, LoadIMaps, LoadBMaps DEF IR!Next
    <2> QED  BY <1>2, <2>1, <2>2, <2>3, <2>4, <2>5 DEF Next
  <1> QED  BY <1>1, <1>2

\* The refinement, for every word size, frame and function: the code that gen_func emits
\* for a sequence of instructions shows callees, the kernel, memory and the caller what
\* the instructions of CaiIR mean, and leaves every register and every slot with the value
\* they give it, as long as the function loads and stores through the names of its slots
\* only, and hands a syscall no i32 register: not as an argument and not as its number.
THEOREM GenImplementsIR ==
  ASSUME SlotsAreNamed, ArgumentsAreFull, NumbersAreFixed
  PROVE  Spec => ImplementsIR
  <1>1. Inv /\ [Next]_vars => [IR!Next]_<<Abs, out>>
    BY AbsNext
  <1> QED  BY InvInit, InvNext, AbsInit, <1>1, PTL DEF Spec, ImplementsIR, IR!Spec, Abs

=============================================================================
