------------------------------- MODULE CaiGen -------------------------------
(***************************************************************************)
(* gen_func (cai_converter/cai_converter.c:771-1377): the machine code for *)
(* one CAI function, as what the emitted instructions do to rax and to the *)
(* place where each virtual register lives, a slot of the frame or rbx.    *)
(* The generator remembers in eax_holds which operand eax already holds,   *)
(* and loads it no second time.  A step is one CAI instruction, compiled   *)
(* with the eax_holds that its predecessor in the text left behind and run *)
(* on the state its predecessor in time left behind: the two differ only   *)
(* after a label, where a jump may come in.                                *)
(***************************************************************************)
EXTENDS CaiWords

VARIABLES
  rax,     \* the register
  cell,    \* cell[v], the 64 bits of the slot of v or of rbx
  holds,   \* eax_holds
  out      \* what the last instruction showed: an address, a call, a return, or
           \* just that it was a load or a store

vars == <<rax, cell, holds, out>>

Quiet == [k |-> "", vals |-> <<>>]
Shows(k, vals) == out' = [k |-> k, vals |-> vals]
Silently == out' = Quiet

\* gen_func starts a function with reset_eax; the frame holds what was there
Init ==
  /\ rax \in Long
  /\ cell \in [Vars -> Long]
  /\ \A v \in InReg \ Longs : cell[v].hi = 0
  /\ holds = Nothing
  /\ out = Quiet

Is64(a) == a \in Vars => a \in Longs

-----------------------------------------------------------------------------
\* load_ptr_to_rax: all 64 bits, eax_holds neither asked nor told
LoadPtr(a) == IF a \in Vars THEN cell[a] ELSE IF a \in Syms THEN SymAddr[a] ELSE ImmLong(a)

\* load_to_eax, when eax_holds is h and rax is r: a mov of 32 bits clears the others,
\* the address of a symbol comes whole.  eax_holds is a afterwards.
LoadToEax(a, h, r) ==
  IF h = a THEN r
  ELSE IF a \in Vars THEN ZeroExtend(cell[a].lo)
  ELSE IF a \in Syms THEN SymAddr[a] ELSE ZeroExtend(ImmWord(a))

First(a) == LoadToEax(a, holds, rax)
\* a second operand, loaded when eax_holds is a
Second(a, b) == LoadToEax(b, a, First(a))
\* an immediate is part of the instruction and never loaded
OrImm(a, b) == IF b \in Imms THEN ImmWord(b) ELSE Second(a, b).lo

\* Mutant: store_eax_to moves all 64 bits to rbx
Keep32Whole(dst, r) ==
  [cell EXCEPT ![dst] = IF dst \in InReg THEN r ELSE [@ EXCEPT !.lo = r.lo]]

\* store_eax_to: 32 bits, and eax_holds is told
Keep32(dst, r) ==
  [cell EXCEPT ![dst] = IF dst \in InReg THEN ZeroExtend(r.lo) ELSE [@ EXCEPT !.lo = r.lo]]

KeepEax(dst, r) ==
  /\ rax' = r
  /\ cell' = Keep32(dst, r)
  /\ holds' = dst

StoreEax(dst, r) == dst \notin Longs /\ KeepEax(dst, r)

\* emit_rax_to_slot64
StoreRax(dst, x) ==
  /\ dst \in Longs
  /\ rax' = x
  /\ cell' = [cell EXCEPT ![dst] = x]

\* Mutant: reset_eax is forgotten
ResetForgotten == UNCHANGED holds

Reset == holds' = Nothing

-----------------------------------------------------------------------------
\* The pointer of a load or a store is looked up like any register: the place it lives
\* in is written or read, whether that is the memory it names or holds an address.
Pointer(p) == p \in Slots \union Longs

\* OP_STORE
Store ==
  \E m \in Moves : Shows("store", <<>>) /\ Pointer(m.ptr) /\ KeepEax(m.ptr, First(m.reg))

\* OP_LOAD
Load ==
  \E m \in Moves :
    /\ Shows("load", <<>>)
    /\ Pointer(m.ptr) /\ m.reg \in Vars
    /\ StoreEax(m.reg, First(m.ptr))

\* OP_STOREP
StoreP ==
  \E m \in Moves :
    Shows("storep", <<>>) /\ Is64(m.reg) /\ StoreRax(m.ptr, LoadPtr(m.reg)) /\ Reset

\* OP_LOADP2
LoadP2 ==
  \E m \in Moves :
    /\ Shows("loadp2", <<>>)
    /\ m.ptr \in Longs /\ m.reg \in Vars
    /\ StoreRax(m.reg, LoadPtr(m.ptr))
    /\ Reset

\* OP_ADD, OP_SUB, OP_MUL, OP_DIV: b is an immediate operand of add and sub, and
\* 0 - b is a neg of b
SumOf(a, b) == Arith("add", First(a).lo, OrImm(a, b), W)
DifferenceOf(a, b) == IF a = 0 THEN Arith("sub", 0, First(b).lo, W)
                      ELSE Arith("sub", First(a).lo, OrImm(a, b), W)
ProductOf(a, b) == Arith("mul", First(a).lo, Second(a, b).lo, W)
QuotientOf(a, b) == Arith("div", First(a).lo, Second(a, b).lo, W)

ResultOf(op, a, b) == CASE op = "add" -> SumOf(a, b)
                        [] op = "sub" -> DifferenceOf(a, b)
                        [] op = "mul" -> ProductOf(a, b)
                        [] op = "div" -> QuotientOf(a, b)

Arith32 ==
  \E op \in Ariths, f \in Forms :
    /\ Silently
    /\ ~Traps(op, First(f.a).lo, Second(f.a, f.b).lo, W)
    /\ StoreEax(f.dst, ZeroExtend(ResultOf(op, f.a, f.b)))

\* OP_CLT .. OP_CGE
Compare32 ==
  \E op \in Compares, f \in Forms :
    /\ Silently
    /\ StoreEax(f.dst, ZeroExtend(Compare(op, First(f.a).lo, OrImm(f.a, f.b), W)))

\* OP_MOV64
Move64 == \E f \in Forms : Silently /\ Is64(f.a) /\ StoreRax(f.dst, LoadPtr(f.a)) /\ Reset

\* Mutant: the pointer is loaded before the offset, and eax_holds not reset between
PointerPlusStale(a, b) ==
  IF b \in Imms THEN LongOf((Bits(LoadPtr(a)) + Bits(ImmLong(b))) % (W * W))
  ELSE LongOf((Bits(LoadPtr(a))
               + Bits(SignExtend(LoadToEax(b, holds, LoadPtr(a)).lo))) % (W * W))

\* OP_ADDP
PointerPlus(a, b) ==
  IF b \in Imms THEN LongOf((Bits(LoadPtr(a)) + Bits(ImmLong(b))) % (W * W))
  ELSE LongOf((Bits(LoadPtr(a)) + Bits(SignExtend(First(b).lo))) % (W * W))

AddP ==
  \E f \in Forms : Silently /\ Is64(f.a) /\ StoreRax(f.dst, PointerPlus(f.a, f.b)) /\ Reset

\* OP_ADDRA
AddrA ==
  \E f \in Forms, s \in Slots : Silently /\ StoreRax(f.dst, SlotAddr[s]) /\ Reset

\* OP_ADD64, OP_SUB64, OP_MUL64, OP_DIV64
Arith64 ==
  \E op \in Ariths, f \in Forms :
    LET a == Bits(LoadPtr(f.a))  b == Bits(LoadPtr(f.b)) IN
    /\ Silently
    /\ Is64(f.a) /\ Is64(f.b) /\ ~Traps(op, a, b, W * W)
    /\ StoreRax(f.dst, LongOf(Arith(op, a, b, W * W)))
    /\ Reset

\* OP_CLT64 .. OP_CGE64
Compare64 ==
  \E op \in Compares, f \in Forms :
    /\ Silently
    /\ Is64(f.a) /\ Is64(f.b)
    /\ StoreEax(f.dst, ZeroExtend(Compare(op, Bits(LoadPtr(f.a)), Bits(LoadPtr(f.b)), W * W)))

-----------------------------------------------------------------------------
\* Mutant: a label does not reset_eax
AtLabelUnknown(h) == h

\* OP_LABEL: whatever the text before it left in eax_holds, and wherever control
\* came from, nothing is known of eax
AtLabel(h) == Nothing
Label ==
  \E h \in Operands \union {Nothing} :
    Silently /\ holds' = AtLabel(h) /\ UNCHANGED <<rax, cell>>

\* OP_JNZ and then the label it goes to; OP_JMP does the same and tests nothing
Jnz ==
  \E f \in Forms, h \in Operands \union {Nothing} :
    /\ Shows("jnz", <<ZeroExtend(First(f.a).lo)>>)
    /\ rax' = First(f.a)
    /\ holds' = AtLabel(h)
    /\ UNCHANGED cell

\* OP_RET and OP_RETV
Ret ==
  \E f \in Forms :
    /\ rax' = SignExtend(First(f.a).lo)
    /\ Shows("ret", <<rax'>>)
    /\ Reset
    /\ UNCHANGED cell

RetV == rax' = ZeroExtend(0) /\ Shows("ret", <<rax'>>) /\ Reset /\ UNCHANGED cell

\* The registers get all 64 bits of every argument.  A callee looks at as many as its
\* parameter has, the kernel at all of them.
Seen(a) == IF Is64(a) THEN LoadPtr(a) ELSE ZeroExtend(LoadPtr(a).lo)

\* rax holds the answer, and an instruction without dst stores it nowhere
Answered(r) ==
  \/ \E f \in Forms : StoreEax(f.dst, r)
  \/ rax' = r /\ Reset /\ UNCHANGED cell

\* OP_CALL, of a function that is no leaf and so has nothing in rbx
Call ==
  \E args \in ArgLists, r \in Results :
    /\ InReg = {}
    /\ Shows("call", [i \in DOMAIN args |-> Seen(args[i])])
    /\ Answered(r)

\* OP_SYSCALL: args[2], args[1], args[0] go through rax, then the number
LastLoaded(args) == IF args = <<>> THEN rax ELSE LoadPtr(args[1])
NumberOf(nr, args) ==
  IF nr \in Imms THEN ImmLong(nr) ELSE SignExtend(LoadToEax(nr, holds, LastLoaded(args)).lo)

Syscall ==
  \E nr \in Numbers, args \in SyscallLists, r \in Results :
    /\ InReg = {}
    /\ Shows("syscall", <<NumberOf(nr, args)>> \o [i \in DOMAIN args |-> LoadPtr(args[i])])
    /\ Answered(r)

-----------------------------------------------------------------------------
Hit(v, p) == v \notin InReg /\ SlotAddr[v] = p

\* OP_STOREI: an immediate is part of the instruction, and leaves rax alone
Operand(a) == IF a \in Imms THEN ImmWord(a) ELSE LoadToEax(a, Nothing, rax).lo

StoreI ==
  \E f \in Forms :
    LET p == LoadPtr(f.dst) IN
    /\ Shows("storei", <<p, ZeroExtend(Operand(f.a))>>)
    /\ Is64(f.dst)
    /\ rax' = IF f.a \in Imms THEN p ELSE LoadToEax(f.a, Nothing, rax)
    /\ cell' = [v \in Vars |-> IF Hit(v, p) THEN [cell[v] EXCEPT !.lo = Operand(f.a)]
                               ELSE cell[v]]
    /\ Reset

\* OP_STOREB
StoreB ==
  \E f \in Forms :
    LET p == LoadPtr(f.dst)  r == LoadToEax(f.a, Nothing, rax) IN
    /\ Shows("storeb", <<p, ZeroExtend(r.lo % ByteRange)>>)
    /\ Is64(f.dst)
    /\ rax' = r
    /\ cell' = [v \in Vars |-> IF Hit(v, p) THEN [cell[v] EXCEPT !.lo = SetByte(@, r.lo)]
                               ELSE cell[v]]
    /\ Reset

Fetched(p, r) ==
  IF \E v \in Vars : Hit(v, p) THEN cell[CHOOSE v \in Vars : Hit(v, p)].lo ELSE r.lo

\* OP_LOADI
LoadI ==
  \E f \in Forms, r \in Results :
    LET p == LoadPtr(f.a)  x == ZeroExtend(Fetched(p, r)) IN
    /\ Shows("loadi", <<p>>)
    /\ Is64(f.a) /\ f.dst \notin Longs
    /\ rax' = x
    /\ cell' = Keep32(f.dst, x)
    /\ Reset

\* OP_LOADB
LoadB ==
  \E f \in Forms, r \in Results :
    LET p == LoadPtr(f.a) IN
    /\ Shows("loadb", <<p>>)
    /\ Is64(f.a)
    /\ StoreEax(f.dst, ZeroExtend(Fetched(p, r) % ByteRange))

-----------------------------------------------------------------------------
\* A return may be followed by the next call of the function, on the frame and with the
\* registers that the last one left behind.
Next ==
  \/ Store \/ Load \/ StoreP \/ LoadP2 \/ Arith32 \/ Compare32
  \/ Move64 \/ AddP \/ AddrA \/ Arith64 \/ Compare64
  \/ Label \/ Jnz \/ Ret \/ RetV \/ Call \/ Syscall
  \/ StoreI \/ StoreB \/ LoadI \/ LoadB

Spec == Init /\ [][Next]_vars

-----------------------------------------------------------------------------
\* Between two instructions eax_holds is empty or a register, never a symbol or an
\* immediate that only the middle of an instruction loaded; and an i32 that lives in rbx has
\* no upper half, whatever 64-bit address was in rax when it was stored.
TypeOK ==
  /\ rax \in Long
  /\ cell \in [Vars -> Long]
  /\ \A v \in InReg \ Longs : cell[v].hi = 0
  /\ holds \in Vars \union {Nothing}
  /\ out.k \in {"", "store", "load", "storep", "loadp2", "jnz", "ret", "call", "syscall",
                "storei", "storeb", "loadi", "loadb"}

\* What eax_holds says is true: the register it names, if any, has in its slot or in
\* rbx the 32 bits that eax has, on every path into the instruction.  A pointer that
\* is written through and happens to point into the frame, a jump, a call and a
\* 64-bit move could each make it a lie, and the next load would be skipped wrongly.
EaxCoherent == holds \in Vars => rax.lo = cell[holds].lo

\* The code that gen_func emits does what the instructions mean: whatever an
\* instruction finds in rax, in the upper halves of the slots and in eax_holds, every
\* register ends up with the value of CaiIR, and calls, the kernel, memory and the
\* caller are shown the values of CaiIR.
IR == INSTANCE CaiIR WITH
  val <- [v \in Vars |-> IF v \in Longs THEN cell[v] ELSE ZeroExtend(cell[v].lo)]

ImplementsIR == IR!Spec

=============================================================================
