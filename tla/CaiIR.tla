-------------------------------- MODULE CaiIR --------------------------------
(***************************************************************************)
(* What a CAI instruction means (CAI_SPEC.md), with the frame, the         *)
(* registers and the code generator left out: a function is a set of typed *)
(* virtual registers (val), an i32 one holding 32 bits and one in Longs    *)
(* 64, and val[s] is the memory that a slot s is the pointer to.  Each     *)
(* step executes one instruction; out is what it shows to the outside.     *)
(***************************************************************************)
EXTENDS CaiWords

VARIABLES val, out

Quiet == [k |-> "", vals |-> <<>>]
Shows(k, vals) == out' = [k |-> k, vals |-> vals]
Silently == out' = Quiet

Values == [Vars -> Long]
HighHalvesOnlyInLongs == \A v \in Vars \ Longs : val[v].hi = 0

Init == val \in Values /\ HighHalvesOnlyInLongs /\ out = Quiet

\* the i32 and the i64 that an operand stands for
Read64(a) == IF a \in Vars THEN val[a] ELSE IF a \in Syms THEN SymAddr[a] ELSE ImmLong(a)
Read32(a) == Read64(a).lo

Is64(a) == a \in Vars => a \in Longs

Set32(dst, w) == dst \notin Longs /\ val' = [val EXCEPT ![dst] = ZeroExtend(w)]
Set64(dst, x) == dst \in Longs /\ val' = [val EXCEPT ![dst] = x]

(***************************************************************************)
(* store p v is [p] = v and load d p is d = [p], storep and loadp2 the same *)
(* with 8 bytes (CAI_SPEC.md:66-73).  [p] is the slot if p is the name of   *)
(* one, and what lies at the address that p holds if it is a register.      *)
(***************************************************************************)
Hit(v, p) == v \notin InReg /\ SlotAddr[v] = p
PointsTo(p, v) == IF p \in Slots THEN v = p ELSE Hit(v, val[p])
Pointer(p) == p \in Slots \union Longs
At(p) ==
  LET hit == {v \in Vars : PointsTo(p, v)} IN
  IF hit = {} THEN Results ELSE {val[v] : v \in hit}

Store ==
  \E m \in Moves :
    /\ Shows("store", <<>>)
    /\ Pointer(m.ptr)
    /\ val' = [v \in Vars |-> IF PointsTo(m.ptr, v) THEN [val[v] EXCEPT !.lo = Read32(m.reg)]
                              ELSE val[v]]

Load ==
  \E m \in Moves :
    /\ Shows("load", <<>>)
    /\ Pointer(m.ptr) /\ m.reg \in Vars
    /\ \E x \in At(m.ptr) : Set32(m.reg, x.lo)

StoreP ==
  \E m \in Moves :
    /\ Shows("storep", <<>>)
    /\ m.ptr \in Longs /\ Is64(m.reg)
    /\ val' = [v \in Vars |-> IF PointsTo(m.ptr, v) THEN Read64(m.reg) ELSE val[v]]

LoadP2 ==
  \E m \in Moves :
    /\ Shows("loadp2", <<>>)
    /\ m.ptr \in Longs /\ m.reg \in Vars
    /\ \E x \in At(m.ptr) : Set64(m.reg, x)

Arith32 ==
  \E op \in Ariths, f \in Forms :
    /\ Silently
    /\ ~Traps(op, Read32(f.a), Read32(f.b), W)
    /\ Set32(f.dst, Arith(op, Read32(f.a), Read32(f.b), W))

Compare32 ==
  \E op \in Compares, f \in Forms :
    Silently /\ Set32(f.dst, Compare(op, Read32(f.a), Read32(f.b), W))

Move64 == \E f \in Forms : Silently /\ Is64(f.a) /\ Set64(f.dst, Read64(f.a))

Arith64 ==
  \E op \in Ariths, f \in Forms :
    LET a == Bits(Read64(f.a))  b == Bits(Read64(f.b)) IN
    /\ Silently
    /\ Is64(f.a) /\ Is64(f.b) /\ ~Traps(op, a, b, W * W)
    /\ Set64(f.dst, LongOf(Arith(op, a, b, W * W)))

Compare64 ==
  \E op \in Compares, f \in Forms :
    /\ Silently
    /\ Is64(f.a) /\ Is64(f.b)
    /\ Set32(f.dst, Compare(op, Bits(Read64(f.a)), Bits(Read64(f.b)), W * W))

\* a 64-bit pointer and a 32-bit offset
Offset ==
  \E f \in Forms :
    /\ Silently
    /\ Is64(f.a)
    /\ Set64(f.dst, LongOf((Bits(Read64(f.a)) + Bits(SignExtend(Read32(f.b)))) % (W * W)))

AddressOf ==
  \E f \in Forms, s \in Slots : Silently /\ Set64(f.dst, SlotAddr[s])

Branch == \E f \in Forms : Shows("jnz", <<ZeroExtend(Read32(f.a))>>) /\ UNCHANGED val
Label == Silently /\ UNCHANGED val
Return == \E f \in Forms : Shows("ret", <<SignExtend(Read32(f.a))>>) /\ UNCHANGED val
ReturnVoid == Shows("ret", <<ZeroExtend(0)>>) /\ UNCHANGED val

\* what an argument shows: all of a 64-bit value; of another one a callee takes the
\* i32, and the kernel its sign extension (cai_converter.c:1032-1035)
Arg(a) == IF Is64(a) THEN Read64(a) ELSE ZeroExtend(Read32(a))
KernelArg(a) == IF Is64(a) THEN Read64(a) ELSE SignExtend(Read32(a))

Answer(r) == (\E f \in Forms : Set32(f.dst, r.lo)) \/ UNCHANGED val

Call ==
  \E args \in ArgLists, r \in Results :
    Shows("call", [i \in DOMAIN args |-> Arg(args[i])]) /\ Answer(r)

Syscall ==
  \E nr \in Numbers, args \in SyscallLists, r \in Results :
    /\ Shows("syscall",
             <<SignExtend(Read32(nr))>> \o [i \in DOMAIN args |-> KernelArg(args[i])])
    /\ Answer(r)

\* storei, storeb, loadi, loadb: the address is shown, and a slot that is hit changes.
StoreWord ==
  \E f \in Forms :
    LET p == Read64(f.dst)  w == Read32(f.a) IN
    /\ Shows("storei", <<p, ZeroExtend(w)>>)
    /\ Is64(f.dst)
    /\ val' = [v \in Vars |-> IF Hit(v, p) THEN [val[v] EXCEPT !.lo = w] ELSE val[v]]

StoreByte ==
  \E f \in Forms :
    LET p == Read64(f.dst)  w == Read32(f.a) IN
    /\ Shows("storeb", <<p, ZeroExtend(w % ByteRange)>>)
    /\ Is64(f.dst)
    /\ val' = [v \in Vars |->
                IF Hit(v, p) THEN [val[v] EXCEPT !.lo = SetByte(@, w)] ELSE val[v]]

Fetched(p, r) ==
  IF \E v \in Vars : Hit(v, p) THEN val[CHOOSE v \in Vars : Hit(v, p)].lo ELSE r.lo

LoadWord ==
  \E f \in Forms, r \in Results :
    /\ Shows("loadi", <<Read64(f.a)>>)
    /\ Is64(f.a) /\ Set32(f.dst, Fetched(Read64(f.a), r))

LoadByte ==
  \E f \in Forms, r \in Results :
    /\ Shows("loadb", <<Read64(f.a)>>)
    /\ Is64(f.a) /\ Set32(f.dst, Fetched(Read64(f.a), r) % ByteRange)

Next ==
  \/ Store \/ Load \/ StoreP \/ LoadP2
  \/ Arith32 \/ Compare32 \/ Move64 \/ Arith64 \/ Compare64
  \/ Offset \/ AddressOf \/ Branch \/ Label \/ Return \/ ReturnVoid \/ Call \/ Syscall
  \/ StoreWord \/ StoreByte \/ LoadWord \/ LoadByte

Spec == Init /\ [][Next]_<<val, out>>
=============================================================================
