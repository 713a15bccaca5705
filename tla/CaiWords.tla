------------------------------ MODULE CaiWords ------------------------------
(***************************************************************************)
(* The values that CAI instructions compute with: i32 words, i64 values as *)
(* two words, and the operands an instruction can name.  W stands for 2^32 *)
(* and ByteRange for 2^8.                                                  *)
(***************************************************************************)
EXTENDS Integers, Sequences

CONSTANTS
  W,          \* the number of words
  ByteRange,  \* the number of bytes
  Vars,       \* virtual registers, %name
  Imms,       \* the immediates that occur
  Syms,       \* data labels and functions, $name
  Longs,      \* virtual registers of 64-bit types; the others are i32
  SymAddr,    \* SymAddr[s], where the linker puts s
  Slots,      \* the registers that an alloc makes, %x.ptr: names of memory in the frame
  SlotAddr,   \* SlotAddr[v], the address of the stack slot of v
  Forms,      \* the operands dst, a and b that instructions have
  Moves,      \* the pointer and the other operand that load, store, loadp2, storep have
  ArgLists,   \* the argument lists of calls
  SyscallLists,   \* the argument lists of syscalls
  Numbers,    \* the operands that occur as the number of a syscall
  Results,    \* what a callee, the kernel or memory may answer
  Ariths, Compares,   \* the operations that occur
  InReg,      \* virtual registers that live in rbx and not in the frame
  Nothing     \* the empty string in eax_holds

Word == 0 .. W - 1
Long == [hi : Word, lo : Word]
Operands == Vars \union Imms \union Syms

\* What instructions compute with: the name of a slot is only written in alloc, load,
\* store, loadp2, storep and addra.
Plain == Operands \ Slots
ArithOps == {"add", "sub", "mul", "div"}
CmpOps == {"clt", "cle", "ceq", "cne", "cgt", "cge"}

ASSUME WordsAssumption ==
  /\ W \in Nat /\ W > 1
  /\ ByteRange \in 1 .. W /\ W % ByteRange = 0
  /\ Imms \subseteq Int
  /\ Longs \subseteq Vars /\ InReg \subseteq Vars
  /\ Slots \subseteq Vars /\ Slots \intersect InReg = {}
  /\ SymAddr \in [Syms -> Long]
  /\ SlotAddr \in [Vars -> Long]
  /\ Vars \intersect (Imms \union Syms) = {}
  /\ Syms \intersect Imms = {} /\ 0 \notin Vars \union Syms
  /\ Nothing \notin Operands
  /\ Forms \subseteq [dst : Vars \ Slots, a : Plain, b : Plain]
  /\ Moves \subseteq [ptr : Vars, reg : Plain]
  /\ ArgLists \subseteq Seq(Plain) /\ SyscallLists \subseteq Seq(Plain)
  /\ Numbers \subseteq Plain
  /\ Results \subseteq Long
  /\ Ariths \subseteq ArithOps /\ Compares \subseteq CmpOps

ZeroExtend(w) == [hi |-> 0, lo |-> w]
SignExtend(w) == [hi |-> IF 2 * w >= W THEN W - 1 ELSE 0, lo |-> w]   \* movsx

\* a 32-bit mov of an immediate, and the 64-bit movsx of it
ImmWord(i) == i % W
ImmLong(i) == SignExtend(i % W)

Bits(x) == x.hi * W + x.lo
LongOf(n) == [hi |-> (n \div W) % W, lo |-> n % W]
Signed(n, range) == IF 2 * n >= range THEN n - range ELSE n

Magnitude(i) == IF i < 0 THEN -i ELSE i

\* idiv rounds towards zero
Quotient(a, b) ==
  LET q == Magnitude(a) \div Magnitude(b)
  IN  IF (a < 0) = (b < 0) THEN q ELSE -q

\* add, sub, imul and idiv on values of range bits, as the processor does them
Traps(op, a, b, range) ==
  op = "div" /\ (b = 0 \/ Quotient(Signed(a, range), Signed(b, range)) * 2 >= range)

Arith(op, a, b, range) ==
  CASE op = "add" -> (a + b) % range
    [] op = "sub" -> (a - b) % range
    [] op = "mul" -> (a * b) % range
    [] op = "div" -> Quotient(Signed(a, range), Signed(b, range)) % range

\* cmp and setcc
Compare(op, a, b, range) ==
  LET x == Signed(a, range)
      y == Signed(b, range)
      holds == CASE op = "clt" -> x < y
                 [] op = "cle" -> x <= y
                 [] op = "ceq" -> x = y
                 [] op = "cne" -> x # y
                 [] op = "cgt" -> x > y
                 [] op = "cge" -> x >= y
  IN  IF holds THEN 1 ELSE 0

\* the word w after its low byte was overwritten by the low byte of v
SetByte(w, v) == w - (w % ByteRange) + (v % ByteRange)
=============================================================================
