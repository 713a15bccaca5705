----------------------------- MODULE CaiRegalloc -----------------------------
(***************************************************************************)
(* Register and stack-slot allocation of cai_converter.c: init_regalloc,   *)
(* run by gen_func for one function after another of a .cai file.          *)
(*                                                                         *)
(* The VReg array belongs to the CaiContext and outlives a function.  Only *)
(* vreg_count, stack_used and reg_used are set back, so every pass below   *)
(* starts from entries that an earlier function may have written.  One     *)
(* action is one iteration of one loop of init_regalloc; cursor is the     *)
(* index of that loop.                                                     *)
(*                                                                         *)
(* An instruction is a record: k is "alloc", "float" (the f32 operations), *)
(* "call" (call and syscall) or "int" (everything else), ops are those of  *)
(* dst, a, b that begin with '%', args those of its argument list, and     *)
(* size is the size of an alloc.                                           *)
(***************************************************************************)
EXTENDS Integers, Sequences, FiniteSets, SequencesExt

CONSTANTS
  Names,        \* the virtual registers that instructions name
  PtrNames,     \* those whose name contains ".ptr"
  ArgNames,     \* %arg0 .. %arg5
  Bodies,       \* Bodies[n]: what the n-th function may be, a sequence of instructions
  MaxRegs,      \* MAX_REGS
  NumAllocRegs, \* NUM_ALLOC_REGS
  MaxFuncs      \* bound: functions of one file

ASSUME RegallocAssumption ==
  /\ PtrNames \subseteq Names
  /\ ArgNames \in Seq(Names) /\ IsInjective(ArgNames)
  /\ MaxRegs \in Nat \ {0} /\ NumAllocRegs \in Nat /\ MaxFuncs \in Nat

Instructions == [k : {"alloc", "float", "call", "int"},
                 ops : Seq(Names), args : Seq(Names), size : Int]

\* the operands of the instructions of b, in the order of the loops over them
OperandsOf(b) == FlattenSeq([j \in DOMAIN b |-> b[j].ops \o b[j].args])

ASSUME BodiesAssumption ==
  \A n \in 1 .. MaxFuncs : \A b \in Bodies[n] :
    /\ b \in Seq(Instructions) /\ OperandsOf(b) \in Seq(Names)
    /\ \A j \in DOMAIN b : b[j].k = "alloc" => b[j].ops # <<>>

VARIABLES
  vregs,      \* CaiContext.vregs, stale entries included; entry i is vregs[i + 1]
  count,      \* vreg_count
  stackUsed,  \* stack_used
  regUsed,    \* the j with reg_used[j] set
  body,       \* the instructions of the function being compiled
  pass,       \* the loop of init_regalloc that runs, "idle" between functions
  cursor,     \* the index of that loop
  swapAt,     \* the inner index of the sort
  nextReg,    \* ri, the next physical register
  funcs       \* functions compiled so far

vars == <<vregs, count, stackUsed, regUsed, body, pass, cursor, swapAt, nextReg, funcs>>

NoReg == -1
NoName == ""    \* the name of an entry never written
Passes == {"idle", "alloc", "names", "uses", "floats", "sort", "phys", "slots", "args"}

Args == Range(ArgNames)

\* what calloc leaves in an entry
Zeroed == [name |-> NoName, off |-> 0, reg |-> 0, uses |-> 0, ptr |-> FALSE, float |-> FALSE]

AlignUp(n, a) == ((n + a - 1) \div a) * a

AllocSize(size) == AlignUp(IF size > 8 THEN size ELSE 8, 8)

(***************************************************************************)
(* The table of the current function: its first count entries.             *)
(***************************************************************************)
Live == 1 .. count
Known(name) == \E i \in Live : vregs[i].name = name     \* find_vreg(c, name) >= 0

Operands == OperandsOf(body)
Uses(name) == Cardinality({j \in DOMAIN Operands : Operands[j] = name})

\* is_leaf
IsLeaf == \A j \in DOMAIN body : body[j].k # "call"

FloatOperands == UNION {Range(body[j].ops) : j \in {i \in DOMAIN body : body[i].k = "float"}}

Init ==
  /\ vregs = [i \in 1 .. MaxRegs |-> Zeroed]
  /\ count = 0
  /\ stackUsed = 0
  /\ regUsed = {}
  /\ body = <<>>
  /\ pass = "idle"
  /\ cursor = 1
  /\ swapAt = 1
  /\ nextReg = 0
  /\ funcs = 0

In(p) == pass = p
Enter(p) == pass' = p /\ cursor' = 1

Write(i, entry) == vregs' = [vregs EXCEPT ![i] = entry]

(***************************************************************************)
(* gen_func, as far as it calls init_regalloc.                             *)
(***************************************************************************)
GenFunc ==
  /\ In("idle")
  /\ funcs < MaxFuncs
  /\ body' \in Bodies[funcs + 1]
  /\ count' = 0
  /\ stackUsed' = 0
  /\ regUsed' = {}
  /\ nextReg' = 0
  /\ Enter("alloc")
  /\ UNCHANGED <<vregs, swapAt, funcs>>

\* The slots of the alloc instructions come first.  The loop does not look at
\* MAX_REGS; it writes past the table when a function has more allocs, and what the
\* program does then is not modelled: the behaviour ends there.
AllocStep ==
  /\ In("alloc")
  /\ cursor <= Len(body)
  /\ LET ins  == body[cursor]
         dst  == ins.ops[1]
         size == AllocSize(ins.size)
     IN  IF ins.k # "alloc" \/ Known(dst)
         THEN UNCHANGED <<vregs, count, stackUsed>>
         ELSE /\ count < MaxRegs
              /\ stackUsed' = stackUsed + size
              /\ count' = count + 1
              /\ Write(count + 1, [name |-> dst, off |-> -(stackUsed + size), reg |-> NoReg,
                                   uses |-> 0, ptr |-> dst \in PtrNames, float |-> FALSE])
  /\ cursor' = cursor + 1
  /\ UNCHANGED <<regUsed, body, pass, swapAt, nextReg, funcs>>

\* mutant of NameStep: no lookup
NameStepTwice ==
  /\ In("names")
  /\ cursor <= Len(Operands)
  /\ count < MaxRegs
  /\ count' = count + 1
  /\ Write(count + 1, [vregs[count + 1] EXCEPT
                         !.name = Operands[cursor], !.reg = NoReg, !.uses = 0,
                         !.ptr = Operands[cursor] \in PtrNames])
  /\ cursor' = cursor + 1
  /\ UNCHANGED <<stackUsed, regUsed, body, pass, swapAt, nextReg, funcs>>

\* Every other operand gets an entry; stack_off and is_float are not written.
NameStep ==
  /\ In("names")
  /\ cursor <= Len(Operands)
  /\ LET name == Operands[cursor]
     IN  IF Known(name) \/ count >= MaxRegs
         THEN UNCHANGED <<vregs, count>>
         ELSE /\ count' = count + 1
              /\ Write(count + 1, [vregs[count + 1] EXCEPT
                                     !.name = name, !.reg = NoReg, !.uses = 0,
                                     !.ptr = name \in PtrNames])
  /\ cursor' = cursor + 1
  /\ UNCHANGED <<stackUsed, regUsed, body, pass, swapAt, nextReg, funcs>>

\* count_uses
CountUses ==
  /\ In("uses")
  /\ vregs' = [i \in DOMAIN vregs |->
                 IF i \in Live THEN [vregs[i] EXCEPT !.uses = vregs[i].uses + Uses(vregs[i].name)]
                               ELSE vregs[i]]
  /\ Enter("floats")
  /\ UNCHANGED <<count, stackUsed, regUsed, body, swapAt, nextReg, funcs>>

\* mutant of MarkFloats: the table is not sorted
MarkFloatsUnsorted ==
  /\ In("floats")
  /\ vregs' = [i \in DOMAIN vregs |->
                 IF i \in Live /\ vregs[i].name \in FloatOperands
                 THEN [vregs[i] EXCEPT !.float = TRUE]
                 ELSE vregs[i]]
  /\ Enter(IF IsLeaf THEN "phys" ELSE "slots")
  /\ UNCHANGED <<count, stackUsed, regUsed, body, swapAt, nextReg, funcs>>

MarkFloats ==
  /\ In("floats")
  /\ vregs' = [i \in DOMAIN vregs |->
                 IF i \in Live /\ vregs[i].name \in FloatOperands
                 THEN [vregs[i] EXCEPT !.float = TRUE]
                 ELSE vregs[i]]
  /\ swapAt' = 2
  /\ Enter(IF IsLeaf THEN "sort" ELSE "slots")
  /\ UNCHANGED <<count, stackUsed, regUsed, body, nextReg, funcs>>

\* The exchange sort by falling use_count: i is cursor and j is swapAt.
SortStep ==
  /\ In("sort")
  /\ cursor < count
  /\ IF swapAt > count
     THEN cursor' = cursor + 1 /\ swapAt' = cursor + 2 /\ UNCHANGED vregs
     ELSE /\ vregs' = IF vregs[swapAt].uses > vregs[cursor].uses
                      THEN [vregs EXCEPT ![cursor] = vregs[swapAt], ![swapAt] = vregs[cursor]]
                      ELSE vregs
          /\ swapAt' = swapAt + 1
          /\ UNCHANGED cursor
  /\ UNCHANGED <<count, stackUsed, regUsed, body, pass, nextReg, funcs>>

Eligible(v) == v.uses >= 2 /\ ~v.ptr /\ ~v.float /\ v.name \notin Args

PhysStep ==
  /\ In("phys")
  /\ cursor <= count
  /\ nextReg < NumAllocRegs
  /\ IF Eligible(vregs[cursor])
     THEN /\ Write(cursor, [vregs[cursor] EXCEPT !.reg = nextReg])
          /\ regUsed' = regUsed \union {nextReg}
          /\ nextReg' = nextReg + 1
     ELSE UNCHANGED <<vregs, regUsed, nextReg>>
  /\ cursor' = cursor + 1
  /\ UNCHANGED <<count, stackUsed, body, pass, swapAt, funcs>>

\* mutant of SlotStep: the slot is taken before the frame grows
SlotStepEarly ==
  /\ In("slots")
  /\ cursor <= count
  /\ IF vregs[cursor].reg >= 0 \/ vregs[cursor].off # 0
     THEN UNCHANGED <<vregs, stackUsed>>
     ELSE /\ stackUsed' = stackUsed + 8
          /\ Write(cursor, [vregs[cursor] EXCEPT !.off = -stackUsed])
  /\ cursor' = cursor + 1
  /\ UNCHANGED <<count, regUsed, body, pass, swapAt, nextReg, funcs>>

\* An entry whose stack_off is not 0 is taken for one that alloc has served.
SlotStep ==
  /\ In("slots")
  /\ cursor <= count
  /\ IF vregs[cursor].reg >= 0 \/ vregs[cursor].off # 0
     THEN UNCHANGED <<vregs, stackUsed>>
     ELSE /\ stackUsed' = stackUsed + 8
          /\ Write(cursor, [vregs[cursor] EXCEPT !.off = -(stackUsed + 8)])
  /\ cursor' = cursor + 1
  /\ UNCHANGED <<count, regUsed, body, pass, swapAt, nextReg, funcs>>

\* Every %arg has a slot, used or not.
ArgStep ==
  /\ In("args")
  /\ cursor <= Len(ArgNames)
  /\ LET name == ArgNames[cursor]
     IN  IF Known(name) \/ count >= MaxRegs
         THEN UNCHANGED <<vregs, count, stackUsed>>
         ELSE /\ stackUsed' = stackUsed + 8
              /\ count' = count + 1
              /\ Write(count + 1, [vregs[count + 1] EXCEPT
                                     !.name = name, !.off = -(stackUsed + 8), !.reg = NoReg])
  /\ cursor' = cursor + 1
  /\ UNCHANGED <<regUsed, body, pass, swapAt, nextReg, funcs>>

\* One loop is over and the next one begins.
NextPass ==
  /\ \/ In("alloc") /\ cursor > Len(body) /\ Enter("names")
     \/ In("names") /\ cursor > Len(Operands) /\ Enter("uses")
     \/ In("sort") /\ cursor >= count /\ Enter("phys")
     \/ In("phys") /\ (cursor > count \/ nextReg >= NumAllocRegs) /\ Enter("slots")
     \/ In("slots") /\ cursor > count /\ Enter("args")
  /\ UNCHANGED <<vregs, count, stackUsed, regUsed, body, swapAt, nextReg, funcs>>

\* stack_used is rounded up to 16 and becomes the stack_size of the function.
Done ==
  /\ In("args")
  /\ cursor > Len(ArgNames)
  /\ stackUsed' = AlignUp(stackUsed, 16)
  /\ funcs' = funcs + 1
  /\ Enter("idle")
  /\ UNCHANGED <<vregs, count, regUsed, body, swapAt, nextReg>>

Next ==
  \/ GenFunc \/ AllocStep \/ NameStep \/ CountUses \/ MarkFloats \/ SortStep
  \/ PhysStep \/ SlotStep \/ ArgStep \/ NextPass \/ Done

Spec == Init /\ [][Next]_vars

(***************************************************************************)
(* What the code generator reads after init_regalloc: gen_func looks a     *)
(* name up and uses its register, or its slot below rbp.                   *)
(***************************************************************************)
Allocated == In("idle") /\ funcs > 0

InMemory(i) == vregs[i].reg < 0

SizeOf(name) ==
  LET allocs == {j \in DOMAIN body : body[j].k = "alloc" /\ body[j].ops[1] = name}
  IN  IF allocs = {} THEN 8 ELSE body[Min(allocs)].size

\* the bytes of the slot of entry i, as distances from rbp
Bytes(i) == vregs[i].off .. vregs[i].off + SizeOf(vregs[i].name) - 1

\* The table finds every operand of the function, exactly once: swaps, skipped
\* entries and names that alloc has seen already leave no name out and none twice.
TableComplete ==
  Allocated =>
    /\ \A i, j \in Live : vregs[i].name = vregs[j].name => i = j
    /\ count < MaxRegs => Range(Operands) \union Args \subseteq {vregs[i].name : i \in Live}

\* The physical register holds one variable, in a leaf function only, never a
\* 64-bit pointer (moves to it are 32 bits wide), an argument or a float (the
\* SSE operations read the slot); and it is saved exactly when it is used.
RegisterOwner ==
  Allocated =>
    /\ \A i, j \in Live : vregs[i].reg = vregs[j].reg /\ ~InMemory(i) => i = j
    /\ \A i \in Live : ~InMemory(i) =>
         IsLeaf /\ vregs[i].name \notin PtrNames \union Args \union FloatOperands
    /\ regUsed = {vregs[i].reg : i \in {k \in Live : ~InMemory(k)}}

\* The register goes to the most used variable of those that may have it.
MostUsedFirst ==
  Allocated /\ IsLeaf =>
    \A i, j \in Live :
      ~InMemory(i) /\ InMemory(j) /\ vregs[j].name \in Range(Operands)
        /\ vregs[j].name \notin PtrNames \union Args \union FloatOperands
      => Uses(vregs[j].name) <= Uses(vregs[i].name) \/ vregs[j].float

\* rbx has an owner that may have it, and of those the one that is used most.
RegisterGoesRight == RegisterOwner /\ MostUsedFirst

\* The slots of the alloc instructions, where addra takes addresses, are within
\* the frame and apart from each other.
AllocsApart ==
  Allocated =>
    \A i, j \in {k \in Live : InMemory(k) /\ \E m \in DOMAIN body :
                                body[m].k = "alloc" /\ body[m].ops[1] = vregs[k].name} :
      /\ Bytes(i) \subseteq -stackUsed .. -1
      /\ i # j => Bytes(i) \intersect Bytes(j) = {}

\* Two variables never share memory: the virtual registers are those of this
\* function only ("per-function reset", the comment on CaiContext.vregs).
SlotsApart ==
  Allocated =>
    \A i, j \in Live :
      InMemory(i) /\ InMemory(j) /\ i # j => Bytes(i) \intersect Bytes(j) = {}

\* In the first function of a file, where no entry is left from another one, alloc
\* slots, variables and arguments never share memory: a variable that an alloc names
\* again, or that the sort has moved, is given no second slot.
FirstSlotsApart == funcs = 1 => SlotsApart

\* In the first function every slot lies within the stack_size that the prologue
\* subtracts from rsp: the frame of a callee cannot reach it.
FirstSlotsInFrame ==
  Allocated /\ funcs = 1 => \A i \in Live : InMemory(i) => Bytes(i) \subseteq -stackUsed .. -1

\* The memory of a function: in every function alloc slots are apart, and in the
\* first one of a file all the slots are, and are in the frame.
SlotsAreRight == AllocsApart /\ FirstSlotsApart /\ FirstSlotsInFrame

=============================================================================
