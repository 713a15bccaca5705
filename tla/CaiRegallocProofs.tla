-------------------------- MODULE CaiRegallocProofs --------------------------
(***************************************************************************)
(* The table of virtual registers that init_regalloc leaves, for every      *)
(* program, every size of the table and every number of physical registers, *)
(* whatever an earlier function has left in the entries.                   *)
(***************************************************************************)
EXTENDS CaiRegalloc, FiniteSetTheorems, WellFoundedInduction, TLAPS

(***************************************************************************)
(* The shape of the state.                                                 *)
(***************************************************************************)
Entries == [name : Names \union {NoName}, off : Int, reg : Int, uses : Nat,
            ptr : BOOLEAN, float : BOOLEAN]

\* What BodiesAssumption says of a body.
BodyTyped(b) ==
  /\ b \in Seq(Instructions) /\ OperandsOf(b) \in Seq(Names)
  /\ \A j \in DOMAIN b : b[j].k = "alloc" => b[j].ops # <<>>

Started == pass # "idle" \/ funcs > 0    \* some function has been looked at

TypeInv ==
  /\ vregs \in [1 .. MaxRegs -> Entries]
  /\ count \in 0 .. MaxRegs
  /\ stackUsed \in Nat
  /\ regUsed \subseteq Nat
  /\ pass \in Passes
  /\ cursor \in Nat \ {0}
  /\ swapAt \in Nat \ {0}
  /\ nextReg \in Nat
  /\ funcs \in Nat
  /\ Started => BodyTyped(body)
  /\ ~Started => count = 0

LEMMA LiveFacts ==
  ASSUME TypeInv
  PROVE  /\ Live \subseteq 1 .. MaxRegs
         /\ \A i \in Live : vregs[i] \in Entries
         /\ count \in Nat /\ MaxRegs \in Nat
BY RegallocAssumption DEF TypeInv, Live

(***************************************************************************)
(* What the steps do to the table.                                         *)
(***************************************************************************)

\* An entry is written.
LEMMA WriteEffect ==
  ASSUME TypeInv, NEW i \in 1 .. MaxRegs, NEW e \in Entries, Write(i, e)
  PROVE  /\ vregs' \in [1 .. MaxRegs -> Entries]
         /\ vregs'[i] = e
         /\ \A j \in 1 .. MaxRegs : j # i => vregs'[j] = vregs[j]
BY DEF TypeInv, Write

\* The fields of a new entry, for each of the loops that add one.
LEMMA AllocEntry ==
  ASSUME NEW n \in Names, NEW off \in Int, NEW e,
         e = [name |-> n, off |-> off, reg |-> NoReg, uses |-> 0,
              ptr |-> n \in PtrNames, float |-> FALSE]
  PROVE  /\ e \in Entries /\ e.name = n /\ e.off = off /\ e.reg = NoReg /\ e.uses = 0
         /\ e.ptr <=> n \in PtrNames
<1>1. e.name = n /\ e.off = off /\ e.reg = NoReg /\ e.uses = 0
  OBVIOUS
<1>2. e.ptr = (n \in PtrNames)
  OBVIOUS
<1>3. e \in Entries
  BY DEF Entries, NoReg
<1> QED
  BY <1>1, <1>2, <1>3

Renamed(e, old, n) ==
  e = [old EXCEPT !.name = n, !.reg = NoReg, !.uses = 0, !.ptr = n \in PtrNames]

LEMMA NameEntry ==
  ASSUME NEW n \in Names, NEW old \in Entries, NEW e, Renamed(e, old, n)
  PROVE  /\ e \in Entries /\ e.name = n /\ e.off = old.off /\ e.reg = NoReg /\ e.uses = 0
         /\ e.ptr <=> n \in PtrNames
<1>1. e.name = n /\ e.off = old.off /\ e.reg = NoReg /\ e.uses = 0 /\ e.float = old.float
  BY DEF Entries, Renamed
<1>2. e.ptr = (n \in PtrNames)
  BY DEF Entries, Renamed
<1>3. e = [name |-> e.name, off |-> e.off, reg |-> e.reg, uses |-> e.uses, ptr |-> e.ptr,
           float |-> e.float]
  BY DEF Entries, Renamed
<1>4. e.off \in Int /\ e.reg \in Int /\ e.ptr \in BOOLEAN /\ e.float \in BOOLEAN
  BY <1>1, <1>2 DEF Entries, NoReg
<1>5. e \in Entries
  BY <1>1, <1>3, <1>4 DEF Entries
<1> QED
  BY <1>1, <1>2, <1>5

ForArg(e, old, n, off) == e = [old EXCEPT !.name = n, !.off = off, !.reg = NoReg]

LEMMA ArgEntry ==
  ASSUME NEW n \in Names, NEW old \in Entries, NEW off \in Int, NEW e,
         ForArg(e, old, n, off)
  PROVE  e \in Entries /\ e.name = n /\ e.off = off /\ e.reg = NoReg
<1>1. /\ e.name = n /\ e.off = off /\ e.reg = NoReg
      /\ e.uses = old.uses /\ e.ptr = old.ptr /\ e.float = old.float
  BY DEF Entries, ForArg
<1>2. e = [name |-> e.name, off |-> e.off, reg |-> e.reg, uses |-> e.uses, ptr |-> e.ptr,
           float |-> e.float]
  BY DEF Entries, ForArg
<1>3. e \in Entries
  BY <1>1, <1>2 DEF Entries, NoReg
<1> QED
  BY <1>1, <1>3

\* A new entry for n at off, which the table did not have.
Added(n, off) ==
  /\ count' = count + 1 /\ count + 1 \in 1 .. MaxRegs
  /\ Live' = Live \union {count + 1} /\ count + 1 \notin Live
  /\ vregs' \in [1 .. MaxRegs -> Entries]
  /\ \A i \in 1 .. MaxRegs : i # count + 1 => vregs'[i] = vregs[i]
  /\ \A i \in Live : vregs'[i] = vregs[i]
  /\ vregs'[count + 1].name = n /\ vregs'[count + 1].off = off
  /\ vregs'[count + 1].reg = NoReg
  /\ n \in Names /\ ~Known(n)

LEMMA AddedFacts ==
  ASSUME TypeInv, count < MaxRegs, NEW e \in Entries, Write(count + 1, e),
         count' = count + 1, e.name \in Names, e.reg = NoReg, ~Known(e.name)
  PROVE  Added(e.name, e.off) /\ vregs'[count + 1] = e
<1>1. count \in Nat /\ MaxRegs \in Nat
  BY LiveFacts
<1>2. /\ count + 1 \in 1 .. MaxRegs
      /\ \A i \in Live : i \in 1 .. MaxRegs /\ i # count + 1
      /\ Live' = Live \union {count + 1} /\ count + 1 \notin Live
  BY <1>1 DEF Live
<1>3. /\ vregs' \in [1 .. MaxRegs -> Entries]
      /\ vregs'[count + 1] = e
      /\ \A i \in 1 .. MaxRegs : i # count + 1 => vregs'[i] = vregs[i]
  BY <1>2, WriteEffect
<1> QED
  BY <1>2, <1>3 DEF Added

\* The alloc loop.
LEMMA AllocEffect ==
  ASSUME TypeInv, AllocStep, NEW ins, ins = body[cursor],
         NEW dst, dst = ins.ops[1]
  PROVE  /\ BodyTyped(body) /\ cursor \in DOMAIN body /\ ins \in Instructions
         /\ \/ /\ ins.k # "alloc" \/ Known(dst)
               /\ UNCHANGED <<vregs, count, stackUsed>>
            \/ /\ ins.k = "alloc" /\ Added(dst, -(stackUsed + AllocSize(ins.size)))
               /\ stackUsed' = stackUsed + AllocSize(ins.size)
               /\ AllocSize(ins.size) \in Nat
               /\ AllocSize(ins.size) >= 8 /\ AllocSize(ins.size) >= ins.size
               /\ vregs'[count + 1].uses = 0
               /\ vregs'[count + 1].ptr <=> dst \in PtrNames
<1>1. BodyTyped(body)
  BY DEF TypeInv, Started, AllocStep, In
<1>2. cursor \in DOMAIN body /\ ins \in Instructions
  BY <1>1 DEF TypeInv, AllocStep, BodyTyped
<1>3. CASE ins.k # "alloc" \/ Known(dst)
  BY <1>1, <1>2, <1>3 DEF AllocStep
<1>4. CASE ins.k = "alloc" /\ ~Known(dst)
  <2> DEFINE size == AllocSize(ins.size)
             e == [name |-> dst, off |-> -(stackUsed + size), reg |-> NoReg, uses |-> 0,
                   ptr |-> dst \in PtrNames, float |-> FALSE]
  <2>1. ins.size \in Int
    BY <1>2 DEF Instructions
  <2>2. size \in Nat /\ size >= 8 /\ size >= ins.size
    <3>1. CASE ins.size > 8
      BY <2>1, <3>1 DEF AllocSize, AlignUp
    <3>2. CASE ~(ins.size > 8)
      BY <2>1, <3>2 DEF AllocSize, AlignUp
    <3> QED
      BY <3>1, <3>2
  <2>3. dst \in Names
    <3>1. ins.ops \in Seq(Names) /\ ins.ops # <<>>
      BY <1>1, <1>2, <1>4 DEF BodyTyped, Instructions
    <3> QED
      BY <3>1
  <2>4. /\ stackUsed' = stackUsed + size /\ count' = count + 1 /\ count < MaxRegs
        /\ Write(count + 1, e)
    BY <1>4 DEF AllocStep
  <2> HIDE DEF size
  <2>5. -(stackUsed + size) \in Int
    BY <2>2 DEF TypeInv
  <2>6. e \in Entries /\ e.name = dst /\ e.off = -(stackUsed + size) /\ e.reg = NoReg
        /\ e.uses = 0 /\ (e.ptr <=> dst \in PtrNames)
    BY <2>3, <2>5, AllocEntry
  <2> HIDE DEF e
  <2>7. Added(dst, -(stackUsed + size)) /\ vregs'[count + 1] = e
    BY <1>4, <2>3, <2>4, <2>6, AddedFacts
  <2> QED
    BY <1>1, <1>2, <1>4, <2>2, <2>4, <2>6, <2>7 DEF size
<1> QED
  BY <1>3, <1>4

\* The loop over the other operands.
LEMMA NameEffect ==
  ASSUME TypeInv, NameStep, NEW n, n = Operands[cursor]
  PROVE  \/ /\ Known(n) \/ count >= MaxRegs
            /\ UNCHANGED <<vregs, count, stackUsed>>
         \/ /\ Added(n, vregs[count + 1].off) /\ UNCHANGED stackUsed
            /\ vregs'[count + 1].uses = 0
            /\ vregs'[count + 1].ptr <=> n \in PtrNames
<1>1. CASE Known(n) \/ count >= MaxRegs
  BY <1>1 DEF NameStep
<1>2. CASE ~Known(n) /\ ~(count >= MaxRegs)
  <2> DEFINE old == vregs[count + 1]
             e == [old EXCEPT !.name = n, !.reg = NoReg, !.uses = 0, !.ptr = n \in PtrNames]
  <2>1. n \in Names
    BY DEF TypeInv, NameStep, In, Started, BodyTyped, Operands
  <2>a. count < MaxRegs /\ count + 1 \in 1 .. MaxRegs
    BY <1>2, LiveFacts
  <2>2. old \in Entries
    BY <2>a DEF TypeInv
  <2>3. count' = count + 1 /\ Write(count + 1, e) /\ UNCHANGED stackUsed
    BY <1>2 DEF NameStep
  <2>b. Renamed(e, old, n)
    BY DEF Renamed
  <2> HIDE DEF e, old
  <2>4. e \in Entries /\ e.name = n /\ e.off = old.off /\ e.reg = NoReg /\ e.uses = 0
        /\ (e.ptr <=> n \in PtrNames)
    BY <2>1, <2>2, <2>b, NameEntry
  <2>5. Added(n, old.off) /\ vregs'[count + 1] = e
    BY <1>2, <2>a, <2>1, <2>3, <2>4, AddedFacts
  <2> QED
    BY <2>3, <2>4, <2>5 DEF old
<1> QED
  BY <1>1, <1>2

\* The loop over the arguments.
LEMMA ArgEffect ==
  ASSUME TypeInv, ArgStep, NEW n, n = ArgNames[cursor]
  PROVE  \/ /\ Known(n) \/ count >= MaxRegs
            /\ UNCHANGED <<vregs, count, stackUsed>>
         \/ Added(n, -(stackUsed + 8)) /\ stackUsed' = stackUsed + 8
<1>1. CASE Known(n) \/ count >= MaxRegs
  BY <1>1 DEF ArgStep
<1>2. CASE ~Known(n) /\ ~(count >= MaxRegs)
  <2> DEFINE old == vregs[count + 1]
             e == [old EXCEPT !.name = n, !.off = -(stackUsed + 8), !.reg = NoReg]
  <2>1. n \in Names
    BY RegallocAssumption DEF TypeInv, ArgStep
  <2>a. count < MaxRegs /\ count + 1 \in 1 .. MaxRegs
    BY <1>2, LiveFacts
  <2>2. old \in Entries /\ -(stackUsed + 8) \in Int
    BY <2>a DEF TypeInv
  <2>3. count' = count + 1 /\ Write(count + 1, e) /\ stackUsed' = stackUsed + 8
    BY <1>2 DEF ArgStep
  <2>b. ForArg(e, old, n, -(stackUsed + 8))
    BY DEF ForArg
  <2> HIDE DEF e, old
  <2>4. e \in Entries /\ e.name = n /\ e.off = -(stackUsed + 8) /\ e.reg = NoReg
    BY <2>1, <2>2, <2>b, ArgEntry
  <2>5. Added(n, -(stackUsed + 8))
    BY <1>2, <2>a, <2>1, <2>3, <2>4, AddedFacts
  <2> QED
    BY <2>3, <2>5
<1> QED
  BY <1>1, <1>2

\* The number of operands that name a variable.
LEMMA UsesNat ==
  ASSUME BodyTyped(body), NEW n
  PROVE  Uses(n) \in Nat
<1> DEFINE S == {j \in DOMAIN Operands : Operands[j] = n}
<1>1. Len(Operands) \in Nat /\ DOMAIN Operands = 1 .. Len(Operands)
  BY DEF BodyTyped, Operands
<1>2. IsFiniteSet(1 .. Len(Operands))
  BY <1>1, FS_Interval
<1>3. IsFiniteSet(S)
  BY <1>1, <1>2, FS_Subset
<1>4. Cardinality(S) \in Nat
  BY <1>3, FS_CardinalityType
<1> QED
  BY <1>4 DEF Uses

\* count_uses: only the counts change.
Counted ==
  /\ vregs' \in [1 .. MaxRegs -> Entries]
  /\ \A i \in Live : /\ vregs'[i].name = vregs[i].name /\ vregs'[i].off = vregs[i].off
                     /\ vregs'[i].reg = vregs[i].reg /\ vregs'[i].ptr = vregs[i].ptr
                     /\ vregs'[i].float = vregs[i].float
                     /\ vregs'[i].uses = vregs[i].uses + Uses(vregs[i].name)
  /\ \A i \in (1 .. MaxRegs) \ Live : vregs'[i] = vregs[i]

LEMMA UsesEntry ==
  ASSUME NEW v \in Entries, NEW u \in Nat, NEW e, e = [v EXCEPT !.uses = u]
  PROVE  /\ e \in Entries /\ e.name = v.name /\ e.off = v.off /\ e.reg = v.reg
         /\ e.ptr = v.ptr /\ e.float = v.float /\ e.uses = u
BY DEF Entries

LEMMA CountEffect ==
  ASSUME TypeInv, CountUses
  PROVE  Counted
<1> DEFINE u(i) == vregs[i].uses + Uses(vregs[i].name)
<1>1. BodyTyped(body)
  BY DEF TypeInv, Started, CountUses, In
<1>2. \A i \in Live : u(i) \in Nat /\ vregs[i] \in Entries /\ i \in 1 .. MaxRegs
  BY <1>1, LiveFacts, UsesNat DEF Entries
<1>3. vregs' = [i \in 1 .. MaxRegs |-> IF i \in Live THEN [vregs[i] EXCEPT !.uses = u(i)]
                                                     ELSE vregs[i]]
  BY DEF TypeInv, CountUses
<1> HIDE DEF u
<1>4. \A i \in Live : vregs'[i] = [vregs[i] EXCEPT !.uses = u(i)]
  BY <1>2, <1>3
<1>5. \A i \in Live : /\ vregs'[i] \in Entries
                      /\ vregs'[i].name = vregs[i].name /\ vregs'[i].off = vregs[i].off
                      /\ vregs'[i].reg = vregs[i].reg /\ vregs'[i].ptr = vregs[i].ptr
                      /\ vregs'[i].float = vregs[i].float /\ vregs'[i].uses = u(i)
  <2> TAKE i \in Live
  <2>1. vregs'[i] = [vregs[i] EXCEPT !.uses = u(i)]
    BY <1>4
  <2> QED
    BY <1>2, <2>1, UsesEntry
<1>6. \A i \in (1 .. MaxRegs) \ Live : vregs'[i] = vregs[i]
  BY <1>3
<1>7. vregs' \in [1 .. MaxRegs -> Entries]
  <2>1. \A i \in 1 .. MaxRegs : vregs'[i] \in Entries
    BY <1>5, <1>6 DEF TypeInv
  <2>2. DOMAIN vregs' = 1 .. MaxRegs /\ vregs' = [i \in 1 .. MaxRegs |-> vregs'[i]]
    BY <1>3
  <2> QED
    BY <2>1, <2>2
<1> QED
  BY <1>5, <1>6, <1>7 DEF Counted, u

\* The float marks: only they change.
Marked ==
  /\ vregs' \in [1 .. MaxRegs -> Entries]
  /\ \A i \in Live : /\ vregs'[i].name = vregs[i].name /\ vregs'[i].off = vregs[i].off
                     /\ vregs'[i].reg = vregs[i].reg /\ vregs'[i].ptr = vregs[i].ptr
                     /\ vregs'[i].uses = vregs[i].uses
                     /\ vregs[i].float => vregs'[i].float
                     /\ vregs[i].name \in FloatOperands => vregs'[i].float
  /\ \A i \in (1 .. MaxRegs) \ Live : vregs'[i] = vregs[i]

LEMMA FloatEntry ==
  ASSUME NEW v \in Entries, NEW e, e = [v EXCEPT !.float = TRUE]
  PROVE  /\ e \in Entries /\ e.name = v.name /\ e.off = v.off /\ e.reg = v.reg
         /\ e.ptr = v.ptr /\ e.uses = v.uses /\ e.float
BY DEF Entries

LEMMA MarkEffect ==
  ASSUME TypeInv, MarkFloats
  PROVE  Marked
<1>2. \A i \in Live : vregs[i] \in Entries /\ i \in 1 .. MaxRegs
  BY LiveFacts
<1>3. vregs' = [i \in 1 .. MaxRegs |-> IF i \in Live /\ vregs[i].name \in FloatOperands
                                       THEN [vregs[i] EXCEPT !.float = TRUE]
                                       ELSE vregs[i]]
  BY DEF TypeInv, MarkFloats
<1>4. \A i \in Live : vregs[i].name \in FloatOperands
                        => vregs'[i] = [vregs[i] EXCEPT !.float = TRUE]
  BY <1>2, <1>3
<1>6. \A i \in 1 .. MaxRegs : ~(i \in Live /\ vregs[i].name \in FloatOperands)
                                => vregs'[i] = vregs[i]
  BY <1>3
<1>5. \A i \in Live : /\ vregs'[i] \in Entries
                      /\ vregs'[i].name = vregs[i].name /\ vregs'[i].off = vregs[i].off
                      /\ vregs'[i].reg = vregs[i].reg /\ vregs'[i].ptr = vregs[i].ptr
                      /\ vregs'[i].uses = vregs[i].uses
                      /\ vregs[i].float => vregs'[i].float
                      /\ vregs[i].name \in FloatOperands => vregs'[i].float
  <2> TAKE i \in Live
  <2>1. CASE vregs[i].name \in FloatOperands
    <3>1. vregs'[i] = [vregs[i] EXCEPT !.float = TRUE]
      BY <1>4, <2>1
    <3> QED
      BY <1>2, <3>1, FloatEntry
  <2>2. CASE vregs[i].name \notin FloatOperands
    <3>1. vregs'[i] = vregs[i]
      BY <1>2, <1>6, <2>2
    <3> QED
      BY <1>2, <2>2, <3>1
  <2> QED
    BY <2>1, <2>2
<1>7. vregs' \in [1 .. MaxRegs -> Entries]
  <2>1. \A i \in 1 .. MaxRegs : vregs'[i] \in Entries
    BY <1>5, <1>6 DEF TypeInv
  <2>2. DOMAIN vregs' = 1 .. MaxRegs /\ vregs' = [i \in 1 .. MaxRegs |-> vregs'[i]]
    BY <1>3
  <2> QED
    BY <2>1, <2>2
<1> QED
  BY <1>5, <1>6, <1>7 DEF Marked

\* Two entries change places, or none.
Swapped(c, s) ==
  /\ vregs' \in [1 .. MaxRegs -> Entries]
  /\ c \in Live /\ s \in Live
  /\ vregs'[c] = vregs[s] /\ vregs'[s] = vregs[c]
  /\ \A i \in 1 .. MaxRegs : i # c /\ i # s => vregs'[i] = vregs[i]

LEMMA SortEffect ==
  ASSUME TypeInv, SortStep
  PROVE  /\ cursor \in Live
         /\ \/ UNCHANGED vregs /\ swapAt > count /\ cursor' = cursor + 1 /\ swapAt' = cursor + 2
            \/ /\ swapAt \in Live /\ cursor' = cursor /\ swapAt' = swapAt + 1
               /\ \/ /\ Swapped(cursor, swapAt)
                     /\ vregs[swapAt].uses > vregs[cursor].uses
                  \/ UNCHANGED vregs /\ ~(vregs[swapAt].uses > vregs[cursor].uses)
<1>1. cursor \in Live /\ Live \subseteq 1 .. MaxRegs
  BY LiveFacts DEF TypeInv, SortStep, Live
<1>2. CASE swapAt > count
  BY <1>1, <1>2 DEF SortStep
<1>3. CASE ~(swapAt > count)
  <2>1. swapAt \in Live /\ cursor' = cursor /\ swapAt' = swapAt + 1
    BY <1>3, LiveFacts DEF TypeInv, SortStep, Live
  <2>2. CASE vregs[swapAt].uses > vregs[cursor].uses
    <3>1. vregs' = [vregs EXCEPT ![cursor] = vregs[swapAt], ![swapAt] = vregs[cursor]]
      BY <1>3, <2>2 DEF SortStep
    <3>2. Swapped(cursor, swapAt)
      BY <1>1, <2>1, <3>1 DEF Swapped, TypeInv
    <3> QED
      BY <1>1, <2>1, <2>2, <3>2
  <2>3. CASE ~(vregs[swapAt].uses > vregs[cursor].uses)
    BY <1>1, <1>3, <2>1, <2>3 DEF SortStep
  <2> QED
    BY <2>2, <2>3
<1> QED
  BY <1>2, <1>3

\* Entry i gets register r.
RegSet(i, r) ==
  /\ vregs' \in [1 .. MaxRegs -> Entries]
  /\ vregs'[i].reg = r
  /\ vregs'[i].name = vregs[i].name /\ vregs'[i].off = vregs[i].off
  /\ vregs'[i].uses = vregs[i].uses /\ vregs'[i].float = vregs[i].float
  /\ vregs'[i].ptr = vregs[i].ptr
  /\ \A j \in 1 .. MaxRegs : j # i => vregs'[j] = vregs[j]

LEMMA RegEntry ==
  ASSUME NEW v \in Entries, NEW r \in Int, NEW e, e = [v EXCEPT !.reg = r]
  PROVE  /\ e \in Entries /\ e.name = v.name /\ e.off = v.off /\ e.reg = r
         /\ e.ptr = v.ptr /\ e.uses = v.uses /\ e.float = v.float
BY DEF Entries

LEMMA PhysEffect ==
  ASSUME TypeInv, PhysStep
  PROVE  /\ cursor \in Live /\ cursor' = cursor + 1
         /\ \/ /\ Eligible(vregs[cursor]) /\ RegSet(cursor, nextReg)
               /\ regUsed' = regUsed \union {nextReg} /\ nextReg' = nextReg + 1
            \/ ~Eligible(vregs[cursor]) /\ UNCHANGED <<vregs, regUsed, nextReg>>
<1>1. cursor \in Live /\ cursor \in 1 .. MaxRegs /\ cursor' = cursor + 1
  BY LiveFacts DEF TypeInv, PhysStep, Live
<1>2. CASE Eligible(vregs[cursor])
  <2> DEFINE e == [vregs[cursor] EXCEPT !.reg = nextReg]
  <2>1. /\ Write(cursor, e)
        /\ regUsed' = regUsed \union {nextReg} /\ nextReg' = nextReg + 1
    BY <1>2 DEF PhysStep
  <2>2. vregs[cursor] \in Entries /\ nextReg \in Int
    BY <1>1 DEF TypeInv
  <2>3. /\ e \in Entries /\ e.name = vregs[cursor].name /\ e.off = vregs[cursor].off
        /\ e.reg = nextReg /\ e.ptr = vregs[cursor].ptr /\ e.uses = vregs[cursor].uses
        /\ e.float = vregs[cursor].float
    BY <2>2, RegEntry
  <2> HIDE DEF e
  <2>4. RegSet(cursor, nextReg)
    BY <1>1, <2>1, <2>3, WriteEffect DEF RegSet
  <2> QED
    BY <1>1, <1>2, <2>1, <2>4
<1>3. CASE ~Eligible(vregs[cursor])
  BY <1>1, <1>3 DEF PhysStep
<1> QED
  BY <1>2, <1>3

\* Entry i gets the slot at off.
OffSet(i, off) ==
  /\ vregs' \in [1 .. MaxRegs -> Entries]
  /\ vregs'[i].off = off
  /\ vregs'[i].name = vregs[i].name /\ vregs'[i].reg = vregs[i].reg
  /\ vregs'[i].uses = vregs[i].uses /\ vregs'[i].float = vregs[i].float
  /\ vregs'[i].ptr = vregs[i].ptr
  /\ \A j \in 1 .. MaxRegs : j # i => vregs'[j] = vregs[j]

LEMMA OffEntry ==
  ASSUME NEW v \in Entries, NEW off \in Int, NEW e, e = [v EXCEPT !.off = off]
  PROVE  /\ e \in Entries /\ e.name = v.name /\ e.off = off /\ e.reg = v.reg
         /\ e.ptr = v.ptr /\ e.uses = v.uses /\ e.float = v.float
BY DEF Entries

LEMMA SlotEffect ==
  ASSUME TypeInv, SlotStep
  PROVE  /\ cursor \in Live /\ cursor' = cursor + 1
         /\ \/ /\ ~InMemory(cursor) \/ vregs[cursor].off # 0
               /\ UNCHANGED <<vregs, stackUsed>>
            \/ /\ InMemory(cursor) /\ vregs[cursor].off = 0
               /\ OffSet(cursor, -(stackUsed + 8)) /\ stackUsed' = stackUsed + 8
<1>1. cursor \in Live /\ cursor \in 1 .. MaxRegs /\ cursor' = cursor + 1
  BY LiveFacts DEF TypeInv, SlotStep, Live
<1>a. vregs[cursor] \in Entries /\ vregs[cursor].reg \in Int
  BY <1>1, LiveFacts DEF Entries
<1>2. CASE ~(vregs[cursor].reg >= 0) /\ vregs[cursor].off = 0
  <2> DEFINE off == -(stackUsed + 8)
             e == [vregs[cursor] EXCEPT !.off = off]
  <2>1. /\ Write(cursor, e) /\ stackUsed' = stackUsed + 8
    BY <1>2 DEF SlotStep
  <2>2. off \in Int
    BY DEF TypeInv
  <2> HIDE DEF off
  <2>3. /\ e \in Entries /\ e.name = vregs[cursor].name /\ e.off = off
        /\ e.reg = vregs[cursor].reg /\ e.ptr = vregs[cursor].ptr
        /\ e.uses = vregs[cursor].uses /\ e.float = vregs[cursor].float
    BY <1>a, <2>2, OffEntry
  <2> HIDE DEF e
  <2>4. OffSet(cursor, off)
    BY <1>1, <2>1, <2>3, WriteEffect DEF OffSet
  <2>5. InMemory(cursor)
    BY <1>2, <1>a DEF InMemory
  <2> QED
    BY <1>1, <1>2, <2>1, <2>4, <2>5 DEF off
<1>3. CASE vregs[cursor].reg >= 0 \/ vregs[cursor].off # 0
  BY <1>1, <1>3, <1>a DEF SlotStep, InMemory
<1> QED
  BY <1>2, <1>3

(***************************************************************************)
(* The shape of the state is kept.                                         *)
(***************************************************************************)
LEMMA TypeInit == Init => TypeInv
BY RegallocAssumption
   DEF Init, TypeInv, Started, Entries, Zeroed, Passes

LEMMA GenFuncType ==
  ASSUME TypeInv, GenFunc
  PROVE  TypeInv' /\ Live' = {} /\ Started'
<1>1. BodyTyped(body')
  <2>1. funcs + 1 \in 1 .. MaxFuncs /\ body' \in Bodies[funcs + 1]
    BY RegallocAssumption DEF TypeInv, GenFunc
  <2> QED
    BY <2>1, BodiesAssumption DEF BodyTyped
<1>2. /\ count' = 0 /\ pass' = "alloc" /\ cursor' = 1 /\ stackUsed' = 0 /\ regUsed' = {}
      /\ nextReg' = 0 /\ UNCHANGED <<vregs, swapAt, funcs>>
  BY DEF GenFunc, Enter
<1>3. Live' = {}
  BY <1>2 DEF Live
<1> QED
  BY <1>1, <1>2, <1>3, LiveFacts DEF TypeInv, Started, Passes

LEMMA TypeStep ==
  ASSUME TypeInv, [Next]_vars
  PROVE  TypeInv'
<1>0. CASE UNCHANGED vars
  BY <1>0 DEF TypeInv, vars, Started
<1>1. CASE GenFunc
  BY <1>1, GenFuncType
<1>2. CASE AllocStep
  <2>1. /\ UNCHANGED <<vregs, count, stackUsed>>
        \/ /\ vregs' \in [1 .. MaxRegs -> Entries] /\ count + 1 \in 1 .. MaxRegs
           /\ count' = count + 1 /\ stackUsed' \in Nat
    BY <1>2, AllocEffect DEF Added, TypeInv
  <2>2. /\ cursor' = cursor + 1 /\ UNCHANGED <<regUsed, body, pass, swapAt, nextReg, funcs>>
        /\ pass = "alloc"
    BY <1>2 DEF AllocStep, In
  <2> QED
    BY <2>1, <2>2, LiveFacts DEF TypeInv, Started
<1>3. CASE NameStep
  <2>1. /\ UNCHANGED <<vregs, count>>
        \/ /\ vregs' \in [1 .. MaxRegs -> Entries] /\ count + 1 \in 1 .. MaxRegs
           /\ count' = count + 1
    BY <1>3, NameEffect DEF Added
  <2>2. /\ cursor' = cursor + 1
        /\ UNCHANGED <<stackUsed, regUsed, body, pass, swapAt, nextReg, funcs>>
        /\ pass = "names"
    BY <1>3 DEF NameStep, In
  <2> QED
    BY <2>1, <2>2, LiveFacts DEF TypeInv, Started
<1>4. CASE CountUses
  BY <1>4, CountEffect DEF TypeInv, Started, CountUses, In, Enter, Counted, Passes
<1>5. CASE MarkFloats
  BY <1>5, MarkEffect DEF TypeInv, Started, MarkFloats, In, Enter, Marked, Passes
<1>6. CASE SortStep
  <2>1. /\ vregs' \in [1 .. MaxRegs -> Entries]
        /\ cursor' \in Nat \ {0} /\ swapAt' \in Nat \ {0}
    BY <1>6, SortEffect DEF TypeInv, Swapped
  <2>2. /\ UNCHANGED <<count, stackUsed, regUsed, body, pass, nextReg, funcs>>
    BY <1>6 DEF SortStep
  <2> QED
    BY <2>1, <2>2 DEF TypeInv, Started
<1>7. CASE PhysStep
  <2>1. vregs' \in [1 .. MaxRegs -> Entries]
    <3>1. RegSet(cursor, nextReg) \/ vregs' = vregs
      BY <1>7, PhysEffect
    <3> QED
      BY <3>1 DEF TypeInv, RegSet
  <2>4. cursor' \in Nat \ {0}
    <3>1. cursor' = cursor + 1
      BY <1>7, PhysEffect
    <3> QED
      BY <3>1 DEF TypeInv
  <2>3. regUsed' \subseteq Nat /\ nextReg' \in Nat
    <3>1. \/ regUsed' = regUsed \union {nextReg} /\ nextReg' = nextReg + 1
          \/ UNCHANGED <<regUsed, nextReg>>
      BY <1>7, PhysEffect
    <3>2. regUsed \subseteq Nat /\ nextReg \in Nat
      BY DEF TypeInv
    <3>3. CASE regUsed' = regUsed \union {nextReg} /\ nextReg' = nextReg + 1
      BY <3>2, <3>3
    <3> QED
      BY <3>1, <3>2, <3>3
  <2>2. /\ UNCHANGED <<count, stackUsed, body, pass, swapAt, funcs>>
    BY <1>7 DEF PhysStep
  <2> QED
    BY <2>1, <2>2, <2>3, <2>4 DEF TypeInv, Started
<1>8. CASE SlotStep
  <2>1. /\ vregs' \in [1 .. MaxRegs -> Entries] /\ cursor' \in Nat \ {0} /\ stackUsed' \in Nat
    BY <1>8, SlotEffect DEF TypeInv, OffSet
  <2>2. /\ UNCHANGED <<count, regUsed, body, pass, swapAt, nextReg, funcs>>
    BY <1>8 DEF SlotStep
  <2> QED
    BY <2>1, <2>2 DEF TypeInv, Started
<1>9. CASE ArgStep
  <2>1. /\ UNCHANGED <<vregs, count, stackUsed>>
        \/ /\ vregs' \in [1 .. MaxRegs -> Entries] /\ count + 1 \in 1 .. MaxRegs
           /\ count' = count + 1 /\ stackUsed' \in Nat
    BY <1>9, ArgEffect DEF Added, TypeInv
  <2>2. /\ cursor' = cursor + 1 /\ UNCHANGED <<regUsed, body, pass, swapAt, nextReg, funcs>>
        /\ pass = "args"
    BY <1>9 DEF ArgStep, In
  <2> QED
    BY <2>1, <2>2, LiveFacts DEF TypeInv, Started
<1>10. CASE NextPass
  BY <1>10 DEF NextPass, TypeInv, Started, In, Enter, Passes
<1>11. CASE Done
  <2>1. stackUsed' \in Nat
    BY <1>11 DEF Done, AlignUp, TypeInv
  <2>2. /\ pass' = "idle" /\ cursor' = 1 /\ funcs' = funcs + 1 /\ pass = "args"
        /\ UNCHANGED <<vregs, count, regUsed, body, swapAt, nextReg>>
    BY <1>11 DEF Done, In, Enter
  <2> QED
    BY <2>1, <2>2 DEF TypeInv, Started, Passes
<1> QED
  BY <1>0, <1>1, <1>2, <1>3, <1>4, <1>5, <1>6, <1>7, <1>8, <1>9, <1>10, <1>11 DEF Next

(***************************************************************************)
(* The names of the table: none is in it twice, and what the loops have     *)
(* looked at is in it while there is room.                                 *)
(***************************************************************************)
Once == \A i, j \in Live : vregs[i].name = vregs[j].name => i = j

SeenOperand(k) == pass \notin {"alloc", "names"} \/ (pass = "names" /\ k < cursor)
SeenArg(k)     == pass = "idle" \/ (pass = "args" /\ k < cursor)
SeenIns(m)     == pass # "alloc" \/ m < cursor

IsAlloc(m) == m \in DOMAIN body /\ body[m].k = "alloc"

OperandsIn == \A k \in DOMAIN Operands : SeenOperand(k) => Known(Operands[k])
ArgsIn     == \A k \in DOMAIN ArgNames : SeenArg(k) => Known(ArgNames[k])
AllocsIn   == \A m \in DOMAIN body : IsAlloc(m) /\ SeenIns(m) => Known(body[m].ops[1])

NamesInv ==
  /\ Once
  /\ \A i \in Live : vregs[i].name \in Names
  /\ Started => AllocsIn /\ (count < MaxRegs => OperandsIn /\ ArgsIn)

\* What a step that keeps the names does to them.
NamesKept ==
  /\ \A n \in Names : Known(n) => Known(n)'
  /\ Once'
  /\ \A i \in Live' : vregs'[i].name \in Names

LEMMA SameNames ==
  ASSUME NamesInv, count' = count, \A i \in Live : vregs'[i].name = vregs[i].name
  PROVE  NamesKept
BY DEF NamesInv, NamesKept, Known, Once, Live

\* A swap is a permutation of the table.
Permuted(p) ==
  /\ p \in [Live -> Live]
  /\ \A i, j \in Live : p[i] = p[j] => i = j
  /\ \A j \in Live : \E i \in Live : p[i] = j
  /\ \A i \in Live : vregs'[i] = vregs[p[i]]
  /\ \A i \in (1 .. MaxRegs) \ Live : vregs'[i] = vregs[i]

LEMMA SwapPermutes ==
  ASSUME TypeInv, NEW c, NEW s, Swapped(c, s)
  PROVE  \E p : Permuted(p)
<1> DEFINE q == [i \in Live |-> IF i = c THEN s ELSE IF i = s THEN c ELSE i]
<1>1. c \in Live /\ s \in Live /\ Live \subseteq 1 .. MaxRegs
  BY LiveFacts DEF Swapped
<1>2. q \in [Live -> Live] /\ \A i, j \in Live : q[i] = q[j] => i = j
  BY <1>1
<1>3. \A j \in Live : \E i \in Live : q[i] = j
  <2> TAKE j \in Live
  <2>1. q[q[j]] = j /\ q[j] \in Live
    BY <1>1
  <2> QED
    BY <2>1
<1>4. \A i \in Live : vregs'[i] = vregs[q[i]]
  BY <1>1 DEF Swapped
<1>5. \A i \in (1 .. MaxRegs) \ Live : vregs'[i] = vregs[i]
  BY <1>1 DEF Swapped
<1> HIDE DEF q
<1>6. Permuted(q)
  BY <1>2, <1>3, <1>4, <1>5 DEF Permuted
<1> QED
  BY <1>6

LEMMA KnownSame ==
  ASSUME UNCHANGED <<vregs, count>>
  PROVE  \A n : Known(n)' <=> Known(n)
BY DEF Known, Live

LEMMA SwapNames ==
  ASSUME TypeInv, NamesInv, count' = count, NEW p, Permuted(p)
  PROVE  NamesKept
<1>1. Live' = Live
  BY DEF Live
<1>2. \A n \in Names : Known(n) => Known(n)'
  BY <1>1 DEF Known, Permuted
<1>3. Once'
  BY <1>1 DEF Once, NamesInv, Permuted
<1>4. \A i \in Live' : vregs'[i].name \in Names
  BY <1>1 DEF NamesInv, Permuted
<1> QED
  BY <1>2, <1>3, <1>4 DEF NamesKept

LEMMA AddNames ==
  ASSUME TypeInv, NamesInv, NEW n, NEW off, Added(n, off)
  PROVE  NamesKept /\ Known(n)'
<1>1. /\ Live' = Live \union {count + 1} /\ n \in Names
      /\ \A i \in Live : vregs'[i] = vregs[i]
      /\ vregs'[count + 1].name = n
      /\ \A i \in Live : vregs[i].name # n
  BY DEF Added, Known
<1>2. \A m \in Names : Known(m) => Known(m)'
  BY <1>1 DEF Known
<1>3. Known(n)'
  BY <1>1 DEF Known
<1>4. Once'
  BY <1>1 DEF Once, NamesInv
<1>5. \A i \in Live' : vregs'[i].name \in Names
  BY <1>1 DEF NamesInv
<1> QED
  BY <1>2, <1>3, <1>4, <1>5 DEF NamesKept

\* What a body and the arguments name.
LEMMA BodyFacts ==
  ASSUME TypeInv, Started
  PROVE  /\ \A k \in DOMAIN Operands : Operands[k] \in Names
         /\ \A m \in DOMAIN body : IsAlloc(m) => body[m].ops[1] \in Names
         /\ \A k \in DOMAIN ArgNames : ArgNames[k] \in Names
         /\ DOMAIN Operands = 1 .. Len(Operands) /\ Len(Operands) \in Nat
         /\ DOMAIN body = 1 .. Len(body) /\ Len(body) \in Nat
         /\ DOMAIN ArgNames = 1 .. Len(ArgNames) /\ Len(ArgNames) \in Nat
<1>1. BodyTyped(body)
  BY DEF TypeInv
<1>2. ArgNames \in Seq(Names) /\ Operands \in Seq(Names)
  BY <1>1, RegallocAssumption DEF BodyTyped, Operands
<1>3. body \in Seq(Instructions)
  BY <1>1 DEF BodyTyped
<1>4. \A m \in DOMAIN body : IsAlloc(m) => body[m].ops[1] \in Names
  <2> TAKE m \in DOMAIN body
  <2>1. body[m] \in Instructions
    BY <1>3
  <2>2. body[m].ops \in Seq(Names)
    BY <2>1 DEF Instructions
  <2>3. IsAlloc(m) => body[m].ops # <<>>
    BY <1>1 DEF BodyTyped, IsAlloc
  <2> QED
    BY <2>2, <2>3
<1> QED
  BY <1>2, <1>3, <1>4

\* A step that keeps the names and sees nothing new.
LEMMA NamesFrame ==
  ASSUME TypeInv, NamesInv, NamesKept, UNCHANGED body, Started, count' \in Nat,
         count' >= count,
         \A k \in DOMAIN Operands : SeenOperand(k)' => SeenOperand(k),
         \A k \in DOMAIN ArgNames : SeenArg(k)' => SeenArg(k),
         \A m \in DOMAIN body : SeenIns(m)' => SeenIns(m)
  PROVE  NamesInv'
<1>1. UNCHANGED Operands /\ \A m \in DOMAIN body : IsAlloc(m)' = IsAlloc(m)
  BY DEF Operands, IsAlloc
<1>2. AllocsIn'
  BY <1>1, BodyFacts DEF NamesInv, NamesKept, AllocsIn
<1>3. ASSUME count' < MaxRegs PROVE OperandsIn' /\ ArgsIn'
  <2>1. count < MaxRegs
    BY <1>3, LiveFacts
  <2>2. OperandsIn'
    BY <1>1, <2>1, BodyFacts DEF NamesInv, NamesKept, OperandsIn
  <2>3. ArgsIn'
    BY <2>1, BodyFacts DEF NamesInv, NamesKept, ArgsIn
  <2> QED
    BY <2>2, <2>3
<1> QED
  BY <1>2, <1>3 DEF NamesInv, NamesKept

LEMMA NamesInit == Init => NamesInv
BY DEF Init, NamesInv, Once, Live, Started

LEMMA NamesStep ==
  ASSUME TypeInv, NamesInv, [Next]_vars
  PROVE  NamesInv'
<1>t. TypeInv' /\ count \in Nat /\ cursor \in Nat
  BY TypeStep, LiveFacts DEF TypeInv
<1>0. CASE UNCHANGED vars
  BY <1>0 DEF NamesInv, vars, Started, Once, AllocsIn, OperandsIn, ArgsIn, Live, Known,
              SeenOperand, SeenArg, SeenIns, IsAlloc, Operands
<1>1. CASE GenFunc
  <2>1. Live' = {} /\ pass' = "alloc" /\ cursor' = 1
    BY <1>1, GenFuncType DEF GenFunc, Enter
  <2>2. /\ \A m \in DOMAIN body' : ~SeenIns(m)'
        /\ \A k \in DOMAIN Operands' : ~SeenOperand(k)'
        /\ \A k \in DOMAIN ArgNames : ~SeenArg(k)'
    <3>1. BodyTyped(body')
      BY <1>1, <1>t, GenFuncType DEF TypeInv
    <3>2. \A m \in DOMAIN body' : m \in Nat \ {0}
      BY <3>1 DEF BodyTyped
    <3> QED
      BY <2>1, <3>2 DEF SeenIns, SeenOperand, SeenArg
  <2>3. AllocsIn' /\ OperandsIn' /\ ArgsIn'
    BY <2>2 DEF AllocsIn, OperandsIn, ArgsIn
  <2> QED
    BY <2>1, <2>3 DEF NamesInv, Once
<1>2. CASE AllocStep
  <2>0. PICK dst : dst = body[cursor].ops[1]
    OBVIOUS
  <2>1. /\ cursor' = cursor + 1 /\ UNCHANGED <<body, pass>> /\ pass = "alloc" /\ Started
    BY <1>2 DEF AllocStep, In, Started
  <2>2. /\ NamesKept /\ count' \in Nat /\ count' >= count
        /\ (body[cursor].k = "alloc" /\ cursor \in DOMAIN body) => Known(dst)'
    <3>1. CASE Known(dst) /\ UNCHANGED <<vregs, count>>
      BY <1>t, <3>1, SameNames, KnownSame
    <3>2. CASE body[cursor].k # "alloc" /\ UNCHANGED <<vregs, count>>
      BY <1>t, <3>2, SameNames
    <3>3. ASSUME NEW off, Added(dst, off) PROVE <2>2!1 /\ Known(dst)'
      BY <1>t, <3>3, AddNames DEF Added
    <3> QED
      BY <1>2, <2>0, <3>1, <3>2, <3>3, AllocEffect
  <2>3. UNCHANGED Operands /\ \A m \in DOMAIN body : IsAlloc(m)' = IsAlloc(m)
    BY <2>1 DEF Operands, IsAlloc
  <2>4. AllocsIn'
    <3> SUFFICES ASSUME NEW m \in DOMAIN body, IsAlloc(m), SeenIns(m)'
                 PROVE  Known(body[m].ops[1])'
      BY <2>1, <2>3 DEF AllocsIn
    <3>1. CASE m = cursor
      BY <2>0, <2>1, <2>2, <3>1 DEF IsAlloc
    <3>2. CASE m # cursor
      <4>1. m \in Nat
        BY <2>1, BodyFacts
      <4>2. SeenIns(m)
        BY <1>t, <2>1, <3>2, <4>1 DEF SeenIns
      <4>3. Known(body[m].ops[1]) /\ body[m].ops[1] \in Names
        BY <2>1, <4>2, BodyFacts DEF NamesInv, AllocsIn
      <4> QED
        BY <2>1, <2>2, <4>3 DEF NamesKept
    <3> QED
      BY <3>1, <3>2
  <2>5. OperandsIn' /\ ArgsIn'
    BY <2>1 DEF OperandsIn, ArgsIn, SeenOperand, SeenArg
  <2> QED
    BY <2>2, <2>4, <2>5 DEF NamesKept, NamesInv
<1>3. CASE NameStep
  <2>0. PICK n : n = Operands[cursor]
    OBVIOUS
  <2>1. /\ cursor' = cursor + 1 /\ UNCHANGED <<body, pass>> /\ pass = "names" /\ Started
    BY <1>3 DEF NameStep, In, Started
  <2>2. NamesKept /\ count' \in Nat /\ count' >= count /\ (count' < MaxRegs => Known(n)')
    <3>1. CASE Known(n) /\ UNCHANGED <<vregs, count>>
      BY <1>t, <3>1, SameNames, KnownSame
    <3>2. CASE count >= MaxRegs /\ UNCHANGED <<vregs, count>>
      <4>1. ~(count' < MaxRegs)
        BY <3>2, LiveFacts
      <4> QED
        BY <1>t, <3>2, <4>1, SameNames
    <3>3. ASSUME NEW off, Added(n, off) PROVE <2>2
      BY <1>t, <3>3, AddNames DEF Added
    <3> QED
      BY <1>3, <2>0, <3>1, <3>2, <3>3, NameEffect
  <2>3. UNCHANGED Operands /\ \A m \in DOMAIN body : IsAlloc(m)' = IsAlloc(m)
    BY <2>1 DEF Operands, IsAlloc
  <2>4. AllocsIn'
    BY <2>1, <2>2, <2>3, BodyFacts DEF AllocsIn, NamesInv, NamesKept, SeenIns
  <2>5. ASSUME count' < MaxRegs PROVE OperandsIn'
    <3> SUFFICES ASSUME NEW k \in DOMAIN Operands, SeenOperand(k)'
                 PROVE  Known(Operands[k])'
      BY <2>3 DEF OperandsIn
    <3>1. CASE k = cursor
      BY <2>0, <2>2, <2>3, <2>5, <3>1
    <3>2. CASE k # cursor
      <4>1. k \in Nat
        BY <2>1, BodyFacts
      <4>2. SeenOperand(k)
        BY <1>t, <2>1, <3>2, <4>1 DEF SeenOperand
      <4>3. count < MaxRegs
        BY <2>2, <2>5, LiveFacts
      <4>4. Known(Operands[k]) /\ Operands[k] \in Names
        BY <2>1, <4>2, <4>3, BodyFacts DEF NamesInv, OperandsIn
      <4> QED
        BY <2>2, <2>3, <4>4 DEF NamesKept
    <3> QED
      BY <3>1, <3>2
  <2>6. ArgsIn'
    BY <2>1 DEF ArgsIn, SeenArg
  <2> QED
    BY <2>2, <2>4, <2>5, <2>6 DEF NamesKept, NamesInv
<1>4. CASE CountUses
  <2>1. /\ pass = "uses" /\ pass' = "floats" /\ UNCHANGED <<body, count>>
    BY <1>4 DEF CountUses, In, Enter
  <2>2. NamesKept
    BY <1>4, <2>1, CountEffect, SameNames DEF Counted
  <2> QED
    BY <1>t, <2>1, <2>2, NamesFrame DEF Started, SeenOperand, SeenArg, SeenIns
<1>5. CASE MarkFloats
  <2>1. /\ pass = "floats" /\ pass' \in {"sort", "slots"} /\ UNCHANGED <<body, count>>
    BY <1>5 DEF MarkFloats, In, Enter
  <2>2. NamesKept
    BY <1>5, <2>1, MarkEffect, SameNames DEF Marked
  <2> QED
    BY <1>t, <2>1, <2>2, NamesFrame DEF Started, SeenOperand, SeenArg, SeenIns
<1>6. CASE SortStep
  <2>1. /\ pass = "sort" /\ UNCHANGED <<body, count, pass>>
    BY <1>6 DEF SortStep, In
  <2>2. NamesKept
    <3>1. CASE UNCHANGED vregs
      BY <2>1, <3>1, SameNames
    <3>2. CASE Swapped(cursor, swapAt)
      BY <2>1, <3>2, SwapNames, SwapPermutes
    <3> QED
      BY <1>6, <3>1, <3>2, SortEffect
  <2> QED
    BY <1>t, <2>1, <2>2, NamesFrame DEF Started, SeenOperand, SeenArg, SeenIns
<1>7. CASE PhysStep
  <2>1. /\ pass = "phys" /\ UNCHANGED <<body, count, pass>>
    BY <1>7 DEF PhysStep, In
  <2>2. NamesKept
    <3>1. RegSet(cursor, nextReg) \/ UNCHANGED vregs
      BY <1>7, PhysEffect
    <3>2. \A i \in Live : vregs'[i].name = vregs[i].name
      BY <3>1, LiveFacts DEF RegSet
    <3> QED
      BY <2>1, <3>2, SameNames
  <2> QED
    BY <1>t, <2>1, <2>2, NamesFrame DEF Started, SeenOperand, SeenArg, SeenIns
<1>8. CASE SlotStep
  <2>1. /\ pass = "slots" /\ UNCHANGED <<body, count, pass>>
    BY <1>8 DEF SlotStep, In
  <2>2. NamesKept
    <3>1. OffSet(cursor, -(stackUsed + 8)) \/ UNCHANGED vregs
      BY <1>8, SlotEffect
    <3>2. \A i \in Live : vregs'[i].name = vregs[i].name
      BY <3>1, LiveFacts DEF OffSet
    <3> QED
      BY <2>1, <3>2, SameNames
  <2> QED
    BY <1>t, <2>1, <2>2, NamesFrame DEF Started, SeenOperand, SeenArg, SeenIns
<1>9. CASE ArgStep
  <2>0. PICK n : n = ArgNames[cursor]
    OBVIOUS
  <2>1. /\ cursor' = cursor + 1 /\ UNCHANGED <<body, pass>> /\ pass = "args" /\ Started
    BY <1>9 DEF ArgStep, In, Started
  <2>2. NamesKept /\ count' \in Nat /\ count' >= count /\ (count' < MaxRegs => Known(n)')
    <3>1. CASE Known(n) /\ UNCHANGED <<vregs, count>>
      BY <1>t, <3>1, SameNames, KnownSame
    <3>2. CASE count >= MaxRegs /\ UNCHANGED <<vregs, count>>
      <4>1. ~(count' < MaxRegs)
        BY <3>2, LiveFacts
      <4> QED
        BY <1>t, <3>2, <4>1, SameNames
    <3>3. ASSUME NEW off, Added(n, off) PROVE <2>2
      BY <1>t, <3>3, AddNames DEF Added
    <3> QED
      BY <1>9, <2>0, <3>1, <3>2, <3>3, ArgEffect
  <2>3. UNCHANGED Operands /\ \A m \in DOMAIN body : IsAlloc(m)' = IsAlloc(m)
    BY <2>1 DEF Operands, IsAlloc
  <2>4. AllocsIn'
    BY <2>1, <2>2, <2>3, BodyFacts DEF AllocsIn, NamesInv, NamesKept, SeenIns
  <2>5. ASSUME count' < MaxRegs PROVE OperandsIn' /\ ArgsIn'
    <3>1. count < MaxRegs
      BY <2>2, <2>5, LiveFacts
    <3>2. OperandsIn'
      BY <2>1, <2>2, <2>3, <3>1, BodyFacts DEF OperandsIn, NamesInv, NamesKept, SeenOperand
    <3>3. ArgsIn'
      <4> SUFFICES ASSUME NEW k \in DOMAIN ArgNames, SeenArg(k)'
                   PROVE  Known(ArgNames[k])'
        BY DEF ArgsIn
      <4>1. CASE k = cursor
        BY <2>0, <2>2, <2>5, <4>1
      <4>2. CASE k # cursor
        <5>1. k \in Nat
          BY <2>1, BodyFacts
        <5>2. SeenArg(k)
          BY <1>t, <2>1, <4>2, <5>1 DEF SeenArg
        <5>3. Known(ArgNames[k]) /\ ArgNames[k] \in Names
          BY <2>1, <3>1, <5>2, BodyFacts DEF NamesInv, ArgsIn
        <5> QED
          BY <2>2, <5>3 DEF NamesKept
      <4> QED
        BY <4>1, <4>2
    <3> QED
      BY <3>2, <3>3
  <2> QED
    BY <2>2, <2>4, <2>5 DEF NamesKept, NamesInv
<1>10. CASE NextPass
  <2>1. UNCHANGED <<vregs, count, body>>
    BY <1>10 DEF NextPass
  <2>2. NamesKept
    BY <2>1, SameNames
  <2>3. Started
    BY <1>10 DEF NextPass, In, Started
  <2>4. \A m \in DOMAIN body : SeenIns(m)' => SeenIns(m)
    <3>1. pass # "alloc" \/ cursor > Len(body)
      BY <1>10 DEF NextPass, In
    <3> QED
      BY <1>t, <2>3, <3>1, BodyFacts DEF SeenIns
  <2>5. \A k \in DOMAIN Operands : SeenOperand(k)' => SeenOperand(k)
    <3>1. \/ pass = "alloc" /\ pass' = "names" /\ cursor' = 1
          \/ pass = "names" /\ cursor > Len(Operands)
          \/ pass \notin {"alloc", "names"}
      BY <1>10 DEF NextPass, In, Enter
    <3> QED
      BY <1>t, <2>3, <3>1, BodyFacts DEF SeenOperand
  <2>6. \A k \in DOMAIN ArgNames : SeenArg(k)' => SeenArg(k)
    <3>1. pass' \notin {"args", "idle"} \/ (pass' = "args" /\ cursor' = 1)
      BY <1>10 DEF NextPass, In, Enter
    <3> QED
      BY <1>t, <2>3, <3>1, BodyFacts DEF SeenArg
  <2> QED
    BY <1>t, <2>1, <2>2, <2>3, <2>4, <2>5, <2>6, NamesFrame
<1>11. CASE Done
  <2>1. /\ UNCHANGED <<vregs, count, body>> /\ pass = "args" /\ pass' = "idle"
        /\ cursor > Len(ArgNames)
    BY <1>11 DEF Done, In, Enter
  <2>2. NamesKept
    BY <2>1, SameNames
  <2>3. Started
    BY <2>1 DEF Started
  <2>4. \A k \in DOMAIN ArgNames : SeenArg(k)
    BY <1>t, <2>1, <2>3, BodyFacts DEF SeenArg
  <2> QED
    BY <1>t, <2>1, <2>2, <2>3, <2>4, NamesFrame DEF SeenOperand, SeenIns
<1> QED
  BY <1>0, <1>1, <1>2, <1>3, <1>4, <1>5, <1>6, <1>7, <1>8, <1>9, <1>10, <1>11 DEF Next

\* The operands and the arguments are in the table.
LEMMA CompleteWhenDone == NamesInv /\ TypeInv => TableComplete
<1> SUFFICES ASSUME NamesInv, TypeInv, Allocated
             PROVE  TableComplete
  BY DEF TableComplete
<1>1. Started /\ pass = "idle"
  BY DEF Allocated, Started, In
<1>2. ASSUME count < MaxRegs
      PROVE  Range(Operands) \union Args \subseteq {vregs[i].name : i \in Live}
  <2>1. OperandsIn /\ ArgsIn
    BY <1>1, <1>2 DEF NamesInv
  <2>2. /\ \A k \in DOMAIN Operands : Known(Operands[k])
        /\ \A k \in DOMAIN ArgNames : Known(ArgNames[k])
    BY <1>1, <2>1 DEF OperandsIn, ArgsIn, SeenOperand, SeenArg
  <2> QED
    BY <2>2 DEF Range, Args, Known
<1> QED
  BY <1>2 DEF TableComplete, NamesInv, Once

\* The table of virtual registers finds every operand and every argument of a function,
\* exactly once, unless the table is full: whatever the alloc loop has entered before the
\* other operands, however the sort moves the entries, and whatever entries an earlier
\* function of the file has left (init_regalloc, find_vreg).
THEOREM TableCompleteCorrect == Spec => []TableComplete
<1>1. Init => TypeInv /\ NamesInv
  BY TypeInit, NamesInit
<1>2. (TypeInv /\ NamesInv) /\ [Next]_vars => (TypeInv /\ NamesInv)'
  BY TypeStep, NamesStep
<1>3. TypeInv /\ NamesInv => TableComplete
  BY CompleteWhenDone
<1> QED
  BY <1>1, <1>2, <1>3, PTL DEF Spec

(***************************************************************************)
(* The owners of the physical registers.                                   *)
(***************************************************************************)
OneOwner == \A i, j \in Live : vregs[i].reg = vregs[j].reg /\ ~InMemory(i) => i = j

MayOwn == \A i \in Live : ~InMemory(i) =>
            /\ IsLeaf /\ vregs[i].reg < nextReg
            /\ vregs[i].name \notin PtrNames \union Args \union FloatOperands

SavedOnes ==
  /\ \A i \in Live : ~InMemory(i) => vregs[i].reg \in regUsed
  /\ \A r \in regUsed : \E i \in Live : ~InMemory(i) /\ vregs[i].reg = r

Owners == OneOwner /\ MayOwn /\ SavedOnes

NoOwner == \A i \in Live : InMemory(i)
PtrsTrue   == \A i \in Live : vregs[i].ptr => vregs[i].name \in PtrNames
PtrsMarked == \A i \in Live : vregs[i].name \in PtrNames => vregs[i].ptr
FloatsMarked == \A i \in Live : vregs[i].name \in FloatOperands => vregs[i].float

RegInv ==
  /\ Owners
  /\ pass \in {"alloc", "names", "uses", "floats", "sort"} => NoOwner
  /\ pass = "phys" => \A i \in Live : i >= cursor => InMemory(i)
  /\ pass \in {"alloc", "names", "uses", "floats", "sort", "phys"} => PtrsTrue /\ PtrsMarked
  /\ pass \in {"sort", "phys"} => IsLeaf /\ FloatsMarked

LEMMA OwnersSame ==
  ASSUME Owners, UNCHANGED <<count, regUsed, nextReg, body>>,
         \A i \in Live : vregs'[i].name = vregs[i].name /\ vregs'[i].reg = vregs[i].reg
  PROVE  Owners'
<1>1. Live' = Live /\ \A i \in Live : InMemory(i)' = InMemory(i)
  BY DEF Live, InMemory
<1>2. UNCHANGED <<IsLeaf, FloatOperands>>
  BY DEF IsLeaf, FloatOperands
<1>3. OneOwner'
  BY <1>1 DEF OneOwner, Owners
<1>4. MayOwn'
  BY <1>1, <1>2 DEF MayOwn, Owners
<1>5. SavedOnes'
  BY <1>1 DEF SavedOnes, Owners
<1> QED
  BY <1>3, <1>4, <1>5 DEF Owners

LEMMA OwnersAdd ==
  ASSUME TypeInv, Owners, UNCHANGED <<regUsed, nextReg, body>>, NEW n, NEW off, Added(n, off)
  PROVE  Owners'
<1>0. PICK k : k = count + 1
  OBVIOUS
<1>1. /\ Live' = Live \union {k} /\ k \notin Live
      /\ \A i \in Live : vregs'[i] = vregs[i]
      /\ vregs'[k].reg < 0
  BY <1>0 DEF Added, NoReg
<1>2. /\ \A i \in Live : InMemory(i)' = InMemory(i)
      /\ InMemory(k)'
  BY <1>1 DEF InMemory
<1>3. UNCHANGED <<IsLeaf, FloatOperands>>
  BY DEF IsLeaf, FloatOperands
<1>4. OneOwner'
  <2> SUFFICES ASSUME NEW i \in Live', NEW j \in Live',
                      vregs'[i].reg = vregs'[j].reg, ~InMemory(i)'
               PROVE  i = j
    BY DEF OneOwner
  <2>1. i \in Live
    BY <1>1, <1>2
  <2>2. ~InMemory(j)'
    BY DEF InMemory
  <2>3. j \in Live
    BY <1>1, <1>2, <2>2
  <2> QED
    BY <1>1, <1>2, <2>1, <2>3 DEF OneOwner, Owners
<1>5. MayOwn'
  BY <1>1, <1>2, <1>3 DEF MayOwn, Owners
<1>6. SavedOnes'
  BY <1>1, <1>2 DEF SavedOnes, Owners
<1> QED
  BY <1>4, <1>5, <1>6 DEF Owners

LEMMA OwnersNone ==
  ASSUME Owners, NoOwner, UNCHANGED regUsed, NoOwner'
  PROVE  Owners'
<1>1. regUsed = {}
  BY DEF Owners, NoOwner, SavedOnes
<1> QED
  BY <1>1 DEF Owners, NoOwner, SavedOnes, OneOwner, MayOwn

\* The entry at cursor gets the next register.
LEMMA OwnersReg ==
  ASSUME TypeInv, Owners, NEW i \in Live, RegSet(i, nextReg), InMemory(i),
         IsLeaf, vregs[i].name \notin PtrNames \union Args \union FloatOperands,
         regUsed' = regUsed \union {nextReg}, nextReg' = nextReg + 1,
         UNCHANGED <<count, body>>
  PROVE  Owners' /\ \A j \in Live : j # i => InMemory(j)' = InMemory(j)
<1>1. /\ Live' = Live /\ Live \subseteq 1 .. MaxRegs /\ nextReg \in Nat
      /\ \A j \in Live : j # i => vregs'[j] = vregs[j]
      /\ vregs'[i].reg = nextReg /\ vregs'[i].name = vregs[i].name
      /\ \A j \in Live : vregs[j].reg \in Int
  BY LiveFacts DEF Live, RegSet, TypeInv, Entries
<1>2. UNCHANGED <<IsLeaf, FloatOperands>>
  BY DEF IsLeaf, FloatOperands
<1>3. /\ \A j \in Live : j # i => InMemory(j)' = InMemory(j)
      /\ ~InMemory(i)'
  BY <1>1 DEF InMemory
<1>4. \A j \in Live : j # i => vregs'[j].reg # nextReg
  BY <1>1 DEF Owners, MayOwn, InMemory
<1>5. OneOwner'
  <2> SUFFICES ASSUME NEW j \in Live, NEW k \in Live,
                      vregs'[j].reg = vregs'[k].reg, ~InMemory(j)'
               PROVE  j = k
    BY <1>1 DEF OneOwner
  <2>1. CASE j # i /\ k # i
    BY <1>1, <1>3, <2>1 DEF OneOwner, Owners
  <2>2. CASE j = i \/ k = i
    BY <1>1, <1>4, <2>2
  <2> QED
    BY <2>1, <2>2
<1>6. MayOwn'
  <2> SUFFICES ASSUME NEW j \in Live, ~InMemory(j)'
               PROVE  /\ IsLeaf' /\ vregs'[j].reg < nextReg'
                      /\ vregs'[j].name \notin PtrNames \union Args \union FloatOperands'
    BY <1>1 DEF MayOwn
  <2>1. CASE j = i
    BY <1>1, <1>2, <2>1
  <2>2. CASE j # i
    <3>1. ~InMemory(j) /\ vregs'[j] = vregs[j] /\ vregs[j].reg \in Int
      BY <1>1, <1>3, <2>2
    <3>2. vregs[j].reg < nextReg
      BY <3>1 DEF Owners, MayOwn
    <3> QED
      BY <1>1, <1>2, <3>1, <3>2 DEF Owners, MayOwn
  <2> QED
    BY <2>1, <2>2
<1>7. SavedOnes'
  BY <1>1, <1>3 DEF SavedOnes, Owners
<1> QED
  BY <1>3, <1>5, <1>6, <1>7 DEF Owners

\* The table before the registers are given away.
LEMMA UnownedAdd ==
  ASSUME TypeInv, RegInv, pass \in {"alloc", "names"}, UNCHANGED <<pass, regUsed, nextReg, body>>,
         NEW n, NEW off, Added(n, off), vregs'[count + 1].ptr <=> n \in PtrNames
  PROVE  RegInv'
<1>1. /\ Live' = Live \union {count + 1}
      /\ \A i \in Live : vregs'[i] = vregs[i]
      /\ vregs'[count + 1].reg < 0 /\ vregs'[count + 1].name = n
  BY DEF Added, NoReg
<1>2. NoOwner'
  BY <1>1 DEF RegInv, NoOwner, InMemory
<1>3. PtrsTrue'
  BY <1>1 DEF RegInv, PtrsTrue
<1>5. PtrsMarked'
  BY <1>1 DEF RegInv, PtrsMarked
<1>4. Owners'
  BY OwnersAdd DEF RegInv
<1> QED
  BY <1>2, <1>3, <1>4, <1>5 DEF RegInv

LEMMA RegInit == Init => RegInv
BY DEF Init, RegInv, Owners, OneOwner, MayOwn, SavedOnes, Live

LEMMA RegStep ==
  ASSUME TypeInv, RegInv, [Next]_vars
  PROVE  RegInv'
<1>0. CASE UNCHANGED vars
  BY <1>0 DEF RegInv, vars, Owners, OneOwner, MayOwn, SavedOnes, NoOwner, PtrsTrue, PtrsMarked,
              FloatsMarked, Live, InMemory, IsLeaf, FloatOperands
<1>1. CASE GenFunc
  <2>1. Live' = {} /\ pass' = "alloc" /\ regUsed' = {}
    BY <1>1, GenFuncType DEF GenFunc, Enter
  <2> QED
    BY <2>1 DEF RegInv, Owners, OneOwner, MayOwn, SavedOnes, NoOwner, PtrsTrue, PtrsMarked
<1>2. CASE AllocStep
  <2>1. pass = "alloc" /\ UNCHANGED <<pass, regUsed, nextReg, body>>
    BY <1>2 DEF AllocStep, In
  <2>2. CASE UNCHANGED <<vregs, count>>
    BY <2>1, <2>2, OwnersSame
       DEF RegInv, NoOwner, PtrsTrue, PtrsMarked, Live, InMemory
  <2>3. ASSUME NEW n, NEW off, Added(n, off), vregs'[count + 1].ptr <=> n \in PtrNames
        PROVE  RegInv'
    BY <2>1, <2>3, UnownedAdd
  <2> QED
    BY <1>2, <2>2, <2>3, AllocEffect
<1>3. CASE NameStep
  <2>1. pass = "names" /\ UNCHANGED <<pass, regUsed, nextReg, body>>
    BY <1>3 DEF NameStep, In
  <2>2. CASE UNCHANGED <<vregs, count>>
    BY <2>1, <2>2, OwnersSame
       DEF RegInv, NoOwner, PtrsTrue, PtrsMarked, Live, InMemory
  <2>3. ASSUME NEW n, NEW off, Added(n, off), vregs'[count + 1].ptr <=> n \in PtrNames
        PROVE  RegInv'
    BY <2>1, <2>3, UnownedAdd
  <2> QED
    BY <1>3, <2>2, <2>3, NameEffect
<1>4. CASE CountUses
  <2>1. /\ pass = "uses" /\ pass' = "floats" /\ UNCHANGED <<count, regUsed, nextReg, body>>
    BY <1>4 DEF CountUses, In, Enter
  <2>2. Counted /\ Live' = Live
    BY <1>4, <2>1, CountEffect DEF Live
  <2>3. Owners'
    BY <2>1, <2>2, OwnersSame DEF RegInv, Counted
  <2>4. NoOwner' /\ PtrsTrue' /\ PtrsMarked'
    BY <2>1, <2>2 DEF RegInv, Counted, NoOwner, PtrsTrue, PtrsMarked, InMemory
  <2> QED
    BY <2>1, <2>3, <2>4 DEF RegInv
<1>5. CASE MarkFloats
  <2>1. /\ pass = "floats" /\ pass' = (IF IsLeaf THEN "sort" ELSE "slots")
        /\ UNCHANGED <<count, regUsed, nextReg, body>>
    BY <1>5 DEF MarkFloats, In, Enter
  <2>2. Marked /\ Live' = Live /\ UNCHANGED <<IsLeaf, FloatOperands>>
    BY <1>5, <2>1, MarkEffect DEF Live, IsLeaf, FloatOperands
  <2>3. Owners'
    BY <2>1, <2>2, OwnersSame DEF RegInv, Marked
  <2>4. NoOwner' /\ PtrsTrue' /\ PtrsMarked'
    BY <2>1, <2>2 DEF RegInv, Marked, NoOwner, PtrsTrue, PtrsMarked, InMemory
  <2>5. FloatsMarked'
    BY <2>2 DEF Marked, FloatsMarked
  <2> QED
    BY <2>1, <2>2, <2>3, <2>4, <2>5 DEF RegInv
<1>6. CASE SortStep
  <2>1. pass = "sort" /\ UNCHANGED <<pass, count, regUsed, nextReg, body>>
    BY <1>6 DEF SortStep, In
  <2>2. Live' = Live /\ UNCHANGED <<IsLeaf, FloatOperands>>
    BY <2>1 DEF Live, IsLeaf, FloatOperands
  <2>3. NoOwner /\ PtrsTrue /\ PtrsMarked /\ FloatsMarked /\ IsLeaf /\ Owners
    BY <2>1 DEF RegInv
  <2>4. ASSUME NEW p, Permuted(p)
        PROVE  NoOwner' /\ PtrsTrue' /\ PtrsMarked' /\ FloatsMarked'
    BY <2>2, <2>3, <2>4 DEF Permuted, NoOwner, PtrsTrue, PtrsMarked, FloatsMarked, InMemory
  <2>5. ASSUME UNCHANGED vregs
        PROVE  NoOwner' /\ PtrsTrue' /\ PtrsMarked' /\ FloatsMarked'
    BY <2>2, <2>3, <2>5 DEF NoOwner, PtrsTrue, PtrsMarked, FloatsMarked, InMemory
  <2>6. NoOwner' /\ PtrsTrue' /\ PtrsMarked' /\ FloatsMarked'
    BY <1>6, <2>4, <2>5, SortEffect, SwapPermutes
  <2>7. Owners'
    BY <2>1, <2>3, <2>6, OwnersNone
  <2> QED
    BY <2>1, <2>2, <2>3, <2>6, <2>7 DEF RegInv
<1>7. CASE PhysStep
  <2>1. pass = "phys" /\ UNCHANGED <<pass, count, body>> /\ cursor' = cursor + 1
    BY <1>7 DEF PhysStep, In
  <2>2. Live' = Live /\ UNCHANGED <<IsLeaf, FloatOperands>>
    BY <2>1 DEF Live, IsLeaf, FloatOperands
  <2>3. /\ \A i \in Live : i >= cursor => InMemory(i)
        /\ PtrsTrue /\ PtrsMarked /\ FloatsMarked /\ IsLeaf /\ Owners
    BY <2>1 DEF RegInv
  <2>4. \A i \in Live : i \in Nat
    BY DEF Live
  <2>5. CASE UNCHANGED <<vregs, regUsed, nextReg>>
    <3>1. Owners'
      BY <2>1, <2>3, <2>5, OwnersSame
    <3>2. PtrsTrue' /\ PtrsMarked' /\ FloatsMarked'
      BY <2>2, <2>3, <2>5 DEF PtrsTrue, PtrsMarked, FloatsMarked
    <3>3. \A i \in Live : i >= cursor' => InMemory(i)'
      BY <2>1, <2>3, <2>4, <2>5 DEF InMemory, TypeInv
    <3> QED
      BY <2>1, <2>2, <2>3, <3>1, <3>2, <3>3 DEF RegInv
  <2>6. CASE /\ Eligible(vregs[cursor]) /\ RegSet(cursor, nextReg)
             /\ regUsed' = regUsed \union {nextReg} /\ nextReg' = nextReg + 1
    <3>1. cursor \in Live /\ cursor \in Nat /\ Live \subseteq 1 .. MaxRegs
      BY <1>7, PhysEffect, LiveFacts DEF TypeInv
    <3>2. vregs[cursor].name \notin PtrNames \union Args \union FloatOperands
      BY <2>3, <2>6, <3>1 DEF Eligible, PtrsMarked, FloatsMarked
    <3>3. InMemory(cursor)
      BY <2>3, <3>1
    <3>4. Owners' /\ \A j \in Live : j # cursor => InMemory(j)' = InMemory(j)
      BY <2>1, <2>3, <2>6, <3>1, <3>2, <3>3, OwnersReg
    <3>5. \A i \in Live : i >= cursor' => InMemory(i)'
      BY <2>1, <2>3, <2>4, <3>1, <3>4
    <3>6. \A i \in Live : /\ vregs'[i].name = vregs[i].name /\ vregs'[i].ptr = vregs[i].ptr
                          /\ vregs'[i].float = vregs[i].float
      BY <2>6, <3>1 DEF RegSet
    <3>7. PtrsTrue' /\ PtrsMarked' /\ FloatsMarked'
      BY <2>2, <2>3, <3>6 DEF PtrsTrue, PtrsMarked, FloatsMarked
    <3> QED
      BY <2>1, <2>2, <2>3, <3>4, <3>5, <3>7 DEF RegInv
  <2> QED
    BY <1>7, <2>5, <2>6, PhysEffect
<1>8. CASE SlotStep
  <2>1. pass = "slots" /\ UNCHANGED <<pass, count, regUsed, nextReg, body>>
    BY <1>8 DEF SlotStep, In
  <2>2. \A i \in Live : vregs'[i].name = vregs[i].name /\ vregs'[i].reg = vregs[i].reg
    <3>1. OffSet(cursor, -(stackUsed + 8)) \/ UNCHANGED vregs
      BY <1>8, SlotEffect
    <3> QED
      BY <3>1, LiveFacts DEF OffSet
  <2>3. Owners'
    BY <2>1, <2>2, OwnersSame DEF RegInv
  <2> QED
    BY <2>1, <2>3 DEF RegInv
<1>9. CASE ArgStep
  <2>1. pass = "args" /\ UNCHANGED <<pass, regUsed, nextReg, body>>
    BY <1>9 DEF ArgStep, In
  <2>2. CASE UNCHANGED <<vregs, count>>
    BY <2>1, <2>2, OwnersSame DEF RegInv
  <2>3. ASSUME NEW n, NEW off, Added(n, off)
        PROVE  Owners'
    BY <2>1, <2>3, OwnersAdd DEF RegInv
  <2>4. Owners'
    BY <1>9, <2>2, <2>3, ArgEffect DEF RegInv
  <2> QED
    BY <2>1, <2>4 DEF RegInv
<1>10. CASE NextPass
  <2>1. UNCHANGED <<vregs, count, regUsed, nextReg, body>>
    BY <1>10 DEF NextPass
  <2>2. Owners'
    BY <2>1, OwnersSame DEF RegInv
  <2>3. /\ NoOwner' = NoOwner /\ PtrsTrue' = PtrsTrue /\ PtrsMarked' = PtrsMarked
        /\ FloatsMarked' = FloatsMarked /\ IsLeaf' = IsLeaf
    BY <2>1 DEF NoOwner, PtrsTrue, PtrsMarked, FloatsMarked, IsLeaf, Live, InMemory,
                FloatOperands
  <2>4. \A i \in Live : InMemory(i)' = InMemory(i)
    BY <2>1 DEF InMemory
  <2>5. Live' = Live
    BY <2>1 DEF Live
  <2>6. \/ pass = "alloc" /\ pass' = "names"
        \/ pass = "names" /\ pass' = "uses"
        \/ pass = "sort" /\ pass' = "phys"
        \/ pass' \in {"slots", "args"}
    BY <1>10 DEF NextPass, In, Enter
  <2> QED
    BY <2>2, <2>3, <2>4, <2>5, <2>6 DEF RegInv, NoOwner
<1>11. CASE Done
  <2>1. pass' = "idle" /\ UNCHANGED <<vregs, count, regUsed, nextReg, body>>
    BY <1>11 DEF Done, Enter
  <2>2. Owners'
    BY <2>1, OwnersSame DEF RegInv
  <2> QED
    BY <2>1, <2>2 DEF RegInv
<1> QED
  BY <1>0, <1>1, <1>2, <1>3, <1>4, <1>5, <1>6, <1>7, <1>8, <1>9, <1>10, <1>11 DEF Next

LEMMA OwnerWhenDone == RegInv => RegisterOwner
<1> SUFFICES ASSUME RegInv
             PROVE  RegisterOwner
  OBVIOUS
<1>1. regUsed = {vregs[i].reg : i \in {k \in Live : ~InMemory(k)}}
  BY DEF RegInv, Owners, SavedOnes
<1> QED
  BY <1>1 DEF RegInv, Owners, OneOwner, MayOwn, RegisterOwner

(***************************************************************************)
(* How often the variables are used, and what the sort does with it.       *)
(***************************************************************************)
Uncounted == \A i \in Live : vregs[i].uses = 0
CountsTrue == \A i \in Live : vregs[i].uses = Uses(vregs[i].name)

\* The rows of the exchange sort that are done, and the one being worked on.
SortedRows(n) == \A i, k \in Live : i < n /\ i < k => vregs[k].uses <= vregs[i].uses
RowSoFar == \A k \in Live : cursor < k /\ k < swapAt => vregs[k].uses <= vregs[cursor].uses

\* The entries that the loop over the registers has passed.
GivenByUses ==
  /\ \A i \in Live : ~InMemory(i) => i < cursor /\ vregs[i].uses >= 2
  /\ \A i \in Live : i < cursor /\ InMemory(i) => ~Eligible(vregs[i])

BestOwners ==
  \A i, j \in Live :
    /\ ~InMemory(i) /\ InMemory(j) /\ vregs[j].name \in Range(Operands)
    /\ vregs[j].name \notin PtrNames \union Args \union FloatOperands
    => Uses(vregs[j].name) <= Uses(vregs[i].name) \/ vregs[j].float

UsesInv ==
  /\ pass \in {"alloc", "names", "uses"} => Uncounted
  /\ pass \in {"floats", "sort", "phys"} => CountsTrue
  /\ pass = "sort" => SortedRows(cursor) /\ RowSoFar /\ cursor < swapAt
  /\ pass = "phys" => SortedRows(MaxRegs + 1) /\ GivenByUses
  /\ pass \in {"slots", "args", "idle"} /\ IsLeaf => BestOwners

LEMMA SameBody ==
  ASSUME UNCHANGED body
  PROVE  /\ UNCHANGED <<Operands, IsLeaf, FloatOperands>>
         /\ \A n : Uses(n)' = Uses(n)
BY DEF Operands, IsLeaf, FloatOperands, Uses

LEMMA BestSame ==
  ASSUME BestOwners, UNCHANGED <<count, body>>,
         \A i \in Live : /\ vregs'[i].name = vregs[i].name /\ vregs'[i].reg = vregs[i].reg
                         /\ vregs'[i].float = vregs[i].float
  PROVE  BestOwners'
<1>1. Live' = Live /\ \A i \in Live : InMemory(i)' = InMemory(i)
  BY DEF Live, InMemory
<1>2. Operands' = Operands /\ FloatOperands' = FloatOperands
  BY SameBody
<1>3. \A i \in Live : Uses(vregs[i].name)' = Uses(vregs[i].name)
  BY DEF Uses, Operands
<1> QED
  BY <1>1, <1>2, <1>3 DEF BestOwners

LEMMA BestAdd ==
  ASSUME TypeInv, BestOwners, UNCHANGED body, NEW n \in Args, NEW off, Added(n, off)
  PROVE  BestOwners'
<1>0. PICK k : k = count + 1
  OBVIOUS
<1>1. /\ Live' = Live \union {k} /\ k \notin Live
      /\ \A i \in Live : vregs'[i] = vregs[i]
      /\ vregs'[k].reg < 0 /\ vregs'[k].name \in Args
  BY <1>0 DEF Added, NoReg
<1>2. InMemory(k)' /\ \A i \in Live : InMemory(i)' = InMemory(i)
  BY <1>1 DEF InMemory
<1>3. Operands' = Operands /\ FloatOperands' = FloatOperands
  BY SameBody
<1>4. \A m : Uses(m)' = Uses(m)
  BY SameBody
<1> SUFFICES ASSUME NEW i \in Live', NEW j \in Live', ~InMemory(i)', InMemory(j)',
                    vregs'[j].name \in Range(Operands)',
                    vregs'[j].name \notin PtrNames \union Args \union FloatOperands'
             PROVE  Uses(vregs[j].name)' <= Uses(vregs[i].name)' \/ vregs'[j].float
  BY DEF BestOwners
<1>5. i \in Live /\ j \in Live
  BY <1>1, <1>2
<1> QED
  BY <1>1, <1>2, <1>3, <1>4, <1>5 DEF BestOwners

\* One exchange.
LEMMA Exchange ==
  ASSUME TypeInv, SortedRows(cursor), RowSoFar, cursor < swapAt, UNCHANGED count,
         Swapped(cursor, swapAt), vregs[swapAt].uses > vregs[cursor].uses,
         cursor' = cursor, swapAt' = swapAt + 1
  PROVE  SortedRows(cursor)' /\ RowSoFar'
<1> DEFINE u(i) == vregs[i].uses
           w(i) == vregs'[i].uses
<1>1. /\ Live' = Live /\ cursor \in Live /\ swapAt \in Live
      /\ cursor \in Nat /\ swapAt \in Nat
      /\ \A i \in Live : i \in Nat /\ u(i) \in Nat
  BY LiveFacts DEF Live, Swapped, TypeInv, Entries
<1>2. /\ w(cursor) = u(swapAt) /\ w(swapAt) = u(cursor)
      /\ \A i \in Live : i # cursor /\ i # swapAt => w(i) = u(i)
  BY LiveFacts DEF Swapped
<1>3. /\ \A i, k \in Live : i < cursor /\ i < k => u(k) <= u(i)
      /\ \A k \in Live : cursor < k /\ k < swapAt => u(k) <= u(cursor)
      /\ u(swapAt) > u(cursor)
  BY DEF SortedRows, RowSoFar
<1> HIDE DEF u, w
<1>4. \A i, k \in Live : i < cursor /\ i < k => w(k) <= w(i)
  BY <1>1, <1>2, <1>3
<1>5. \A k \in Live : cursor < k /\ k < swapAt + 1 => w(k) <= w(cursor)
  BY <1>1, <1>2, <1>3
<1> QED
  BY <1>1, <1>4, <1>5 DEF SortedRows, RowSoFar, w

\* The end of a row.
LEMMA RowDone ==
  ASSUME TypeInv, SortedRows(cursor), RowSoFar, swapAt > count, UNCHANGED <<vregs, count>>,
         cursor' = cursor + 1, swapAt' = cursor + 2
  PROVE  SortedRows(cursor)' /\ RowSoFar'
<1>1. /\ Live' = Live /\ cursor \in Nat /\ swapAt \in Nat /\ count \in Nat
      /\ \A i \in Live : i \in Nat /\ i <= count
  BY LiveFacts DEF Live, TypeInv
<1>2. \A i, k \in Live : i < cursor + 1 /\ i < k => vregs[k].uses <= vregs[i].uses
  <2> SUFFICES ASSUME NEW i \in Live, NEW k \in Live, i < cursor + 1, i < k
               PROVE  vregs[k].uses <= vregs[i].uses
    OBVIOUS
  <2>1. CASE i < cursor
    BY <2>1 DEF SortedRows
  <2>2. CASE i = cursor
    <3>1. cursor < k /\ k < swapAt
      BY <1>1, <2>2
    <3> QED
      BY <2>2, <3>1 DEF RowSoFar
  <2> QED
    BY <1>1, <2>1, <2>2
<1>3. \A k \in Live : ~(cursor + 1 < k /\ k < cursor + 2)
  BY <1>1
<1> QED
  BY <1>1, <1>2, <1>3 DEF SortedRows, RowSoFar

LEMMA UsesInit == Init => UsesInv
BY DEF Init, UsesInv, BestOwners, Live

\* When the registers are given away, the owners are the most used ones.
LEMMA BestAtEnd ==
  ASSUME TypeInv, RegInv, UsesInv, pass = "phys"
  PROVE  BestOwners
<1>1. /\ PtrsTrue /\ CountsTrue /\ SortedRows(MaxRegs + 1) /\ GivenByUses
      /\ Live \subseteq 1 .. MaxRegs /\ MaxRegs \in Nat /\ cursor \in Nat
  BY LiveFacts DEF RegInv, UsesInv, TypeInv
<1> SUFFICES ASSUME NEW i \in Live, NEW j \in Live, ~InMemory(i), InMemory(j),
                    vregs[j].name \notin PtrNames \union Args \union FloatOperands
             PROVE  Uses(vregs[j].name) <= Uses(vregs[i].name) \/ vregs[j].float
  BY DEF BestOwners
<1>2. i < cursor /\ vregs[i].uses >= 2 /\ i \in Nat /\ j \in Nat /\ i < MaxRegs + 1
  BY <1>1 DEF GivenByUses
<1>3. /\ vregs[i].uses = Uses(vregs[i].name) /\ vregs[j].uses = Uses(vregs[j].name)
      /\ vregs[i].uses \in Nat /\ vregs[j].uses \in Nat
  BY <1>1, LiveFacts DEF CountsTrue, Entries
<1>4. CASE j < cursor
  <2>1. ~Eligible(vregs[j])
    BY <1>1, <1>4 DEF GivenByUses
  <2>2. ~vregs[j].ptr
    BY <1>1 DEF PtrsTrue
  <2>3. vregs[j].float \/ ~(vregs[j].uses >= 2)
    BY <2>1, <2>2 DEF Eligible
  <2> QED
    BY <1>2, <1>3, <2>3
<1>5. CASE j >= cursor
  <2>1. vregs[j].uses <= vregs[i].uses
    BY <1>1, <1>2, <1>5 DEF SortedRows
  <2> QED
    BY <1>3, <2>1
<1> QED
  BY <1>1, <1>2, <1>4, <1>5

LEMMA UsesStep ==
  ASSUME TypeInv, RegInv, UsesInv, [Next]_vars
  PROVE  UsesInv'
<1>0. CASE UNCHANGED vars
  BY <1>0, SameBody, BestSame
     DEF UsesInv, vars, Uncounted, CountsTrue, SortedRows, RowSoFar, GivenByUses, Live, InMemory,
         Eligible
<1>1. CASE GenFunc
  <2>1. Live' = {} /\ pass' = "alloc"
    BY <1>1, GenFuncType DEF GenFunc, Enter
  <2> QED
    BY <2>1 DEF UsesInv, Uncounted
<1>2. CASE AllocStep
  <2>1. pass = "alloc" /\ UNCHANGED pass
    BY <1>2 DEF AllocStep, In
  <2>2. ASSUME UNCHANGED <<vregs, count>> PROVE Uncounted'
    BY <2>1, <2>2 DEF UsesInv, Uncounted, Live
  <2>3. ASSUME NEW n, NEW off, Added(n, off), vregs'[count + 1].uses = 0 PROVE Uncounted'
    BY <2>1, <2>3 DEF UsesInv, Uncounted, Added
  <2>4. Uncounted'
    BY <1>2, <2>2, <2>3, AllocEffect
  <2> QED
    BY <2>1, <2>4 DEF UsesInv
<1>3. CASE NameStep
  <2>1. pass = "names" /\ UNCHANGED pass
    BY <1>3 DEF NameStep, In
  <2>2. ASSUME UNCHANGED <<vregs, count>> PROVE Uncounted'
    BY <2>1, <2>2 DEF UsesInv, Uncounted, Live
  <2>3. ASSUME NEW n, NEW off, Added(n, off), vregs'[count + 1].uses = 0 PROVE Uncounted'
    BY <2>1, <2>3 DEF UsesInv, Uncounted, Added
  <2>4. Uncounted'
    BY <1>3, <2>2, <2>3, NameEffect
  <2> QED
    BY <2>1, <2>4 DEF UsesInv
<1>4. CASE CountUses
  <2>1. /\ pass = "uses" /\ pass' = "floats" /\ UNCHANGED <<count, body>> /\ Started
    BY <1>4 DEF CountUses, In, Enter, Started
  <2>2. Counted /\ Live' = Live /\ Uncounted /\ \A n : Uses(n)' = Uses(n) /\ Uses(n) \in Nat
    BY <1>4, <2>1, CountEffect, SameBody, UsesNat DEF Live, UsesInv, TypeInv
  <2>3. CountsTrue'
    <3> SUFFICES ASSUME NEW i \in Live
                 PROVE  vregs'[i].uses = Uses(vregs[i].name)'
      BY <2>2 DEF CountsTrue
    <3> DEFINE u == Uses(vregs[i].name)
    <3>1. vregs'[i].uses = 0 + Uses(vregs[i].name) /\ vregs'[i].name = vregs[i].name
      BY <2>2 DEF Counted, Uncounted
    <3>2. Uses(vregs[i].name) \in Nat
      BY <2>2
    <3>3. Uses(vregs[i].name)' = Uses(vregs[i].name)
      BY <2>1, <3>1 DEF Uses, Operands
    <3> QED
      BY <3>1, <3>2, <3>3
  <2> QED
    BY <2>1, <2>3 DEF UsesInv
<1>5. CASE MarkFloats
  <2>1. /\ pass = "floats" /\ pass' = (IF IsLeaf THEN "sort" ELSE "slots")
        /\ UNCHANGED <<count, body>> /\ cursor' = 1 /\ swapAt' = 2
    BY <1>5 DEF MarkFloats, In, Enter
  <2>2. Marked /\ Live' = Live /\ CountsTrue /\ UNCHANGED IsLeaf /\ \A n : Uses(n)' = Uses(n)
    BY <1>5, <2>1, MarkEffect, SameBody DEF Live, UsesInv
  <2>3. CountsTrue'
    BY <2>2 DEF CountsTrue, Marked
  <2>4. \A i \in Live : i \in Nat /\ ~(i < 1)
    BY DEF Live
  <2>5. \A i \in Live : ~(1 < i /\ i < 2)
    BY DEF Live
  <2>6. SortedRows(cursor)' /\ RowSoFar'
    BY <2>1, <2>2, <2>4, <2>5 DEF SortedRows, RowSoFar
  <2> QED
    BY <2>1, <2>2, <2>3, <2>6 DEF UsesInv
<1>6. CASE SortStep
  <2>1. pass = "sort" /\ UNCHANGED <<pass, count, body>>
    BY <1>6 DEF SortStep, In
  <2>2. /\ CountsTrue /\ SortedRows(cursor) /\ RowSoFar /\ cursor < swapAt
        /\ Live' = Live /\ \A n : Uses(n)' = Uses(n)
    BY <2>1, SameBody DEF UsesInv, Live
  <2>n. cursor \in Nat /\ swapAt \in Nat
    BY DEF TypeInv
  <2>3. ASSUME NEW p, Permuted(p) PROVE CountsTrue'
    BY <2>2, <2>3 DEF CountsTrue, Permuted
  <2>4. ASSUME UNCHANGED vregs PROVE CountsTrue'
    BY <2>2, <2>4 DEF CountsTrue
  <2>5. CASE UNCHANGED vregs /\ swapAt > count /\ cursor' = cursor + 1 /\ swapAt' = cursor + 2
    BY <2>1, <2>2, <2>n, <2>4, <2>5, RowDone DEF UsesInv
  <2>6. CASE /\ cursor' = cursor /\ swapAt' = swapAt + 1 /\ Swapped(cursor, swapAt)
             /\ vregs[swapAt].uses > vregs[cursor].uses
    <3>1. SortedRows(cursor)' /\ RowSoFar'
      BY <2>1, <2>2, <2>6, Exchange
    <3>2. CountsTrue'
      BY <2>3, <2>6, SwapPermutes
    <3> QED
      BY <2>1, <2>2, <2>n, <2>6, <3>1, <3>2 DEF UsesInv
  <2>7. CASE /\ swapAt \in Live /\ cursor \in Live /\ cursor' = cursor /\ swapAt' = swapAt + 1
             /\ UNCHANGED vregs /\ ~(vregs[swapAt].uses > vregs[cursor].uses)
    <3>1. vregs[swapAt].uses <= vregs[cursor].uses
      BY <2>7, LiveFacts DEF Entries
    <3>2. \A k \in Live : k \in Nat
      BY DEF Live
    <3>3. \A k \in Live : cursor < k /\ k < swapAt + 1 => vregs[k].uses <= vregs[cursor].uses
      BY <2>2, <2>n, <3>1, <3>2 DEF RowSoFar
    <3>4. SortedRows(cursor)' /\ RowSoFar'
      BY <2>2, <2>7, <3>3 DEF SortedRows, RowSoFar
    <3> QED
      BY <2>1, <2>2, <2>n, <2>4, <2>7, <3>4 DEF UsesInv
  <2> QED
    BY <1>6, <2>5, <2>6, <2>7, SortEffect
<1>7. CASE PhysStep
  <2>1. pass = "phys" /\ UNCHANGED <<pass, count, body>> /\ cursor' = cursor + 1
    BY <1>7 DEF PhysStep, In
  <2>2. /\ CountsTrue /\ SortedRows(MaxRegs + 1) /\ GivenByUses
        /\ Live' = Live /\ \A n : Uses(n)' = Uses(n)
    BY <2>1, SameBody DEF UsesInv, Live
  <2>3. /\ cursor \in Live /\ Live \subseteq 1 .. MaxRegs /\ cursor \in Nat
        /\ \A i \in Live : i \in Nat
    BY <1>7, PhysEffect, LiveFacts DEF TypeInv, Live
  <2>4. CASE ~Eligible(vregs[cursor]) /\ UNCHANGED vregs
    <3>1. CountsTrue' /\ SortedRows(MaxRegs + 1)'
      BY <2>2, <2>4 DEF CountsTrue, SortedRows
    <3>2. \A i \in Live : ~InMemory(i)' => i < cursor + 1 /\ vregs'[i].uses >= 2
      BY <2>2, <2>3, <2>4 DEF GivenByUses, InMemory
    <3>3. \A i \in Live : i < cursor + 1 /\ InMemory(i)' => ~Eligible(vregs[i])
      <4> SUFFICES ASSUME NEW i \in Live, i < cursor + 1, InMemory(i)'
                   PROVE  ~Eligible(vregs[i])
        OBVIOUS
      <4>1. CASE i = cursor
        BY <2>4, <4>1
      <4>2. CASE i # cursor
        <5>1. i < cursor
          BY <2>3, <4>2
        <5> QED
          BY <2>2, <2>4, <5>1 DEF GivenByUses, InMemory
      <4> QED
        BY <4>1, <4>2
    <3>4. GivenByUses'
      BY <2>1, <2>2, <2>4, <3>2, <3>3 DEF GivenByUses, Eligible
    <3> QED
      BY <2>1, <3>1, <3>4 DEF UsesInv
  <2>5. CASE Eligible(vregs[cursor]) /\ RegSet(cursor, nextReg)
    <3>1. /\ \A i \in Live : /\ vregs'[i].name = vregs[i].name /\ vregs'[i].uses = vregs[i].uses
                             /\ vregs'[i].ptr = vregs[i].ptr /\ vregs'[i].float = vregs[i].float
          /\ \A i \in Live : i # cursor => vregs'[i] = vregs[i]
          /\ vregs'[cursor].reg = nextReg /\ nextReg \in Nat
      BY <2>3, <2>5 DEF RegSet, TypeInv
    <3>2. CountsTrue'
      BY <2>2, <3>1 DEF CountsTrue
    <3>3. SortedRows(MaxRegs + 1)'
      BY <2>2, <3>1 DEF SortedRows
    <3>5. vregs[cursor].uses >= 2
      BY <2>5 DEF Eligible
    <3>6. \A i \in Live : ~InMemory(i)' => i < cursor + 1 /\ vregs'[i].uses >= 2
      BY <2>2, <2>3, <3>1, <3>5 DEF GivenByUses, InMemory
    <3>7. \A i \in Live : i < cursor + 1 /\ InMemory(i)' => ~Eligible(vregs'[i])
      <4> SUFFICES ASSUME NEW i \in Live, i < cursor + 1, InMemory(i)'
                   PROVE  ~Eligible(vregs'[i])
        OBVIOUS
      <4>1. i # cursor
        BY <3>1 DEF InMemory
      <4>2. i < cursor
        BY <2>3, <4>1
      <4> QED
        BY <2>2, <3>1, <4>1, <4>2 DEF GivenByUses, InMemory
    <3>8. GivenByUses'
      BY <2>1, <2>2, <3>6, <3>7 DEF GivenByUses, Eligible
    <3> QED
      BY <2>1, <3>2, <3>3, <3>8 DEF UsesInv
  <2> QED
    BY <1>7, <2>4, <2>5, PhysEffect
<1>8. CASE SlotStep
  <2>1. pass = "slots" /\ UNCHANGED <<pass, count, body>>
    BY <1>8 DEF SlotStep, In
  <2>2. \A i \in Live : /\ vregs'[i].name = vregs[i].name /\ vregs'[i].reg = vregs[i].reg
                        /\ vregs'[i].float = vregs[i].float
    <3>1. OffSet(cursor, -(stackUsed + 8)) \/ UNCHANGED vregs
      BY <1>8, SlotEffect
    <3> QED
      BY <3>1, LiveFacts DEF OffSet
  <2>3. IsLeaf' => BestOwners'
    BY <2>1, <2>2, SameBody, BestSame DEF UsesInv
  <2> QED
    BY <2>1, <2>3 DEF UsesInv
<1>9. CASE ArgStep
  <2>0. PICK n : n = ArgNames[cursor]
    OBVIOUS
  <2>1. pass = "args" /\ UNCHANGED <<pass, body>> /\ UNCHANGED IsLeaf
    BY <1>9, SameBody DEF ArgStep, In
  <2>2. n \in Args
    <3>1. cursor \in DOMAIN ArgNames
      BY <1>9, RegallocAssumption DEF ArgStep, TypeInv
    <3> QED
      BY <2>0, <3>1 DEF Args, Range
  <2>3. ASSUME IsLeaf' PROVE BestOwners'
    <3>1. BestOwners
      BY <2>1, <2>3 DEF UsesInv
    <3>2. CASE UNCHANGED <<vregs, count>>
      BY <2>1, <3>1, <3>2, BestSame
    <3>3. CASE Added(n, -(stackUsed + 8))
      BY <2>1, <2>2, <3>1, <3>3, BestAdd
    <3> QED
      BY <1>9, <2>0, <3>2, <3>3, ArgEffect
  <2> QED
    BY <2>1, <2>3 DEF UsesInv
<1>10. CASE NextPass
  <2>1. UNCHANGED <<vregs, count, body, swapAt>>
    BY <1>10 DEF NextPass
  <2>2. Live' = Live /\ UNCHANGED IsLeaf /\ \A n : Uses(n)' = Uses(n)
    BY <2>1, SameBody DEF Live
  <2>3. CASE (pass = "alloc" /\ pass' = "names") \/ (pass = "names" /\ pass' = "uses")
    BY <2>1, <2>2, <2>3 DEF UsesInv, Uncounted
  <2>4. CASE pass = "sort" /\ cursor >= count /\ pass' = "phys" /\ cursor' = 1
    <3>1. /\ CountsTrue /\ SortedRows(cursor) /\ NoOwner /\ count \in Nat /\ cursor \in Nat
          /\ \A i \in Live : i \in Nat /\ 1 <= i /\ i <= count
      BY <2>4, LiveFacts DEF UsesInv, RegInv, TypeInv, Live
    <3>2. CountsTrue'
      BY <2>1, <2>2, <3>1 DEF CountsTrue
    <3>3. \A i, k \in Live : i < k => i < cursor
      BY <2>4, <3>1
    <3>4. SortedRows(MaxRegs + 1)'
      BY <2>1, <2>2, <3>1, <3>3 DEF SortedRows
    <3>5. GivenByUses'
      BY <2>1, <2>2, <2>4, <3>1 DEF GivenByUses, NoOwner, InMemory
    <3> QED
      BY <2>4, <3>2, <3>4, <3>5 DEF UsesInv
  <2>5. CASE pass = "phys" /\ pass' = "slots"
    <3>1. BestOwners'
      BY <2>1, <2>5, BestAtEnd, BestSame
    <3> QED
      BY <2>5, <3>1 DEF UsesInv
  <2>6. CASE pass = "slots" /\ pass' = "args"
    <3>1. IsLeaf => BestOwners'
      BY <2>1, <2>6, BestSame DEF UsesInv
    <3> QED
      BY <2>2, <2>6, <3>1 DEF UsesInv
  <2> QED
    BY <1>10, <2>3, <2>4, <2>5, <2>6 DEF NextPass, In, Enter
<1>11. CASE Done
  <2>1. pass = "args" /\ pass' = "idle" /\ UNCHANGED <<vregs, count, body>>
    BY <1>11 DEF Done, In, Enter
  <2>2. IsLeaf' => BestOwners'
    BY <2>1, BestSame, SameBody DEF UsesInv
  <2> QED
    BY <2>1, <2>2 DEF UsesInv
<1> QED
  BY <1>0, <1>1, <1>2, <1>3, <1>4, <1>5, <1>6, <1>7, <1>8, <1>9, <1>10, <1>11 DEF Next

\* A physical register has one owner, in a leaf function, which is no 64-bit pointer, no
\* argument and no operand of an f32 operation, and it is saved exactly when it is used; it
\* goes to the variable that the function uses most of those that may have it, float marks
\* of earlier functions aside (init_regalloc, count_uses, is_leaf).
THEOREM RegisterGoesRightCorrect == Spec => []RegisterGoesRight
<1>1. Init => TypeInv /\ RegInv /\ UsesInv
  BY TypeInit, RegInit, UsesInit
<1>2. (TypeInv /\ RegInv /\ UsesInv) /\ [Next]_vars => (TypeInv /\ RegInv /\ UsesInv)'
  BY TypeStep, RegStep, UsesStep
<1>3. UsesInv => MostUsedFirst
  BY DEF UsesInv, MostUsedFirst, BestOwners, Allocated, In
<1>4. TypeInv /\ RegInv /\ UsesInv => RegisterGoesRight
  BY <1>3, OwnerWhenDone DEF RegisterGoesRight
<1> QED
  BY <1>1, <1>2, <1>4, PTL DEF Spec

(***************************************************************************)
(* The memory of the variables.                                            *)
(***************************************************************************)
First == IF pass = "idle" THEN funcs <= 1 ELSE funcs = 0   \* the first function of the file

AllocName(n) == \E m \in DOMAIN body : IsAlloc(m) /\ body[m].ops[1] = n

\* An entry whose slot was given to it in this function.
Placed(i) == AllocName(vregs[i].name) \/ (First /\ vregs[i].off # 0)

End(i) == vregs[i].off + SizeOf(vregs[i].name)

InFrame == \A i \in Live : Placed(i) =>
             vregs[i].off < 0 /\ -stackUsed <= vregs[i].off /\ End(i) <= 0

Apart == \A i, j \in Live : i # j /\ Placed(i) /\ Placed(j) =>
           End(i) <= vregs[j].off \/ End(j) <= vregs[i].off

NothingBeyond == \A i \in (1 .. MaxRegs) \ Live : vregs[i].off = 0

GivenSlots == \A i \in Live :
  InMemory(i) /\ (pass \in {"args", "idle"} \/ (pass = "slots" /\ i < cursor)) => vregs[i].off # 0

SlotInv ==
  /\ InFrame
  /\ Apart
  /\ funcs = 0 => NothingBeyond
  /\ First => GivenSlots

\* A set of numbers has a least one.
LEMMA LeastNumber ==
  ASSUME NEW T \in SUBSET Nat, T # {}
  PROVE  \E m \in T : \A k \in T : m <= k
<1> DEFINE R == OpToRel(<, Nat)
<1>1. IsWellFoundedOn(R, Nat)
  BY NatLessThanWellFounded
<1>2. PICK m \in T : \A k \in T : ~ (<<k, m>> \in R)
  <2> HIDE DEF R
  <2> QED BY <1>1, WFMin
<1>3. \A k \in T : ~(k < m)
  BY <1>2 DEF OpToRel
<1> QED
  BY <1>3

\* The size that an alloc gives to a name, 8 without one.
LEMMA SizeFacts ==
  ASSUME TypeInv, Started, NEW n
  PROVE  /\ SizeOf(n) \in Int
         /\ ~AllocName(n) => SizeOf(n) = 8
         /\ \A m \in DOMAIN body :
              /\ IsAlloc(m) /\ body[m].ops[1] = n
              /\ \A l \in DOMAIN body : l < m => ~(IsAlloc(l) /\ body[l].ops[1] = n)
              => SizeOf(n) = body[m].size
<1> DEFINE S == {j \in DOMAIN body : body[j].k = "alloc" /\ body[j].ops[1] = n}
<1>1. S \subseteq Nat /\ \A j \in S : body[j].size \in Int
  <2>1. \A j \in DOMAIN body : j \in Nat /\ body[j] \in Instructions
    BY DEF TypeInv, BodyTyped
  <2>2. \A x \in Instructions : x.size \in Int
    BY DEF Instructions
  <2> QED
    BY <2>1, <2>2
<1>2. S = {} <=> ~AllocName(n)
  BY DEF AllocName, IsAlloc
<1>3. S # {} => SizeOf(n) = body[Min(S)].size
  BY DEF SizeOf
<1>4. S = {} => SizeOf(n) = 8
  BY DEF SizeOf
<1>5. S # {} => Min(S) \in S
  <2>1. S # {} => \E x \in S : \A y \in S : x <= y
    <3> HIDE DEF S
    <3> QED
      BY <1>1, LeastNumber
  <2> QED
    BY <2>1 DEF Min
<1>6. ASSUME NEW m \in S, \A l \in DOMAIN body : l < m => l \notin S
      PROVE  Min(S) = m
  <2>1. \A y \in S : y \in DOMAIN body
    OBVIOUS
  <2> HIDE DEF S
  <2>2. \A y \in S : m <= y
    BY <1>1, <1>6, <2>1
  <2>3. \A x \in S : (\A y \in S : x <= y) => x = m
    BY <1>1, <2>2
  <2> QED
    BY <2>2, <2>3 DEF Min
<1>7. SizeOf(n) \in Int
  BY <1>1, <1>3, <1>4, <1>5
<1> QED
  BY <1>2, <1>3, <1>4, <1>6, <1>7 DEF IsAlloc

\* What a step that keeps the body, and the function, does not change.
LEMMA SameSizes ==
  ASSUME UNCHANGED body
  PROVE  /\ \A n : SizeOf(n)' = SizeOf(n)
         /\ \A n : AllocName(n)' = AllocName(n)
BY DEF SizeOf, AllocName, IsAlloc

LEMMA EndFacts ==
  ASSUME TypeInv, Started
  PROVE  \A i \in Live : /\ vregs[i].off \in Int /\ End(i) \in Int /\ i \in Nat
                         /\ End(i) = vregs[i].off + SizeOf(vregs[i].name)
<1>1. \A i \in Live : vregs[i].off \in Int /\ i \in Nat
  BY LiveFacts DEF Entries
<1>2. \A i \in Live : SizeOf(vregs[i].name) \in Int
  BY SizeFacts
<1> QED
  BY <1>1, <1>2 DEF End

\* The slots and the frame.
Regions == InFrame /\ Apart

\* The entries keep what this is about, in the order p.
LEMMA RegionsMoved ==
  ASSUME Regions, UNCHANGED <<count, stackUsed, body>>, First' => First,
         NEW p \in [Live -> Live], \A i, j \in Live : p[i] = p[j] => i = j,
         \A i \in Live : /\ vregs'[i].name = vregs[p[i]].name
                         /\ vregs'[i].off = vregs[p[i]].off
  PROVE  Regions'
<1>1. Live' = Live
  BY DEF Live
<1>2. \A i \in Live : Placed(i)' => Placed(p[i])
  BY SameSizes DEF Placed
<1>3. \A i \in Live : End(i)' = End(p[i])
  BY SameSizes DEF End
<1>4. InFrame'
  BY <1>1, <1>2, <1>3 DEF Regions, InFrame
<1>5. Apart'
  <2> SUFFICES ASSUME NEW i \in Live, NEW j \in Live, i # j, Placed(i)', Placed(j)'
               PROVE  End(i)' <= vregs'[j].off \/ End(j)' <= vregs'[i].off
    BY <1>1 DEF Apart
  <2>1. /\ p[i] \in Live /\ p[j] \in Live /\ p[i] # p[j] /\ Placed(p[i]) /\ Placed(p[j])
    BY <1>2
  <2>2. End(p[i]) <= vregs[p[j]].off \/ End(p[j]) <= vregs[p[i]].off
    BY <2>1 DEF Regions, Apart
  <2> QED
    BY <1>3, <2>2
<1> QED
  BY <1>4, <1>5 DEF Regions

LEMMA RegionsSame ==
  ASSUME Regions, UNCHANGED <<count, stackUsed, body>>, First' => First,
         \A i \in Live : vregs'[i].name = vregs[i].name /\ vregs'[i].off = vregs[i].off
  PROVE  Regions'
<1> DEFINE p == [i \in Live |-> i]
<1>1. /\ p \in [Live -> Live] /\ \A i, j \in Live : p[i] = p[j] => i = j
      /\ \A i \in Live : /\ vregs'[i].name = vregs[p[i]].name
                         /\ vregs'[i].off = vregs[p[i]].off
  OBVIOUS
<1> HIDE DEF p
<1> QED
  BY <1>1, RegionsMoved

\* Below the frame there is room for one more.
LEMMA RegionsGrow ==
  ASSUME TypeInv, Started, Regions, UNCHANGED <<body, pass, funcs>>,
         NEW k, NEW size \in Nat, size > 0,
         Live' = Live \union {k}, k \notin Live \/ ~Placed(k),
         \A i \in Live : i # k => vregs'[i] = vregs[i],
         vregs'[k].off = -(stackUsed + size), stackUsed' = stackUsed + size,
         SizeOf(vregs'[k].name) \in Int, SizeOf(vregs'[k].name) <= size
  PROVE  Regions'
<1>1. /\ \A n : SizeOf(n)' = SizeOf(n)
      /\ \A n : AllocName(n)' = AllocName(n)
      /\ First' = First
  BY SameSizes DEF First
<1>2. \A i \in Live : i # k => (Placed(i)' => Placed(i)) /\ End(i)' = End(i)
  BY <1>1 DEF Placed, End
<1>3. stackUsed \in Nat /\ \A i \in Live : vregs[i].off \in Int /\ End(i) \in Int
  BY EndFacts DEF TypeInv
<1>4. /\ End(k)' = -(stackUsed + size) + SizeOf(vregs'[k].name)
      /\ End(k)' <= -stackUsed /\ End(k)' \in Int /\ End(k)' <= 0
  <2>1. End(k)' = vregs'[k].off + SizeOf(vregs[k].name)'
    BY DEF End
  <2>2. SizeOf(vregs[k].name)' = SizeOf(vregs'[k].name)
    BY <1>1
  <2> QED
    BY <1>3, <2>1, <2>2
<1>5. InFrame'
  <2> SUFFICES ASSUME NEW i \in Live', Placed(i)'
               PROVE  vregs'[i].off < 0 /\ -stackUsed' <= vregs'[i].off /\ End(i)' <= 0
    BY DEF InFrame
  <2>1. CASE i = k
    BY <1>3, <1>4, <2>1
  <2>2. CASE i # k
    <3>1. i \in Live /\ Placed(i) /\ vregs'[i] = vregs[i] /\ End(i)' = End(i)
      BY <1>2, <2>2
    <3>2. vregs[i].off < 0 /\ -stackUsed <= vregs[i].off /\ End(i) <= 0
      BY <3>1 DEF Regions, InFrame
    <3> QED
      BY <1>3, <3>1, <3>2
  <2> QED
    BY <2>1, <2>2
<1>6. \A i \in Live : i # k /\ Placed(i)' => End(k)' <= vregs'[i].off
  <2> SUFFICES ASSUME NEW i \in Live, i # k, Placed(i)'
               PROVE  End(k)' <= vregs'[i].off
    OBVIOUS
  <2>1. -stackUsed <= vregs[i].off /\ vregs'[i] = vregs[i] /\ vregs[i].off \in Int
    BY <1>2, <1>3 DEF Regions, InFrame
  <2> QED
    BY <1>3, <1>4, <2>1
<1>7. Apart'
  <2> SUFFICES ASSUME NEW i \in Live', NEW j \in Live', i # j, Placed(i)', Placed(j)'
               PROVE  End(i)' <= vregs'[j].off \/ End(j)' <= vregs'[i].off
    BY DEF Apart
  <2>1. CASE i = k
    BY <1>6, <2>1
  <2>2. CASE j = k
    BY <1>6, <2>2
  <2>3. CASE i # k /\ j # k
    <3>1. /\ i \in Live /\ Placed(i) /\ vregs'[i] = vregs[i] /\ End(i)' = End(i)
          /\ j \in Live /\ Placed(j) /\ vregs'[j] = vregs[j] /\ End(j)' = End(j)
      BY <1>2, <2>3
    <3> QED
      BY <3>1 DEF Regions, Apart
  <2> QED
    BY <2>1, <2>2, <2>3
<1> QED
  BY <1>5, <1>7 DEF Regions

\* An entry that has no slot yet is added.
LEMMA RegionsAdd ==
  ASSUME TypeInv, Regions, UNCHANGED <<body, pass, funcs, stackUsed>>,
         NEW n, NEW off, Added(n, off), ~AllocName(n), First => off = 0
  PROVE  Regions'
<1>0. PICK k : k = count + 1
  OBVIOUS
<1>1. /\ Live' = Live \union {k}
      /\ \A i \in Live : vregs'[i] = vregs[i]
      /\ vregs'[k].off = off /\ vregs'[k].name = n
  BY <1>0 DEF Added
<1>2. First' = First
  BY DEF First
<1>3. ~Placed(k)'
  BY <1>1, <1>2, SameSizes DEF Placed
<1>4. \A i \in Live : (Placed(i)' => Placed(i)) /\ End(i)' = End(i)
  BY <1>1, <1>2, SameSizes DEF Placed, End
<1>5. InFrame'
  BY <1>1, <1>3, <1>4 DEF Regions, InFrame
<1>6. Apart'
  BY <1>1, <1>3, <1>4 DEF Regions, Apart
<1> QED
  BY <1>5, <1>6 DEF Regions

LEMMA SlotInit == Init => SlotInv
<1> SUFFICES ASSUME Init
             PROVE  SlotInv
  OBVIOUS
<1>1. Live = {}
  BY DEF Init, Live
<1>2. \A i \in 1 .. MaxRegs : vregs[i].off = 0
  BY DEF Init, Zeroed
<1> QED
  BY <1>1, <1>2 DEF SlotInv, InFrame, Apart, NothingBeyond, GivenSlots

\* The slots of the entries beyond the table, when it keeps its size or grows.
LEMMA BeyondKept ==
  ASSUME NothingBeyond, Live \subseteq Live',
         \A i \in (1 .. MaxRegs) \ Live' : vregs'[i] = vregs[i]
  PROVE  NothingBeyond'
BY DEF NothingBeyond

LEMMA SlotsStep ==
  ASSUME TypeInv, NamesInv, SlotInv, [Next]_vars
  PROVE  SlotInv'
<1>r. Regions
  BY DEF SlotInv, Regions
<1>n. stackUsed \in Nat /\ count \in Nat /\ funcs \in Nat
  BY LiveFacts DEF TypeInv
<1>0. CASE UNCHANGED vars
  <2>1. Regions'
    BY <1>r, <1>0, RegionsSame DEF vars, First
  <2>2. NothingBeyond' = NothingBeyond /\ GivenSlots' = GivenSlots /\ First' = First
    BY <1>0 DEF vars, NothingBeyond, GivenSlots, First, Live, InMemory
  <2> QED
    BY <1>0, <2>1, <2>2 DEF vars, Regions, SlotInv
<1>1. CASE GenFunc
  <2>1. /\ Live' = {} /\ pass' = "alloc" /\ pass = "idle" /\ UNCHANGED <<vregs, funcs>>
    BY <1>1, GenFuncType DEF GenFunc, Enter, In
  <2>2. ASSUME funcs = 0 PROVE \A i \in 1 .. MaxRegs : vregs[i].off = 0
    <3>1. Live = {}
      BY <2>1, <2>2 DEF TypeInv, Started, Live
    <3> QED
      BY <2>2, <3>1 DEF SlotInv, NothingBeyond
  <2> QED
    BY <2>1, <2>2 DEF SlotInv, InFrame, Apart, NothingBeyond, GivenSlots
<1>2. CASE AllocStep
  <2>0. PICK ins, dst, size : ins = body[cursor] /\ dst = ins.ops[1] /\ size = AllocSize(ins.size)
    OBVIOUS
  <2>1. /\ pass = "alloc" /\ UNCHANGED <<pass, funcs, body>> /\ Started /\ First' = First
        /\ (First <=> funcs = 0)
    BY <1>2 DEF AllocStep, In, Started, First
  <2>2. GivenSlots'
    BY <2>1 DEF GivenSlots
  <2>3. CASE UNCHANGED <<vregs, count, stackUsed>>
    <3>1. Regions'
      BY <1>r, <2>1, <2>3, RegionsSame
    <3>2. NothingBeyond' = NothingBeyond
      BY <2>3 DEF NothingBeyond, Live
    <3> QED
      BY <2>1, <2>2, <3>1, <3>2 DEF Regions, SlotInv
  <2>4. CASE /\ ins.k = "alloc" /\ Added(dst, -(stackUsed + size))
             /\ stackUsed' = stackUsed + size /\ size \in Nat /\ size >= 8 /\ size >= ins.size
             /\ cursor \in DOMAIN body
    <3>0. PICK k : k = count + 1
      OBVIOUS
    <3>1. /\ Live' = Live \union {k} /\ k \notin Live /\ ~Known(dst)
          /\ \A i \in Live : vregs'[i] = vregs[i]
          /\ vregs'[k].off = -(stackUsed + size) /\ vregs'[k].name = dst
          /\ \A i \in 1 .. MaxRegs : i # k => vregs'[i] = vregs[i]
      BY <2>4, <3>0 DEF Added
    <3>2. SizeOf(dst) = ins.size
      <4>1. IsAlloc(cursor) /\ body[cursor].ops[1] = dst
        BY <2>0, <2>4 DEF IsAlloc
      <4>2. \A l \in DOMAIN body : l < cursor => ~(IsAlloc(l) /\ body[l].ops[1] = dst)
        BY <2>1, <3>1 DEF NamesInv, AllocsIn, SeenIns
      <4> QED
        BY <2>0, <2>1, <2>4, <4>1, <4>2, SizeFacts
    <3>3. SizeOf(dst) \in Int /\ SizeOf(dst) <= size
      BY <2>1, <2>4, <3>2, SizeFacts
    <3>4. Regions'
      BY <1>r, <2>1, <2>4, <3>1, <3>3, RegionsGrow
    <3>5. NothingBeyond => NothingBeyond'
      BY <3>1, BeyondKept
    <3> QED
      BY <2>1, <2>2, <3>4, <3>5 DEF Regions, SlotInv
  <2> QED
    BY <1>2, <2>0, <2>3, <2>4, AllocEffect
<1>3. CASE NameStep
  <2>0. PICK n : n = Operands[cursor]
    OBVIOUS
  <2>1. /\ pass = "names" /\ UNCHANGED <<pass, funcs, body, stackUsed>> /\ Started
        /\ First' = First /\ (First <=> funcs = 0)
    BY <1>3 DEF NameStep, In, Started, First
  <2>2. GivenSlots'
    BY <2>1 DEF GivenSlots
  <2>3. CASE UNCHANGED <<vregs, count>>
    <3>1. Regions'
      BY <1>r, <2>1, <2>3, RegionsSame
    <3>2. NothingBeyond' = NothingBeyond
      BY <2>3 DEF NothingBeyond, Live
    <3> QED
      BY <2>1, <2>2, <3>1, <3>2 DEF Regions, SlotInv
  <2>4. CASE Added(n, vregs[count + 1].off)
    <3>1. /\ Live' = Live \union {count + 1} /\ count + 1 \notin Live /\ ~Known(n)
          /\ count + 1 \in 1 .. MaxRegs
          /\ \A i \in 1 .. MaxRegs : i # count + 1 => vregs'[i] = vregs[i]
      BY <2>4 DEF Added
    <3>2. ~AllocName(n)
      BY <2>1, <3>1 DEF NamesInv, AllocsIn, SeenIns, AllocName
    <3>3. First => vregs[count + 1].off = 0
      BY <2>1, <3>1 DEF SlotInv, NothingBeyond
    <3>4. Regions'
      BY <1>r, <2>1, <2>4, <3>2, <3>3, RegionsAdd
    <3>5. NothingBeyond => NothingBeyond'
      BY <3>1, BeyondKept
    <3> QED
      BY <2>1, <2>2, <3>4, <3>5 DEF Regions, SlotInv
  <2> QED
    BY <1>3, <2>0, <2>3, <2>4, NameEffect
<1>4. CASE CountUses
  <2>1. /\ pass = "uses" /\ pass' = "floats" /\ UNCHANGED <<count, stackUsed, funcs, body>>
    BY <1>4 DEF CountUses, In, Enter
  <2>2. Counted /\ Live' = Live /\ First' = First
    BY <1>4, <2>1, CountEffect DEF Live, First
  <2>3. Regions'
    BY <1>r, <2>1, <2>2, RegionsSame DEF Counted
  <2>4. NothingBeyond => NothingBeyond'
    BY <2>2, BeyondKept DEF Counted
  <2>5. GivenSlots'
    BY <2>1 DEF GivenSlots
  <2> QED
    BY <2>1, <2>2, <2>3, <2>4, <2>5 DEF Regions, SlotInv
<1>5. CASE MarkFloats
  <2>1. /\ pass = "floats" /\ pass' \in {"sort", "slots"} /\ cursor' = 1
        /\ UNCHANGED <<count, stackUsed, funcs, body>>
    BY <1>5 DEF MarkFloats, In, Enter
  <2>2. Marked /\ Live' = Live /\ First' = First
    BY <1>5, <2>1, MarkEffect DEF Live, First
  <2>3. Regions'
    BY <1>r, <2>1, <2>2, RegionsSame DEF Marked
  <2>4. NothingBeyond => NothingBeyond'
    BY <2>2, BeyondKept DEF Marked
  <2>5. GivenSlots'
    BY <2>1 DEF GivenSlots, Live
  <2> QED
    BY <2>1, <2>2, <2>3, <2>4, <2>5 DEF Regions, SlotInv
<1>6. CASE SortStep
  <2>1. pass = "sort" /\ UNCHANGED <<pass, count, stackUsed, funcs, body>>
    BY <1>6 DEF SortStep, In
  <2>2. Live' = Live /\ First' = First
    BY <2>1 DEF Live, First
  <2>3. GivenSlots'
    BY <2>1 DEF GivenSlots
  <2>4. CASE UNCHANGED vregs
    <3>1. Regions'
      BY <1>r, <2>1, <2>2, <2>4, RegionsSame
    <3>2. NothingBeyond' = NothingBeyond
      BY <2>2, <2>4 DEF NothingBeyond
    <3> QED
      BY <2>1, <2>2, <2>3, <3>1, <3>2 DEF Regions, SlotInv
  <2>5. ASSUME NEW p, Permuted(p)
        PROVE  Regions' /\ (NothingBeyond => NothingBeyond')
    <3>1. Regions'
      BY <1>r, <2>1, <2>2, <2>5, RegionsMoved DEF Permuted
    <3>2. NothingBeyond => NothingBeyond'
      BY <2>2, <2>5, BeyondKept DEF Permuted
    <3> QED
      BY <3>1, <3>2
  <2>6. CASE Swapped(cursor, swapAt)
    <3>1. Regions' /\ (NothingBeyond => NothingBeyond')
      BY <2>5, <2>6, SwapPermutes
    <3> QED
      BY <2>1, <2>2, <2>3, <3>1 DEF Regions, SlotInv
  <2> QED
    BY <1>6, <2>4, <2>6, SortEffect
<1>7. CASE PhysStep
  <2>1. pass = "phys" /\ UNCHANGED <<pass, count, stackUsed, funcs, body>>
    BY <1>7 DEF PhysStep, In
  <2>2. Live' = Live /\ First' = First /\ Live \subseteq 1 .. MaxRegs /\ cursor \in Live
    BY <1>7, <2>1, PhysEffect, LiveFacts DEF Live, First
  <2>3. RegSet(cursor, nextReg) \/ UNCHANGED vregs
    BY <1>7, PhysEffect
  <2>4. /\ \A i \in Live : vregs'[i].name = vregs[i].name /\ vregs'[i].off = vregs[i].off
        /\ \A i \in (1 .. MaxRegs) \ Live : vregs'[i] = vregs[i]
    BY <2>2, <2>3 DEF RegSet
  <2>5. Regions'
    BY <1>r, <2>1, <2>2, <2>4, RegionsSame
  <2>6. NothingBeyond => NothingBeyond'
    BY <2>2, <2>4, BeyondKept
  <2>7. GivenSlots'
    BY <2>1 DEF GivenSlots
  <2> QED
    BY <2>1, <2>2, <2>5, <2>6, <2>7 DEF Regions, SlotInv
<1>8. CASE SlotStep
  <2>1. /\ pass = "slots" /\ UNCHANGED <<pass, count, funcs, body>> /\ Started
        /\ cursor' = cursor + 1 /\ cursor \in Nat
    BY <1>8 DEF SlotStep, In, Started, TypeInv
  <2>2. /\ Live' = Live /\ First' = First /\ Live \subseteq 1 .. MaxRegs /\ cursor \in Live
        /\ \A i \in Live : i \in Nat
    BY <1>8, <2>1, SlotEffect, LiveFacts DEF Live, First
  <2>3. CASE (~InMemory(cursor) \/ vregs[cursor].off # 0) /\ UNCHANGED <<vregs, stackUsed>>
    <3>1. Regions'
      BY <1>r, <2>1, <2>2, <2>3, RegionsSame
    <3>2. NothingBeyond' = NothingBeyond
      BY <2>2, <2>3 DEF NothingBeyond
    <3>3. GivenSlots => GivenSlots'
      <4> SUFFICES ASSUME GivenSlots, NEW i \in Live, InMemory(i)', i < cursor + 1
                   PROVE  vregs'[i].off # 0
        BY <2>1, <2>2 DEF GivenSlots
      <4>1. InMemory(i) /\ vregs'[i] = vregs[i]
        BY <2>3 DEF InMemory
      <4>2. CASE i = cursor
        BY <2>3, <4>1, <4>2
      <4>3. CASE i # cursor
        <5>1. i < cursor
          BY <2>1, <2>2, <4>3
        <5> QED
          BY <2>1, <4>1, <5>1 DEF GivenSlots
      <4> QED
        BY <4>2, <4>3
    <3> QED
      BY <2>1, <2>2, <3>1, <3>2, <3>3 DEF Regions, SlotInv
  <2>4. CASE /\ InMemory(cursor) /\ vregs[cursor].off = 0
             /\ OffSet(cursor, -(stackUsed + 8)) /\ stackUsed' = stackUsed + 8
    <3>0. PICK k : k = cursor
      OBVIOUS
    <3>1. /\ k \in Live /\ Live' = Live \union {k}
          /\ \A i \in 1 .. MaxRegs : i # k => vregs'[i] = vregs[i]
          /\ \A i \in Live : i # k => vregs'[i] = vregs[i]
          /\ vregs'[k].off = -(stackUsed + 8) /\ vregs'[k].name = vregs[k].name
          /\ vregs'[k].reg = vregs[k].reg
      BY <2>2, <2>4, <3>0 DEF OffSet
    <3>2. ~Placed(k)
      BY <2>2, <2>4, <3>0 DEF SlotInv, InFrame
    <3>3. SizeOf(vregs'[k].name) = 8
      BY <2>1, <3>1, <3>2, SizeFacts DEF Placed
    <3>4. Regions'
      BY <1>r, <2>1, <2>4, <3>1, <3>2, <3>3, RegionsGrow
    <3>5. NothingBeyond => NothingBeyond'
      BY <2>2, <3>1, BeyondKept
    <3>6. GivenSlots => GivenSlots'
      <4> SUFFICES ASSUME GivenSlots, NEW i \in Live, InMemory(i)', i < cursor + 1
                   PROVE  vregs'[i].off # 0
        BY <2>1, <2>2 DEF GivenSlots
      <4>1. CASE i = k
        BY <1>n, <3>1, <4>1
      <4>2. CASE i # k
        <5>1. vregs'[i] = vregs[i] /\ i < cursor
          BY <2>1, <2>2, <3>0, <3>1, <4>2
        <5> QED
          BY <2>1, <5>1 DEF GivenSlots, InMemory
      <4> QED
        BY <4>1, <4>2
    <3> QED
      BY <2>1, <2>2, <3>4, <3>5, <3>6 DEF Regions, SlotInv
  <2> QED
    BY <1>8, <2>3, <2>4, SlotEffect
<1>9. CASE ArgStep
  <2>0. PICK n : n = ArgNames[cursor]
    OBVIOUS
  <2>1. /\ pass = "args" /\ UNCHANGED <<pass, funcs, body>> /\ Started
        /\ First' = First /\ (First <=> funcs = 0)
    BY <1>9 DEF ArgStep, In, Started, First
  <2>3. CASE UNCHANGED <<vregs, count, stackUsed>>
    <3>1. Regions'
      BY <1>r, <2>1, <2>3, RegionsSame
    <3>2. NothingBeyond' = NothingBeyond
      BY <2>3 DEF NothingBeyond, Live
    <3>3. GivenSlots => GivenSlots'
      BY <2>1, <2>3 DEF GivenSlots, InMemory, Live
    <3> QED
      BY <2>1, <3>1, <3>2, <3>3 DEF Regions, SlotInv
  <2>4. CASE Added(n, -(stackUsed + 8)) /\ stackUsed' = stackUsed + 8
    <3>0. PICK k : k = count + 1
      OBVIOUS
    <3>1. /\ Live' = Live \union {k} /\ k \notin Live /\ ~Known(n)
          /\ \A i \in Live : vregs'[i] = vregs[i]
          /\ vregs'[k].off = -(stackUsed + 8) /\ vregs'[k].name = n
          /\ \A i \in 1 .. MaxRegs : i # k => vregs'[i] = vregs[i]
      BY <2>4, <3>0 DEF Added
    <3>2. ~AllocName(n)
      BY <2>1, <3>1 DEF NamesInv, AllocsIn, SeenIns, AllocName
    <3>3. SizeOf(vregs'[k].name) = 8
      BY <2>1, <3>1, <3>2, SizeFacts
    <3>7. /\ stackUsed' = stackUsed + 8 /\ UNCHANGED <<body, pass, funcs>> /\ Started
          /\ Live' = Live \union {k} /\ k \notin Live
          /\ \A i \in Live : i # k => vregs'[i] = vregs[i]
          /\ vregs'[k].off = -(stackUsed + 8)
      BY <2>1, <2>4, <3>1
    <3>4. Regions'
      BY <1>r, <3>3, <3>7, RegionsGrow
    <3>5. NothingBeyond => NothingBeyond'
      BY <3>1, BeyondKept
    <3>6. GivenSlots => GivenSlots'
      BY <1>n, <2>1, <3>1 DEF GivenSlots, InMemory
    <3> QED
      BY <2>1, <3>4, <3>5, <3>6 DEF Regions, SlotInv
  <2> QED
    BY <1>9, <2>0, <2>3, <2>4, ArgEffect
<1>10. CASE NextPass
  <2>1. UNCHANGED <<vregs, count, stackUsed, funcs, body>>
    BY <1>10 DEF NextPass
  <2>2. pass # "idle" /\ pass' # "idle"
    BY <1>10 DEF NextPass, In, Enter
  <2>3. Live' = Live /\ First' = First /\ NothingBeyond' = NothingBeyond
    BY <2>1, <2>2 DEF Live, First, NothingBeyond
  <2>4. Regions'
    BY <1>r, <2>1, <2>3, RegionsSame
  <2>5. GivenSlots => GivenSlots'
    <3>1. CASE pass = "slots" /\ cursor > count /\ pass' = "args"
      <4>1. \A i \in Live : i < cursor
        BY <1>n, <3>1 DEF Live, TypeInv
      <4> QED
        BY <2>1, <2>3, <3>1, <4>1 DEF GivenSlots, InMemory
    <3>2. CASE pass' = "slots" /\ cursor' = 1
      BY <3>2 DEF GivenSlots, Live
    <3>3. CASE pass' \in {"names", "uses", "phys"}
      BY <3>3 DEF GivenSlots
    <3> QED
      BY <1>10, <3>1, <3>2, <3>3 DEF NextPass, In, Enter
  <2> QED
    BY <2>1, <2>3, <2>4, <2>5 DEF Regions, SlotInv
<1>11. CASE Done
  <2>1. /\ pass = "args" /\ pass' = "idle" /\ UNCHANGED <<vregs, count, body>>
        /\ funcs' = funcs + 1 /\ stackUsed' = AlignUp(stackUsed, 16)
    BY <1>11 DEF Done, In, Enter
  <2>2. stackUsed' \in Nat /\ stackUsed <= stackUsed'
    BY <1>n, <2>1 DEF AlignUp
  <2>3. Live' = Live /\ (First' => First) /\ funcs' # 0
    BY <1>n, <2>1 DEF Live, First
  <2>4. GivenSlots => GivenSlots'
    BY <2>1, <2>3 DEF GivenSlots, InMemory
  <2>5. Started
    BY <2>1 DEF Started
  <2>6. \A i \in Live : (Placed(i)' => Placed(i)) /\ End(i)' = End(i)
    BY <2>1, <2>3, SameSizes DEF Placed, End
  <2>7. InFrame'
    <3> SUFFICES ASSUME NEW i \in Live, Placed(i)'
                 PROVE  vregs'[i].off < 0 /\ -stackUsed' <= vregs'[i].off /\ End(i)' <= 0
      BY <2>3 DEF InFrame
    <3>1. /\ vregs[i].off < 0 /\ -stackUsed <= vregs[i].off /\ End(i) <= 0
          /\ vregs[i].off \in Int
      BY <2>5, <2>6, EndFacts DEF SlotInv, InFrame
    <3> QED
      BY <1>n, <2>1, <2>2, <2>6, <3>1
  <2>8. Apart'
    BY <2>1, <2>3, <2>6 DEF SlotInv, Apart
  <2> QED
    BY <2>3, <2>4, <2>7, <2>8 DEF SlotInv
<1> QED
  BY <1>0, <1>1, <1>2, <1>3, <1>4, <1>5, <1>6, <1>7, <1>8, <1>9, <1>10, <1>11 DEF Next

\* When a function is done its memory is laid out.
LEMMA SlotsWhenDone == TypeInv /\ SlotInv => SlotsAreRight
<1> SUFFICES ASSUME TypeInv, SlotInv
             PROVE  SlotsAreRight
  OBVIOUS
<1> DEFINE Slot(i) == Allocated /\ i \in Live /\ Placed(i)
<1>1. Allocated => Started /\ stackUsed \in Nat
  BY DEF Allocated, Started, In, TypeInv
<1>2. \A i : Slot(i) => Bytes(i) \subseteq -stackUsed .. -1
  <2> SUFFICES ASSUME NEW i, Slot(i), NEW b \in Bytes(i)
               PROVE  b \in -stackUsed .. -1
    OBVIOUS
  <2>1. /\ -stackUsed <= vregs[i].off /\ End(i) <= 0
        /\ vregs[i].off \in Int /\ End(i) \in Int /\ stackUsed \in Nat
        /\ End(i) = vregs[i].off + SizeOf(vregs[i].name) /\ SizeOf(vregs[i].name) \in Int
    BY <1>1, EndFacts, SizeFacts DEF SlotInv, InFrame
  <2>2. b \in Int /\ vregs[i].off <= b /\ b <= End(i) - 1
    BY <2>1 DEF Bytes
  <2> QED
    BY <2>1, <2>2
<1>3. \A i, j : Slot(i) /\ Slot(j) /\ i # j => Bytes(i) \intersect Bytes(j) = {}
  <2> SUFFICES ASSUME NEW i, NEW j, Slot(i), Slot(j), i # j, NEW b \in Bytes(i), b \in Bytes(j)
               PROVE  FALSE
    OBVIOUS
  <2>1. /\ vregs[i].off \in Int /\ End(i) \in Int
        /\ End(i) = vregs[i].off + SizeOf(vregs[i].name) /\ SizeOf(vregs[i].name) \in Int
        /\ vregs[j].off \in Int /\ End(j) \in Int
        /\ End(j) = vregs[j].off + SizeOf(vregs[j].name) /\ SizeOf(vregs[j].name) \in Int
    BY <1>1, EndFacts, SizeFacts
  <2>2. End(i) <= vregs[j].off \/ End(j) <= vregs[i].off
    BY DEF SlotInv, Apart
  <2>3. b \in Int /\ vregs[i].off <= b /\ b <= End(i) - 1
    BY <2>1 DEF Bytes
  <2>4. vregs[j].off <= b /\ b <= End(j) - 1
    BY <2>1 DEF Bytes
  <2> QED
    BY <2>1, <2>2, <2>3, <2>4
<1>4. AllocsApart
  <2> SUFFICES ASSUME Allocated,
                      NEW i \in Live, NEW j \in Live, AllocName(vregs[i].name),
                      AllocName(vregs[j].name)
               PROVE  /\ Bytes(i) \subseteq -stackUsed .. -1
                      /\ i # j => Bytes(i) \intersect Bytes(j) = {}
    BY DEF AllocsApart, AllocName, IsAlloc
  <2>1. Slot(i) /\ Slot(j)
    BY DEF Placed
  <2> HIDE DEF Slot
  <2> QED
    BY <1>2, <1>3, <2>1
<1>5. ASSUME Allocated, funcs = 1, NEW i \in Live, InMemory(i)
      PROVE  Slot(i)
  <2>1. First /\ pass = "idle"
    BY <1>5 DEF First, Allocated, In
  <2>2. vregs[i].off # 0
    BY <1>5, <2>1 DEF SlotInv, GivenSlots
  <2> QED
    BY <1>5, <2>1, <2>2 DEF Placed
<1> HIDE DEF Slot
<1>6. FirstSlotsApart
  BY <1>3, <1>5 DEF FirstSlotsApart, SlotsApart
<1>7. FirstSlotsInFrame
  BY <1>2, <1>5 DEF FirstSlotsInFrame
<1> QED
  BY <1>4, <1>6, <1>7 DEF SlotsAreRight

\* In every function the slots of the alloc instructions are apart from each other and in
\* the frame; in the first function of a file all the variables and arguments that have no
\* register have slots of their own, in the frame, whatever the sort moved and whatever
\* name an alloc has entered twice (init_regalloc).
THEOREM SlotsAreRightCorrect == Spec => []SlotsAreRight
<1>1. Init => TypeInv /\ NamesInv /\ SlotInv
  BY TypeInit, NamesInit, SlotInit
<1>2. (TypeInv /\ NamesInv /\ SlotInv) /\ [Next]_vars => (TypeInv /\ NamesInv /\ SlotInv)'
  BY TypeStep, NamesStep, SlotsStep
<1>3. TypeInv /\ NamesInv /\ SlotInv => SlotsAreRight
  BY SlotsWhenDone
<1> QED
  BY <1>1, <1>2, <1>3, PTL DEF Spec

=============================================================================
