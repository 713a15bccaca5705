------------------------------ MODULE MCCaiGen ------------------------------
(***************************************************************************)
(* Small functions for CaiGen: a pointer ptr and an i32, int in the frame  *)
(* or, where the function is a leaf, reg that got rbx; slot and wide are   *)
(* the slots of an i32 and of an i64 variable.                             *)
(***************************************************************************)
EXTENDS CaiGen

CONSTANTS int, ptr, reg, slot, wide, sym   \* the virtual registers and a symbol

MCSymAddr == [x \in {sym} |-> [hi |-> 1, lo |-> 0]]
MCSlotAddr ==
  [v \in Vars |-> CASE v \in {int, slot} -> [hi |-> 1, lo |-> 1]
                    [] v = wide -> [hi |-> 0, lo |-> 0]
                    [] v \in {ptr, reg} -> [hi |-> 0, lo |-> 1]]

Form(dst, a, b) == [dst |-> dst, a |-> a, b |-> b]
Move(p, r) == [ptr |-> p, reg |-> r]

MCLeafForms ==
  {Form(reg, reg, 1), Form(reg, 0, reg), Form(reg, sym, 1),
   Form(ptr, reg, ptr), Form(ptr, ptr, reg), Form(reg, ptr, ptr), Form(ptr, sym, ptr)}

MCSlotForms ==
  {Form(int, int, 1), Form(int, 0, int), Form(int, sym, int),
   Form(ptr, int, ptr), Form(ptr, ptr, int), Form(int, ptr, ptr)}

\* variables of the source, each with its slot
MCLeafMoves == {Move(slot, reg), Move(slot, 1), Move(slot, sym)}
MCMoves ==
  {Move(slot, int), Move(slot, 1), Move(slot, sym), Move(wide, ptr), Move(wide, sym), Move(wide, int)}

MCNoLists == {<<>>}
MCArgLists == {<<ptr, int>>, <<sym, 1, int>>}
MCSyscallLists == {<<ptr, 1>>, <<sym, ptr>>}
MCResults == {[hi |-> 0, lo |-> 1], [hi |-> 1, lo |-> 0]}
=============================================================================
