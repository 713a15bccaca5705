SPECIFICATION Spec
CONSTANTS
  W = 4
  ByteRange = 2
  int = int
  ptr = ptr
  reg = reg
  slot = slot
  wide = wide
  sym = sym
  Vars = {slot, ptr, reg}
  Longs = {ptr}
  InReg = {reg}
  Slots = {slot}
  Syms = {sym}
  Imms = {0, 1}
  SymAddr <- MCSymAddr
  SlotAddr <- MCSlotAddr
  Forms <- MCLeafForms
  Moves <- MCLeafMoves
  ArgLists <- MCNoLists
  SyscallLists <- MCNoLists
  Numbers = {0}
  Results <- MCResults
  Ariths = {"sub", "div"}
  Compares = {"clt"}
  Nothing = Nothing
INVARIANTS TypeOK EaxCoherent
PROPERTIES ImplementsIR
