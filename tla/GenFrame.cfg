SPECIFICATION Spec
CONSTANTS
  W = 2
  ByteRange = 2
  int = int
  ptr = ptr
  reg = reg
  slot = slot
  wide = wide
  sym = sym
  Vars = {int, ptr, slot, wide}
  Longs = {ptr, wide}
  InReg = {}
  Slots = {slot, wide}
  Syms = {sym}
  Imms = {0, 1}
  SymAddr <- MCSymAddr
  SlotAddr <- MCSlotAddr
  Forms <- MCSlotForms
  Moves <- MCMoves
  ArgLists <- MCArgLists
  SyscallLists <- MCSyscallLists
  Numbers = {1}
  Results <- MCResults
  Ariths = {"add", "mul"}
  Compares = {"cle", "ceq", "cne", "cgt", "cge"}
  Nothing = Nothing
PROPERTIES ImplementsIR
