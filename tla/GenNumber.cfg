SPECIFICATION Spec
CONSTANTS
  W = 4
  ByteRange = 2
  int = int
  ptr = ptr
  reg = reg
  slot = slot
  wide = wide
  sym = sym
  Vars = {int, ptr}
  Longs = {ptr}
  InReg = {}
  Slots = {}
  Syms = {sym}
  Imms = {0, 1}
  SymAddr <- MCSymAddr
  SlotAddr <- MCSlotAddr
  Forms <- MCSlotForms
  Moves = {}
  ArgLists <- MCArgLists
  SyscallLists <- MCSyscallLists
  Numbers = {int}
  Results <- MCResults
  Ariths = {"add", "mul"}
  Compares = {"cle", "ceq", "cne", "cgt"}
  Nothing = Nothing
PROPERTIES ImplementsIR
