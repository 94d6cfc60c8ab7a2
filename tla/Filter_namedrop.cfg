SPECIFICATION Spec
CONSTANTS
  Names = {"cpu", "mem"}
  FieldKeys = {"f"}
  TagKeys = {"t"}
  TagValues = {"v"}
  Nil = Nil
INVARIANTS
  NameDropDiscards
CHECK_DEADLOCK FALSE
