SPECIFICATION GpioSpec
CONSTANTS
  Pins = {p1, p2}
  NumSlots = 1
  Modes = {"rise", "fall", "low"}
  NULL = NULL
INVARIANTS BooksAgree NothingWentWrong
PROPERTY LevelServed
CHECK_DEADLOCK FALSE
