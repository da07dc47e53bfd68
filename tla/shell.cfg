SPECIFICATION Spec
CONSTANTS
  Ticks = 2
  Half = 16
  StackTop = 48
  KmainFrame = 3
  StackSize = 6
  ReservedTop = 22
  KEYCODE <- SomeKeys
  MAX_CMD_LEN = 3
  SleepTicks = 1
  Command <- ShortCommand
  MaxKeys = 4
INVARIANTS
  TypeOK
  IrqGetsItsHandler
  StacksApart
  LineAsTyped
PROPERTIES
  EveryIrqServed
  AlwaysReachesInput
CHECK_DEADLOCK FALSE
