SPECIFICATION Spec
CONSTANTS
  x = x
  y = y
  s = s
  AreaId = AreaId
  Buffers = {x, y}
  Areas = {s}
  Shapes <- BufferShapes
  Rules = {"declared"}
  AsyncFlush = TRUE
  Ramp = TRUE
  MaxRecordedItems = 3
  RampFirst = 1
  RampMax = 4
  MaxCommands = 3
  QuietToggle = FALSE
INVARIANTS
  HazardFree
