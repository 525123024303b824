SPECIFICATION Spec
CONSTANTS
  x = x
  y = y
  s = s
  AreaId = AreaId
  Buffers = {x, y}
  Areas = {s}
  Shapes <- BufferShapes
  Rules = {"always", "declared"}
  AsyncFlush = TRUE
  Ramp = TRUE
  MaxRecordedItems = 4
  RampFirst = 1
  RampMax = 4
  MaxCommands = 3
  QuietToggle = TRUE
INVARIANTS
  TypeOK
  HazardFree
  BarriersAccounted
