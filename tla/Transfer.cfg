SPECIFICATION Spec
CONSTANTS
  b1 = b1
  b2 = b2
  a1 = a1
  Buffers = {b1, b2}
  Areas = {a1}
  Values = {0, 1}
  Timelines = {TRUE, FALSE}
  MaxItems = 2
  MaxCopies = 2
  ArmedFails = FALSE
  Settles = TRUE
INVARIANTS
  SameContract
  CommandBuffersOutlive
