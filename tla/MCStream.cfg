SPECIFICATION Spec
CONSTANTS
  p1 = p1
  p2 = p2
  c1 = c1
  x1 = x1
  h1 = h1
  h2 = h2
  Producers = {p1, p2}
  Consumers = {c1}
  Closers = {x1}
  Hooks = {h1, h2}
  Capacity = 2
  MaxWrites = 3
  MaxErrors = 1
  None = None
INVARIANTS FIFO EndIsFinal NoLostWakeup NoForgottenWriter
PROPERTIES Forward ImplementsChannel
CHECK_DEADLOCK FALSE
