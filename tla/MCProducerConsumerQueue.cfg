CONSTANTS
  p1 = p1
  p2 = p2
  p3 = p3
  c1 = c1
  c2 = c2
  Producers = {p1, p2, p3}
  Consumers = {c1, c2}
  maxSize = 2
  MaxUnits = 2
  MaxResets = 1
SPECIFICATION Spec
SYMMETRY Symmetry
INVARIANTS NoLostWakeup NoConsumerBlockedAfterFinish DeliveredOnceInOrder
