SPECIFICATION Spec
CONSTANTS
  Layouts <- MCLayouts
  Messages <- MCMessages
  Capacities <- MCCapacities
  Wires <- MCWires
CHECK_DEADLOCK FALSE
INVARIANTS
  AllOrNothing
  WithinBounds
  RoundTrip
