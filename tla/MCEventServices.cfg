CONSTANTS
  first = first
  second = second
  nullptr = nullptr
  Events <- MCEvents
  EventTypes <- MCEventTypes
  MaxTPL = 3
SPECIFICATION Spec
SYMMETRY MCSymmetry
INVARIANTS
  TypeOK
  Nested
  CallbackOwned
  SignalDelivered
  TimersAsAsked
CHECK_DEADLOCK FALSE
