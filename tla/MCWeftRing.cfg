SPECIFICATION Spec
CONSTANTS
  Span = 3
  Rows = 7
INVARIANTS CountersOrdered NoSharedSlot WindowIntact
PROPERTIES IsRowQueue
