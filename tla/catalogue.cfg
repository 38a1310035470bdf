SPECIFICATION Spec
CONSTANTS
  Names = {n1, n2}
  Handlers = {h1, h2}
  MaxTopics = 2
  MaxPrompts = 2
SYMMETRY Alike
\* When the topics of the run are spent and deleted, nothing is left to do.
CHECK_DEADLOCK FALSE
INVARIANTS
  TypeOK
  NothingForeignIsDrawn
  LostOnlyByCrossing
  IInv
PROPERTY RemovedIsForgotten
