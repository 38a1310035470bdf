SPECIFICATION Spec
CONSTANTS
  Users = {1, 2, 3}
  Friends = {{1, 2}}
  Handlers = {h1, h2}
  Leavers = {l1}
  Online = {2}
  Sizes = {2}
  Settings = {"public", "friends_only", "private", "preparing"}
  MaxCommands = 5
  MaxStops = 1
SYMMETRY Slots
INVARIANTS
  TypeOK
  OnlyTheWelcomeSit
  OnlyTheWelcomeHear
  IInv
PROPERTIES
  UnlinkedOnlyByCrossing
  StartUndoneOnlyByCrossing
CHECK_DEADLOCK FALSE
