SPECIFICATION Spec
CONSTANTS
  Users = {u1, u2}
  Handlers = {h1, h2}
  Listeners = {l1}
  MaxRows = 3
  MaxStops = 1
INVARIANTS
  IInv
  FriendsAgreed
  NotesAreTrue
  ShownIsStored
  FewDuplicates
  RequestIsNotified
