SPECIFICATION Spec
CONSTANTS
  u1 = u1
  u2 = u2
  MaxRounds = 2
  MaxAnswers = 1
  MaxVotes = 1
  Users <- Two
  Profiles <- Two
  Owner <- Aligned
  Host = u1
  Seats <- Two
  TotalRounds = 1
  Relations <- AllRelations
  InOrder = FALSE
  Handlers = {h1, h2}
  Jobs = {j1}
  MaxRows <- Rows
  Redeploys = FALSE
  EditsInPlay = FALSE
  Ballots = {"truth", "stray"}
  CatalogueSizes = {4, 5}
SYMMETRY Slots
INVARIANTS
  TypeOK
  PhaseWasAnnounced
  OutcomeWasAnnounced
  RoundsWithinTotal
  ToldInOrder
  PointsAreEarned
  IInv
CHECK_DEADLOCK FALSE
