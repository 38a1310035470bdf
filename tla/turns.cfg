SPECIFICATION FairTurnSpec
CONSTANTS
  u1 = u1
  u2 = u2
  u3 = u3
  MaxRounds = 2
  MaxAnswers = 2
  MaxVotes = 2
  Users <- Two
  Profiles <- Two
  Owner <- Crossed
  Host = u1
  Seats <- Two
  TotalRounds = 2
  Relations <- AllRelations
  InOrder = TRUE
  Handlers = {h1}
  Jobs = {j1, j2}
  MaxRows <- Rows
  Redeploys = TRUE
  EditsInPlay = FALSE
  Ballots = {"truth", "lie"}
  CatalogueSizes = {4, 5}
INVARIANTS
  TallyInOrder
  AsksInOrder
  ScoresAreDue
PROPERTIES
  PlaysByTheRules
  TallyIsShared
CHECK_DEADLOCK FALSE
