SPECIFICATION FairTurnSpec
CONSTANTS
  u1 = u1
  u2 = u2
  u3 = u3
  MaxRounds = 1
  MaxAnswers = 1
  MaxVotes = 1
  Users <- Two
  Profiles <- Two
  Owner <- Aligned
  Host = u1
  Seats <- Two
  TotalRounds = 1
  InOrder = TRUE
  Relations <- AllRelations
  Handlers = {h1}
  Jobs = {j1}
  MaxRows <- Rows
  Redeploys = FALSE
  EditsInPlay = FALSE
  Ballots = {"truth", "lie"}
  CatalogueSizes = {5}
CHECK_DEADLOCK FALSE
PROPERTY VotesLeadToResults
