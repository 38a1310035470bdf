SPECIFICATION FairDepartTurnSpec
CONSTANTS
  u1 = u1
  u2 = u2
  MaxRounds = 1
  MaxAnswers = 1
  MaxVotes = 1
  Users <- Two
  Profiles <- Two
  Owner <- Crossed
  Host = u1
  Seats <- Two
  TotalRounds = 1
  Relations <- AllRelations
  InOrder = TRUE
  Handlers = {h1}
  Jobs = {j1}
  Leavers = {l1}
  MaxRows <- Rows
  Redeploys = FALSE
  EditsInPlay = FALSE
  Ballots = {"truth", "lie"}
  CatalogueSizes = {5}
\* A process that has ended stays so, and a finished game has nothing to do.
CHECK_DEADLOCK FALSE
INVARIANTS
  DepartInv
  AbortedOnlyByHost
  OnlyNumberedSeatsEmpty
PROPERTIES
  HostEndsGame
  RequestsEnd
