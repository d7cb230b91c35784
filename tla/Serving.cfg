SPECIFICATION MCSpec
CONSTANTS
  Row <- MCRow
  Name = {"a", "b"}
  Repo = {"h", "s"}
  Home = "h"
  NameOf <- MCNameOf
  RepoOf <- MCRepoOf
  DistOf <- MCDistOf
  PathOf <- MCPathOf
  RowId <- MCRowId
  Rank <- MCRank
  Major <- MCMajor
  BoundChoice <- MCBoundChoice
  Undated = {3}
  SetRows = {2, 3}
  StartCatalogs <- MCStart
  PolicyChoice <- MCPolicyChoice
  OverrideChoice <- MCOverrideChoice
  Requests <- MCRequests
  HasAgency = TRUE
  MaxCool = 1
  MaxChanges = 2
  Client = {"nobody", "token"}
  Nobody = "nobody"
  MetaAge = 1
  RedirectAge = 1
  DistAge = 3
  PresignAge = 3
  Latency = 1
  MaxTime = 6
  MaxFlight = 2
  MaxTurns = 2
INVARIANTS
  AnswerFromOneMoment
  HandedInTime
CHECK_DEADLOCK FALSE
