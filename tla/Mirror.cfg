SPECIFICATION MCSpec
CONSTANTS
  Upstream = {"r", "g"}
  Kind <- MCKind
  Claim <- MCClaim
  OwnDists = {"r"}
  Pkg = {"p"}
  Version = {1}
  Bytes = {"b1", "b2"}
  Worker = {w1, w2}
  Initially <- MCInitially
  Subs <- MCSubs
  MaxTurns = 2
  MaxEdits = 1
  MaxSyncs = 2
  Dep = {"a", "b", "c", "d", "e"}
  Registry <- MCRegistry
  Private = {"priv"}
  Requires <- MCRequires
  Direct <- MCDirect
  Nobody = "nobody"
  MaxClosure = 4
  MaxWalks = 2
  MaxMoves = 2
INVARIANTS
  PublicNeedsMiss
  PlanClosed
  SyncedIsStored
PROPERTIES
  FirstBytesStay
  FlagsHaveGrounds
  FreezeNeedsRace
CHECK_DEADLOCK FALSE
SYMMETRY Symmetry
