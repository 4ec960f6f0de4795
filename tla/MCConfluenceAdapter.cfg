SPECIFICATION Spec
CONSTANTS
  c1 = c1
  c2 = c2
  r1 = r1
  Calls = {c1, c2}
  Listings = {c1}
  Runtimes = {r1}
  Home <- MCHome
  Codex = Codex
  Nobody = Nobody
  MaxAttempts = 2
  MaxGen = 2
  MaxFaults = 1
  Greeting = Greeting
  MaxProcs = 2
INVARIANTS
  CacheBehindKeychain
  RejectedOnlyByOthers
  OwnAnswer
PROPERTY
  OperationsEnd
CHECK_DEADLOCK FALSE
