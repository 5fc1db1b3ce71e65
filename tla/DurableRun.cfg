SPECIFICATION FairRunSpec
CONSTANTS
  r1 = r1
  e1 = e1
  a1 = a1
  Runs = {r1}
  Episodes = {e1}
  Attempts = {a1}
  Fingerprints = {f1}
  Operations = {o1, o2}
  Payloads <- RunBoundaries
  Results <- RunResults
  Decisions <- RunDecisions
  Reservations <- RunDecisions
  ProviderExecutions <- RunDecisions
  Boundaries <- RunBoundaries
  MaxSequence = 6
  MaxUnits = 1
  MaxOperations = 2
  MaxDecisions = 3
  None = None
  RunLineage <- Lineage1
  Stage <- GameStage
  MaxGeneration = 4
  MaxSteps = 3
  MaxAttempts = 2
  MaxPolls = 2
CHECK_DEADLOCK FALSE
INVARIANTS
  RunSound
  DecidesOnSettledWorld
  CompletionSound
PROPERTIES
  ResumesSafely
  ImplementsSerialActions
  RunEnds
