SPECIFICATION FairWorkerSpec
CONSTANTS
  Runs = {r1}
  Episodes = {e1}
  Attempts = {a1, a2}
  Fingerprints = {f1}
  Operations = {}
  Payloads = {p1}
  Results = {x1}
  Decisions = {}
  Reservations = {}
  ProviderExecutions = {}
  Boundaries = {c1}
  MaxSequence = 0
  MaxUnits = 1
  MaxOperations = 0
  MaxDecisions = 0
  None = None
  Jobs = {j1, j2}
  Handoffs = {h1, h2}
  Tokens = {t1}
  Boots = {b1, b2, b3}
  Modes = {"running", "stopped"}
  MaxModeSequence = 2
  MaxJobs = 2
  ApprovedFingerprint = f1
CHECK_DEADLOCK FALSE
INVARIANTS
  OneExecution
  HeldUntilReceipt
  AuthorityFence
  HandoffRowsSound
PROPERTIES
  NeverBack
  ImplementsStore
  CancelledIsRetained
