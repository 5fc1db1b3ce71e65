SPECIFICATION StoresSpec
CONSTANTS
  r1 = r1
  r2 = r2
  a1 = a1
  a2 = a2
  a3 = a3
  Runs = {r1, r2}
  Episodes = {e1}
  Attempts = {a1, a2, a3}
  Fingerprints = {f1}
  Operations = {o1}
  Payloads = {y1}
  Results = {x1, x2}
  Decisions = {d1}
  Reservations = {v1}
  ProviderExecutions = {q1}
  Boundaries = {b1}
  MaxSequence = 1
  MaxUnits = 1
  MaxOperations = 2
  MaxDecisions = 2
  None = None
  k1 = k1
  k2 = k2
  k3 = k3
  Keys = {k1, k2, k3}
  OperationIds = {h1, h2}
  Observations <- TwoGenerations
  NoReceipt = NoReceipt
  NoCatalog = NoCatalog
  MaxEvents = 4
  MaxEpoch = 2
  p1 = p1
  p2 = p2
  Services = {p1, p2}
  Leases = {1, 2}
  Invocations = {n1}
  Configured = {1}
  Requests = {u1}
  Drafts = {t1}
  m1 = m1
  m2 = m2
  Mutations = {m1, m2}
  NoService = NoService
  NoJournal = NoJournal
  NoSource = NoSource
  NoInvocation = NoInvocation
  NoDraft = NoDraft
  NoPublication = NoPublication
  MaxPublications = 2
  MaxContacts = 2
  MaxEffort = 5
  Callers = {g1, g2}
  OpIds = {1, 2}
  Commands <- ThreeCommands
  NoJournalEntry = NoJournalEntry
  NoIntent = NoIntent
  Unreadable = Unreadable
  MaxEntries = 2
  MaxIntentRecords = 3
  MaxLines = 4
  MaxFaults = 1
  MaxCrashes = 1
SYMMETRY Symmetry
CHECK_DEADLOCK FALSE
INVARIANTS
  RowsAgree
  PendingAnchored
  ReconstructionFaithful
  GateSound
  OwnerSound
  LifecycleSound
PROPERTIES
  StoreStepsSound
  OwnerSteps
