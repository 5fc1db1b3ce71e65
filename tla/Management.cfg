SPECIFICATION ManagementSpec
CONSTANTS
  s1 = s1
  s2 = s2
  s3 = s3
  cancel1 = cancel1
  pause1 = pause1
  resume1 = resume1
  i1 = i1
  i2 = i2
  i3 = i3
  alice = alice
  bob = bob
  NoCaller = NoCaller
  None = None
  Nothing = Nothing
  Absent = Absent
  Callers = {c1, c2}
  Threads = {c1, c2}
  Commands = {s1, s2, s3, cancel1, pause1, resume1}
  KindOf <- TheKinds
  Setups <- SomeSetups
  EndsAs = "Completed"
  MaxEffects = 3
  Calls <- SomeCalls
  MaxClaims = 2
  Profiles <- AllProfiles
  th1 = th1
  d1 = d1
  ref1 = ref1
  ref2 = ref2
  src1 = src1
  src2 = src2
  Dispatches = {1, 2}
  FenceValues = {1, 2}
  MaxStops = 1
  MaxReloads = 1
  ServedRuns = {w1, w2}
  MaxProviderCalls = 3
  MaxCrashes = 2
  Authors = {c1, c2}
  Drafts = {g1}
  Mutations = {m1, m2, m3}
  Requests = {r1}
  g1 = g1
  m1 = m1
  m2 = m2
  m3 = m3
  x1 = x1
  bad1 = bad1
  Bodies <- SomeBodies
  Compiles = {x1}
  MaxRevision = 2
  MaxReopens = 1
  Unwritten = Unwritten
SYMMETRY Symmetry
CONSTRAINT NamedInOrder
CHECK_DEADLOCK FALSE
INVARIANTS
  CommandsSound
  SubmissionSound
  BindingsSound
  BoundarySound
  AuthoringSound
PROPERTIES
  CancelledSendsNothing
  BrokerStepsSound
  PreparedSound
