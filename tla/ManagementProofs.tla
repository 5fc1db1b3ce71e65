-------------------------- MODULE ManagementProofs --------------------------
(***************************************************************************)
(* The management service around a live run: its submission, the managed   *)
(* decision of its served session, the prepared dispatch that releases its *)
(* provider calls, the broker of its provider sessions, and the authoring  *)
(* of workflows in Studio.                                                 *)
(*                                                                         *)
(* SubmissionSound and ClaimsFinal hold for any number of threads, request *)
(* ids, claims and crashes of the service.  A claim is given away once and *)
(* never taken back, so at most one thread ever works on a request id.     *)
(* The inductive invariant says what the store, the registry and the       *)
(* gateway hold in each of its phases, and what is left of an id nobody    *)
(* works on.                                                               *)
(*                                                                         *)
(* BoundarySound holds for every set of runs and every number of provider  *)
(* calls.  A number is given out again after a clean refusal, so the bound *)
(* on the exchanges rests on where the session stands: up to the release   *)
(* only numbers that were counted can have reached the provider.           *)
(*                                                                         *)
(* PreparedSound holds for every set of identities and fences and any      *)
(* number of stops and restarts.  The once-only release follows from two   *)
(* facts that no single step shows: what the image has settled stays       *)
(* settled in the ledger of every later controller, and an approval of the *)
(* current stop epoch was drafted after the last stop.                     *)
(*                                                                         *)
(* BindingsSound and BrokerStepsSound hold for every set of profiles.  One *)
(* relation, SafeStep, says what any operation may do to the five tables   *)
(* of the broker; each operation is shown to be within it.                 *)
(*                                                                         *)
(* AuthoringSound holds for any number of handlers, drafts, mutations and  *)
(* requests, and any bounds.                                               *)
(***************************************************************************)
EXTENDS RunSubmission, ServedBoundary, PreparedDispatch, SessionBroker, StudioAuthoring,
        FiniteSetTheorems, TLAPS

----------------------------------------------------------------------------
(* The submission of a live run.                                           *)

Busy(t) == thread[t].at # "idle"

\* A thread at work holds the open claim of its id, alone.
ClaimHeld ==
    /\ \A t \in Threads : Busy(t) =>
           /\ claims[Id(t)] # None /\ claims[Id(t)].outcome = None
           /\ Accepts(claims[Id(t)], thread[t].call)
    /\ \A t, u \in Threads : Busy(t) /\ Busy(u) /\ Id(t) = Id(u) => t = u

\* An id without a claim has nothing, and what it has comes in this order: the run, the
\* launch, the session, the registry.
InOrder ==
    \A i \in RequestIds :
        /\ claims[i] = None => runs[i] = None
        /\ runs[i] = None => launches[i] = 0
        /\ launches[i] = 0 => leases[i] = 0
        /\ leases[i] = 0 => i \notin registry
        /\ launches[i] <= 1 /\ leases[i] <= 1

\* What there is of an id in each phase of the thread that works on it.
PhasesOK ==
    \A t \in Threads : Busy(t) =>
        /\ thread[t].at \in {"admit", "reserve"} => runs[Id(t)] = None
        /\ thread[t].at \notin {"admit", "reserve", "failed"} => runs[Id(t)] # None
        /\ thread[t].at \in {"open", "launch"} => launches[Id(t)] = 0
        /\ thread[t].at = "register" => leases[Id(t)] = 1
        /\ thread[t].at \in {"register", "failed"} => Id(t) \notin registry
        /\ thread[t].at \in {"publish", "succeeded"} => Id(t) \in registry
        /\ thread[t].at = "succeeded" => runs[Id(t)].status = "Running"

\* What an outcome says is so: a run was stored, or none was.
OutcomesTrue ==
    \A i \in RequestIds : claims[i] # None =>
        /\ claims[i].outcome = "failed" => runs[i] = None
        /\ claims[i].outcome = "submitted" => runs[i] # None

\* Who was told "submitted" owns the claim that says so, and its run is live.
ToldTrue ==
    \A t \in Threads : Told(t, "submitted") =>
        /\ Id(t) \in registry
        /\ claims[Id(t)] # None /\ claims[Id(t)].outcome = "submitted"
        /\ Accepts(claims[Id(t)], thread[t].call)

SubmissionInv ==
    SubmissionTypeOK /\ ClaimHeld /\ InOrder /\ PhasesOK /\ OutcomesTrue /\ ToldTrue

\* A thread at work has a call.
LEMMA BusyCall ==
    ASSUME SubmissionTypeOK, NEW t \in Threads, Busy(t)
    PROVE  /\ thread[t] \in [at: ServicePhases, call: Calls]
           /\ Id(t) \in RequestIds
<1>1. thread[t] \in {NoCall} \cup [at: ServicePhases, call: Calls]
                       \cup [at: {"idle"}, call: Calls, answer: Answers]
  BY DEF SubmissionTypeOK
<1>2. thread[t] \in [at: ServicePhases, call: Calls]
  BY <1>1 DEF Busy, NoCall
<1>3. QED
  BY <1>2 DEF Id, RequestIds

LEMMA SubmissionStarts == SubmissionInit => SubmissionInv
<1> SUFFICES ASSUME SubmissionInit PROVE SubmissionInv
  OBVIOUS
<1> USE DEF SubmissionInit
<1>1. \A t \in Threads : ~Busy(t) /\ ~Told(t, "submitted")
  BY DEF Busy, Told, NoCall
<1>2. SubmissionTypeOK
  BY SubmissionAssumption DEF SubmissionTypeOK
<1>3. ClaimHeld /\ PhasesOK /\ ToldTrue
  BY <1>1 DEF ClaimHeld, PhasesOK, ToldTrue
<1>4. InOrder /\ OutcomesTrue
  BY DEF InOrder, OutcomesTrue
<1>5. QED
  BY <1>2, <1>3, <1>4 DEF SubmissionInv

LEMMA AcquirePreserves ==
    ASSUME SubmissionInv, NEW t \in Threads, NEW c \in Calls, Acquire(t, c)
    PROVE  SubmissionInv'
<1> USE SubmissionAssumption DEF SubmissionInv, Acquire, Free
<1>1. c.id \in RequestIds
  BY DEF RequestIds
<1>2. SubmissionTypeOK'
  BY <1>1, SMT
     DEF SubmissionTypeOK, ClaimRows, RunRows, ServicePhases, Answers, InOrder, PhasesOK,
         ClaimHeld, Busy, Id, NoCall
<1>3. ClaimHeld'
  BY <1>1, <1>2, BusyCall DEF ClaimHeld, SubmissionTypeOK, ClaimRows, Busy, Id, Accepts
<1>4. InOrder'
  BY <1>1, SMT DEF InOrder, PhasesOK, ClaimHeld, SubmissionTypeOK, Busy, Id
<1>5. PhasesOK'
  BY <1>1, SMT DEF PhasesOK, InOrder, ClaimHeld, SubmissionTypeOK, Busy, Id
<1>6. OutcomesTrue'
  BY <1>1, SMT DEF OutcomesTrue, PhasesOK, ClaimHeld, SubmissionTypeOK, ClaimRows, Busy, Id
<1>7. ToldTrue'
  BY <1>1, SMT
     DEF ToldTrue, Told, PhasesOK, ClaimHeld, SubmissionTypeOK, ClaimRows, Busy, Id, Accepts,
         NoCall
<1>8. QED
  BY <1>2, <1>3, <1>4, <1>5, <1>6, <1>7

LEMMA ReplayPreserves ==
    ASSUME SubmissionInv, NEW t \in Threads, NEW c \in Calls, Replay(t, c)
    PROVE  SubmissionInv'
<1> USE SubmissionAssumption DEF SubmissionInv, Replay
<1>1. c.id \in RequestIds
  BY DEF RequestIds
<1>a. /\ Answer(c) \in Answers
      /\ Answer(c) = "submitted" =>
           c.id \in registry /\ claims[c.id].outcome = "submitted" /\ Accepts(claims[c.id], c)
  <2>1. claims[c.id] \in ClaimRows
    BY <1>1 DEF SubmissionTypeOK
  <2>2. QED
    BY <2>1 DEF Answer, Answers, Recovery, ClaimRows
<1>2. SubmissionTypeOK'
  BY <1>1, <1>a, SMT
     DEF SubmissionTypeOK, ClaimRows, RunRows, ServicePhases, Answers, InOrder, PhasesOK,
         ClaimHeld, Busy, Id, NoCall
<1>3. ClaimHeld'
  BY <1>1, <1>a, <1>2, BusyCall DEF ClaimHeld, SubmissionTypeOK, ClaimRows, Busy, Id, Accepts
<1>4. InOrder'
  BY <1>1, <1>a, SMT DEF InOrder, PhasesOK, ClaimHeld, SubmissionTypeOK, Busy, Id
<1>5. PhasesOK'
  BY <1>1, <1>a, SMT DEF PhasesOK, InOrder, ClaimHeld, SubmissionTypeOK, Busy, Id
<1>6. OutcomesTrue'
  BY <1>1, <1>a, SMT DEF OutcomesTrue, PhasesOK, ClaimHeld, SubmissionTypeOK, ClaimRows, Busy, Id
<1>7. ToldTrue'
  BY <1>1, <1>a, SMT
     DEF ToldTrue, Told, PhasesOK, ClaimHeld, SubmissionTypeOK, ClaimRows, Busy, Id, Accepts,
         NoCall
<1>8. QED
  BY <1>2, <1>3, <1>4, <1>5, <1>6, <1>7

LEMMA AdmitPreserves ==
    ASSUME SubmissionInv, NEW t \in Threads, NEW ok \in BOOLEAN, Admit(t, ok)
    PROVE  SubmissionInv'
<1> USE SubmissionAssumption DEF SubmissionInv, Admit, Goes
<1>1. Busy(t) /\ thread[t] \in [at: ServicePhases, call: Calls] /\ Id(t) \in RequestIds
  BY BusyCall DEF Busy
<1>2. SubmissionTypeOK'
  BY <1>1, SMT
     DEF SubmissionTypeOK, ClaimRows, RunRows, ServicePhases, Answers, InOrder, PhasesOK,
         ClaimHeld, Busy, Id, NoCall
<1>3. ClaimHeld'
  BY <1>1, <1>2, BusyCall DEF ClaimHeld, SubmissionTypeOK, ClaimRows, Busy, Id, Accepts
<1>4. InOrder'
  BY <1>1, SMT DEF InOrder, PhasesOK, ClaimHeld, SubmissionTypeOK, Busy, Id
<1>5. PhasesOK'
  BY <1>1, SMT DEF PhasesOK, InOrder, ClaimHeld, SubmissionTypeOK, Busy, Id
<1>6. OutcomesTrue'
  BY <1>1, SMT DEF OutcomesTrue, PhasesOK, ClaimHeld, SubmissionTypeOK, ClaimRows, Busy, Id
<1>7. ToldTrue'
  BY <1>1, SMT
     DEF ToldTrue, Told, PhasesOK, ClaimHeld, SubmissionTypeOK, ClaimRows, Busy, Id, Accepts,
         NoCall
<1>8. QED
  BY <1>2, <1>3, <1>4, <1>5, <1>6, <1>7

LEMMA ReservePreserves ==
    ASSUME SubmissionInv, NEW t \in Threads, NEW ok \in BOOLEAN, Reserve(t, ok)
    PROVE  SubmissionInv'
<1> USE SubmissionAssumption DEF SubmissionInv, Reserve, Goes
<1>1. Busy(t) /\ thread[t] \in [at: ServicePhases, call: Calls] /\ Id(t) \in RequestIds
  BY BusyCall DEF Busy
<1>a. /\ [status |-> "Created", cleanup |-> "NotStarted"] \in RunRows
      /\ [status |-> "Created", cleanup |-> "NotStarted"] # None
  BY DEF RunRows
<1>2. SubmissionTypeOK'
  BY <1>1, <1>a, SMT
     DEF SubmissionTypeOK, ClaimRows, RunRows, ServicePhases, Answers, InOrder, PhasesOK,
         ClaimHeld, Busy, Id, NoCall
<1>3. ClaimHeld'
  BY <1>1, <1>a, <1>2, BusyCall DEF ClaimHeld, SubmissionTypeOK, ClaimRows, Busy, Id, Accepts
<1>4. InOrder'
  BY <1>1, <1>a, SMT DEF InOrder, PhasesOK, ClaimHeld, SubmissionTypeOK, Busy, Id
<1>5. PhasesOK'
  <2>1. runs[Id(t)] = None /\ Id(t) \notin registry /\ launches[Id(t)] = 0
    BY <1>1 DEF PhasesOK, InOrder
  <2>2. CASE ok
    <3>1. /\ thread' = [thread EXCEPT ![t].at = "open"]
          /\ runs'[Id(t)] # None
          /\ \A i \in RequestIds \ {Id(t)} : runs'[i] = runs[i]
      BY <2>1, <2>2, <1>1, <1>a DEF SubmissionTypeOK
    <3>2. thread'[t].at = "open" /\ Id(t)' = Id(t)
      BY <3>1, <1>1 DEF SubmissionTypeOK, Id
    <3>3. ASSUME NEW u \in Threads, u # t, Busy(u)'
          PROVE  thread'[u] = thread[u] /\ Busy(u) /\ Id(u) \in RequestIds \ {Id(t)}
      BY <3>1, <3>3, <1>1, BusyCall DEF SubmissionTypeOK, Busy, ClaimHeld
    <3>4. QED
      BY <2>1, <3>1, <3>2, <3>3 DEF PhasesOK, Id
  <2>3. CASE ~ok
    BY <2>1, <2>3, <1>1, SMT DEF PhasesOK, ClaimHeld, SubmissionTypeOK, Busy, Id
  <2>4. QED
    BY <2>2, <2>3
<1>6. OutcomesTrue'
  BY <1>1, <1>a, SMT DEF OutcomesTrue, PhasesOK, ClaimHeld, SubmissionTypeOK, ClaimRows, Busy, Id
<1>7. ToldTrue'
  BY <1>1, <1>a, SMT
     DEF ToldTrue, Told, PhasesOK, ClaimHeld, SubmissionTypeOK, ClaimRows, Busy, Id, Accepts,
         NoCall
<1>8. QED
  BY <1>2, <1>3, <1>4, <1>5, <1>6, <1>7

LEMMA OpenPreserves ==
    ASSUME SubmissionInv, NEW t \in Threads, NEW ok \in BOOLEAN, Open(t, ok)
    PROVE  SubmissionInv'
<1> USE SubmissionAssumption DEF SubmissionInv, Open, Goes
<1>1. Busy(t) /\ thread[t] \in [at: ServicePhases, call: Calls] /\ Id(t) \in RequestIds
  BY BusyCall DEF Busy
<1>2. SubmissionTypeOK'
  BY <1>1, SMT
     DEF SubmissionTypeOK, ClaimRows, RunRows, ServicePhases, Answers, InOrder, PhasesOK,
         ClaimHeld, Busy, Id, NoCall
<1>3. ClaimHeld'
  BY <1>1, <1>2, BusyCall DEF ClaimHeld, SubmissionTypeOK, ClaimRows, Busy, Id, Accepts
<1>4. InOrder'
  BY <1>1, SMT DEF InOrder, PhasesOK, ClaimHeld, SubmissionTypeOK, Busy, Id
<1>5. PhasesOK'
  BY <1>1, SMT DEF PhasesOK, InOrder, ClaimHeld, SubmissionTypeOK, Busy, Id
<1>6. OutcomesTrue'
  BY <1>1, SMT DEF OutcomesTrue, PhasesOK, ClaimHeld, SubmissionTypeOK, ClaimRows, Busy, Id
<1>7. ToldTrue'
  BY <1>1, SMT
     DEF ToldTrue, Told, PhasesOK, ClaimHeld, SubmissionTypeOK, ClaimRows, Busy, Id, Accepts,
         NoCall
<1>8. QED
  BY <1>2, <1>3, <1>4, <1>5, <1>6, <1>7

LEMMA LaunchPreserves ==
    ASSUME SubmissionInv, NEW t \in Threads, NEW ok \in BOOLEAN, NEW cleaned \in BOOLEAN, Launch(t, ok, cleaned)
    PROVE  SubmissionInv'
<1> USE SubmissionAssumption DEF SubmissionInv, Launch, AfterLaunch, Goes
<1>1. Busy(t) /\ thread[t] \in [at: ServicePhases, call: Calls] /\ Id(t) \in RequestIds
  BY BusyCall DEF Busy
<1>2. SubmissionTypeOK'
  BY <1>1, SMT
     DEF SubmissionTypeOK, ClaimRows, RunRows, ServicePhases, Answers, InOrder, PhasesOK,
         ClaimHeld, Busy, Id, NoCall
<1>3. ClaimHeld'
  BY <1>1, <1>2, BusyCall DEF ClaimHeld, SubmissionTypeOK, ClaimRows, Busy, Id, Accepts
<1>4. InOrder'
  BY <1>1, SMT DEF InOrder, PhasesOK, ClaimHeld, SubmissionTypeOK, Busy, Id
<1>5. PhasesOK'
  BY <1>1, SMT DEF PhasesOK, InOrder, ClaimHeld, SubmissionTypeOK, Busy, Id
<1>6. OutcomesTrue'
  BY <1>1, SMT DEF OutcomesTrue, PhasesOK, ClaimHeld, SubmissionTypeOK, ClaimRows, Busy, Id
<1>7. ToldTrue'
  BY <1>1, SMT
     DEF ToldTrue, Told, PhasesOK, ClaimHeld, SubmissionTypeOK, ClaimRows, Busy, Id, Accepts,
         NoCall
<1>8. QED
  BY <1>2, <1>3, <1>4, <1>5, <1>6, <1>7

LEMMA RegisterPreserves ==
    ASSUME SubmissionInv, NEW t \in Threads, NEW ok \in BOOLEAN, Register(t, ok)
    PROVE  SubmissionInv'
<1> USE SubmissionAssumption DEF SubmissionInv, Register, Goes
<1>1. Busy(t) /\ thread[t] \in [at: ServicePhases, call: Calls] /\ Id(t) \in RequestIds
  BY BusyCall DEF Busy
<1>2. SubmissionTypeOK'
  BY <1>1, SMT
     DEF SubmissionTypeOK, ClaimRows, RunRows, ServicePhases, Answers, InOrder, PhasesOK,
         ClaimHeld, Busy, Id, NoCall
<1>3. ClaimHeld'
  BY <1>1, <1>2, BusyCall DEF ClaimHeld, SubmissionTypeOK, ClaimRows, Busy, Id, Accepts
<1>4. InOrder'
  BY <1>1, SMT DEF InOrder, PhasesOK, ClaimHeld, SubmissionTypeOK, Busy, Id
<1>5. PhasesOK'
  BY <1>1, SMT DEF PhasesOK, InOrder, ClaimHeld, SubmissionTypeOK, Busy, Id
<1>6. OutcomesTrue'
  BY <1>1, SMT DEF OutcomesTrue, PhasesOK, ClaimHeld, SubmissionTypeOK, ClaimRows, Busy, Id
<1>7. ToldTrue'
  BY <1>1, SMT
     DEF ToldTrue, Told, PhasesOK, ClaimHeld, SubmissionTypeOK, ClaimRows, Busy, Id, Accepts,
         NoCall
<1>8. QED
  BY <1>2, <1>3, <1>4, <1>5, <1>6, <1>7

LEMMA PublishPreserves ==
    ASSUME SubmissionInv, NEW t \in Threads, NEW ok \in BOOLEAN, Publish(t, ok)
    PROVE  SubmissionInv'
<1> USE SubmissionAssumption DEF SubmissionInv, Publish, Goes
<1>1. Busy(t) /\ thread[t] \in [at: ServicePhases, call: Calls] /\ Id(t) \in RequestIds
  BY BusyCall DEF Busy
<1>a. /\ [runs[Id(t)] EXCEPT !.status = "Running"] \in RunRows
      /\ [runs[Id(t)] EXCEPT !.status = "Running"] # None
      /\ [runs[Id(t)] EXCEPT !.status = "Running"].status = "Running"
  <2>1. runs[Id(t)] \in RunRows
    BY <1>1 DEF SubmissionTypeOK, PhasesOK
  <2>2. QED
    BY <2>1 DEF RunRows
<1>2. SubmissionTypeOK'
  BY <1>1, <1>a, SMT
     DEF SubmissionTypeOK, ClaimRows, RunRows, ServicePhases, Answers, InOrder, PhasesOK,
         ClaimHeld, Busy, Id, NoCall
<1>3. ClaimHeld'
  BY <1>1, <1>a, <1>2, BusyCall DEF ClaimHeld, SubmissionTypeOK, ClaimRows, Busy, Id, Accepts
<1>4. InOrder'
  BY <1>1, <1>a, SMT DEF InOrder, PhasesOK, ClaimHeld, SubmissionTypeOK, Busy, Id
<1>5. PhasesOK'
  BY <1>1, <1>a, SMT DEF PhasesOK, InOrder, ClaimHeld, SubmissionTypeOK, Busy, Id
<1>6. OutcomesTrue'
  BY <1>1, <1>a, SMT DEF OutcomesTrue, PhasesOK, ClaimHeld, SubmissionTypeOK, ClaimRows, Busy, Id
<1>7. ToldTrue'
  BY <1>1, <1>a, SMT
     DEF ToldTrue, Told, PhasesOK, ClaimHeld, SubmissionTypeOK, ClaimRows, Busy, Id, Accepts,
         NoCall
<1>8. QED
  BY <1>2, <1>3, <1>4, <1>5, <1>6, <1>7

LEMMA ReservedFailurePreserves ==
    ASSUME SubmissionInv, NEW t \in Threads, NEW ok \in BOOLEAN, NEW cleaned \in BOOLEAN, ReservedFailure(t, cleaned, ok)
    PROVE  SubmissionInv'
<1> USE SubmissionAssumption DEF SubmissionInv, ReservedFailure, Aborted, Goes
<1>1. Busy(t) /\ thread[t] \in [at: ServicePhases, call: Calls] /\ Id(t) \in RequestIds
  BY BusyCall DEF Busy
<1>a. /\ [status |-> "NeedsOperator", cleanup |-> "NeedsOperator"] \in RunRows
      /\ [status |-> "NeedsOperator", cleanup |-> "NeedsOperator"] # None
  BY DEF RunRows
<1>2. SubmissionTypeOK'
  BY <1>1, <1>a, SMT
     DEF SubmissionTypeOK, ClaimRows, RunRows, ServicePhases, Answers, InOrder, PhasesOK,
         ClaimHeld, Busy, Id, NoCall
<1>3. ClaimHeld'
  BY <1>1, <1>a, <1>2, BusyCall DEF ClaimHeld, SubmissionTypeOK, ClaimRows, Busy, Id, Accepts
<1>4. InOrder'
  BY <1>1, <1>a, SMT DEF InOrder, PhasesOK, ClaimHeld, SubmissionTypeOK, Busy, Id
<1>5. PhasesOK'
  BY <1>1, <1>a, SMT DEF PhasesOK, InOrder, ClaimHeld, SubmissionTypeOK, Busy, Id
<1>6. OutcomesTrue'
  BY <1>1, <1>a, SMT DEF OutcomesTrue, PhasesOK, ClaimHeld, SubmissionTypeOK, ClaimRows, Busy, Id
<1>7. ToldTrue'
  BY <1>1, <1>a, SMT
     DEF ToldTrue, Told, PhasesOK, ClaimHeld, SubmissionTypeOK, ClaimRows, Busy, Id, Accepts,
         NoCall
<1>8. QED
  BY <1>2, <1>3, <1>4, <1>5, <1>6, <1>7

\* The claim with its outcome is one the readers accept, and the outcome is so.
LEMMA FinishedClaim ==
    ASSUME SubmissionInv, NEW t \in Threads, Busy(t), thread[t].at \in {"succeeded", "failed"}
    PROVE  LET row == [claims[Id(t)] EXCEPT !.outcome = Outcome(t)] IN
           /\ row \in ClaimRows /\ row # None /\ Accepts(row, thread[t].call)
           /\ row.actor = claims[Id(t)].actor
           /\ row.outcome = "submitted" <=> thread[t].at = "succeeded"
           /\ row.outcome = "failed" => runs[Id(t)] = None
<1> DEFINE row == [claims[Id(t)] EXCEPT !.outcome = Outcome(t)]
<1>1. claims[Id(t)] \in ClaimRows /\ Accepts(claims[Id(t)], thread[t].call)
  BY BusyCall DEF SubmissionInv, SubmissionTypeOK, ClaimHeld
<1>2. /\ Outcome(t) \in {"submitted", "failed", "failed_reserved"}
      /\ Outcome(t) = "submitted" <=> thread[t].at = "succeeded"
      /\ Outcome(t) = "failed" => runs[Id(t)] = None
  BY DEF Outcome
<1>3. row \in ClaimRows /\ row.outcome = Outcome(t) /\ Accepts(row, thread[t].call)
      /\ row.actor = claims[Id(t)].actor
  BY <1>1, <1>2 DEF ClaimRows, Accepts
<1>4. row # None
  BY <1>3, SubmissionAssumption
<1>5. QED
  BY <1>2, <1>3, <1>4

LEMMA FinishClaimPreserves ==
    ASSUME SubmissionInv, NEW t \in Threads, NEW ok \in BOOLEAN, FinishClaim(t, ok)
    PROVE  SubmissionInv'
<1> DEFINE row == [claims[Id(t)] EXCEPT !.outcome = Outcome(t)]
<1> DEFINE told == IF ~ok THEN "persistence_unknown"
                   ELSE IF thread[t].at = "succeeded" THEN "submitted" ELSE "failed"
<1> DEFINE replied == [at |-> "idle", call |-> thread[t].call, answer |-> told]
<1> USE SubmissionAssumption DEF SubmissionInv
<1>1. Busy(t) /\ thread[t] \in [at: ServicePhases, call: Calls] /\ Id(t) \in RequestIds
  BY BusyCall DEF Busy, FinishClaim
<1>2. /\ thread[t].at \in {"succeeded", "failed"}
      /\ claims' = IF ok THEN [claims EXCEPT ![Id(t)] = row] ELSE claims
      /\ thread' = [thread EXCEPT ![t] = replied]
      /\ UNCHANGED <<runs, registry, launches, leases, crashes>>
  BY DEF FinishClaim, Returns
<1>3. /\ row \in ClaimRows /\ row # None /\ Accepts(row, thread[t].call)
      /\ row.outcome = "submitted" <=> thread[t].at = "succeeded"
      /\ row.outcome = "failed" => runs[Id(t)] = None
  BY <1>1, <1>2, FinishedClaim
<1>4. replied \in [at: {"idle"}, call: Calls, answer: Answers]
  BY <1>1 DEF Answers
<1> HIDE DEF row, replied
<1>5. SubmissionTypeOK'
  BY <1>1, <1>2, <1>3, <1>4 DEF SubmissionTypeOK
<1>6. \A u \in Threads : Busy(u)' => u # t /\ Busy(u) /\ thread'[u] = thread[u] /\ Id(u) # Id(t)
  BY <1>1, <1>2, <1>4 DEF Busy, ClaimHeld, SubmissionTypeOK
<1>7. ClaimHeld'
  BY <1>1, <1>2, <1>6, BusyCall DEF ClaimHeld, SubmissionTypeOK, Id
<1>8. InOrder' /\ PhasesOK'
  BY <1>1, <1>2, <1>3, <1>6 DEF InOrder, PhasesOK, SubmissionTypeOK, Id
<1>9. OutcomesTrue'
  BY <1>1, <1>2, <1>3, <1>5 DEF OutcomesTrue, SubmissionTypeOK, InOrder, PhasesOK
<1>10. ToldTrue'
  <2> SUFFICES ASSUME NEW u \in Threads, Told(u, "submitted")'
               PROVE  /\ Id(u)' \in registry'
                      /\ claims'[Id(u)'] # None /\ claims'[Id(u)'].outcome = "submitted"
                      /\ Accepts(claims'[Id(u)'], thread'[u].call)
    BY DEF ToldTrue, Accepts
  <2>1. CASE u = t
    BY <2>1, <1>1, <1>2, <1>3 DEF Told, replied, Id, PhasesOK, SubmissionTypeOK
  <2>2. CASE u # t
    <3>1. thread'[u] = thread[u] /\ Told(u, "submitted")
      BY <2>2, <1>2 DEF Told, SubmissionTypeOK
    <3>2. Id(u) # Id(t) /\ Id(u) \in registry
      BY <3>1, <1>1 DEF ToldTrue, ClaimHeld
    <3>3. QED
      BY <3>1, <3>2, <1>1, <1>2 DEF ToldTrue, Id, SubmissionTypeOK
  <2>3. QED
    BY <2>1, <2>2
<1>11. QED
  BY <1>5, <1>7, <1>8, <1>9, <1>10

LEMMA CrashPreserves ==
    ASSUME SubmissionInv, ServiceCrash
    PROVE  SubmissionInv'
<1> USE DEF SubmissionInv, ServiceCrash
<1>1. \A t \in Threads : ~Busy(t)' /\ ~Told(t, "submitted")'
  BY DEF Busy, Told, NoCall
<1>2. SubmissionTypeOK'
  BY SubmissionAssumption DEF SubmissionTypeOK
<1>3. ClaimHeld' /\ PhasesOK' /\ ToldTrue'
  BY <1>1 DEF ClaimHeld, PhasesOK, ToldTrue
<1>4. InOrder' /\ OutcomesTrue'
  BY DEF InOrder, OutcomesTrue
<1>5. QED
  BY <1>2, <1>3, <1>4

LEMMA StutterPreserves ==
    ASSUME SubmissionInv, UNCHANGED submissionVars
    PROVE  SubmissionInv'
BY DEF SubmissionInv, submissionVars, SubmissionTypeOK, ClaimHeld, InOrder, PhasesOK, OutcomesTrue,
       ToldTrue, Told, Busy, Id, Accepts

\* What every step of the service preserves, one lemma per step.
LEMMA SubmissionStepPreserves ==
    SubmissionInv /\ [SubmissionNext]_submissionVars => SubmissionInv'
<1> SUFFICES ASSUME SubmissionInv, [SubmissionNext]_submissionVars PROVE SubmissionInv'
  OBVIOUS
<1>1. ASSUME NEW t \in Threads, ThreadStep(t) PROVE SubmissionInv'
  BY <1>1, AdmitPreserves, ReservePreserves, OpenPreserves, RegisterPreserves, PublishPreserves,
     FinishClaimPreserves, LaunchPreserves, ReservedFailurePreserves DEF ThreadStep
<1>2. ASSUME NEW t \in Threads, NEW c \in Calls, Acquire(t, c) \/ Replay(t, c) PROVE SubmissionInv'
  BY <1>2, AcquirePreserves, ReplayPreserves
<1>3. QED
  BY <1>1, <1>2, CrashPreserves, StutterPreserves DEF SubmissionNext

\* The inductive invariant: a request id is worked on by one thread at a time, and what the
\* store, the registry and the gateway hold of it is what its phase or its outcome says.
THEOREM SubmissionInvariant == SubmissionSpec => []SubmissionInv
BY SubmissionStarts, SubmissionStepPreserves, PTL DEF SubmissionSpec

\* For any number of threads, calls and crashes, a request id launches at most one session,
\* "submitted" is told of a live run of the client's own, and no session is left out of sight.
THEOREM SubmissionStaysSound == SubmissionSpec => []SubmissionSound
<1>1. SubmissionInv => SubmissionSound
  <2> SUFFICES ASSUME SubmissionInv PROVE SubmissionSound
    OBVIOUS
  <2> USE DEF SubmissionInv
  <2>1. SubmissionTypeOK /\ LaunchedOnce
    BY DEF InOrder, LaunchedOnce
  <2>2. SubmittedIsLive
    <3> SUFFICES ASSUME NEW t \in Threads, Told(t, "submitted")
                 PROVE  Id(t) \in registry /\ leases[Id(t)] = 1 /\ Accepts(claims[Id(t)], thread[t].call)
      BY DEF SubmittedIsLive
    <3>1. Id(t) \in registry /\ Id(t) \in RequestIds /\ Accepts(claims[Id(t)], thread[t].call)
      BY DEF ToldTrue, SubmissionTypeOK
    <3>2. leases[Id(t)] \in Nat /\ leases[Id(t)] # 0 /\ leases[Id(t)] <= 1
      BY <3>1 DEF InOrder, SubmissionTypeOK
    <3>3. QED
      BY <3>1, <3>2
  <2>3. NoHiddenSession
    <3> SUFFICES ASSUME NEW i \in RequestIds, leases[i] > 0, i \notin registry
                 PROVE  runs[i] # None /\ claims[i].outcome # "failed"
      BY DEF NoHiddenSession
    <3>1. runs[i] # None /\ claims[i] # None
      BY DEF InOrder, SubmissionTypeOK
    <3>2. QED
      BY <3>1 DEF OutcomesTrue
  <2>4. QED
    BY <2>1, <2>2, <2>3 DEF SubmissionSound
<1>2. QED
  BY <1>1, SubmissionInvariant, PTL

\* A claim is given away once: whoever repeats the request, its actor stays, and an outcome
\* that is stored is what every later call is answered from.
THEOREM ClaimsAreFinal == SubmissionSpec => ClaimsFinal
<1> DEFINE Kept == \A i \in RequestIds : claims[i] # None =>
                     /\ claims'[i] # None /\ claims'[i].actor = claims[i].actor
                     /\ claims[i].outcome # None => claims'[i] = claims[i]
<1>1. SubmissionInv /\ [SubmissionNext]_submissionVars => Kept
  <2> SUFFICES ASSUME SubmissionInv, [SubmissionNext]_submissionVars PROVE Kept
    OBVIOUS
  <2>1. CASE UNCHANGED claims
    BY <2>1
  <2>2. ASSUME NEW t \in Threads, NEW c \in Calls, Acquire(t, c) PROVE Kept
    BY <2>2 DEF Acquire, Free, SubmissionInv, SubmissionTypeOK
  <2>3. ASSUME NEW t \in Threads, NEW ok \in BOOLEAN, FinishClaim(t, ok) PROVE Kept
    <3>1. Busy(t) /\ Id(t) \in RequestIds
      BY <2>3, BusyCall DEF FinishClaim, Busy, SubmissionInv
    <3>2. claims[Id(t)] \in ClaimRows /\ claims[Id(t)].outcome = None
      BY <3>1 DEF SubmissionInv, SubmissionTypeOK, ClaimHeld
    <3> DEFINE row == [claims[Id(t)] EXCEPT !.outcome = Outcome(t)]
    <3>3. row # None /\ row.actor = claims[Id(t)].actor
      BY <2>3, <3>1, FinishedClaim DEF FinishClaim
    <3>4. claims' = IF ok THEN [claims EXCEPT ![Id(t)] = row] ELSE claims
      BY <2>3 DEF FinishClaim
    <3> HIDE DEF row
    <3>5. QED
      BY <3>1, <3>2, <3>3, <3>4 DEF SubmissionInv, SubmissionTypeOK
  <2>4. QED
    BY <2>1, <2>2, <2>3
       DEF SubmissionNext, ThreadStep, submissionVars, Replay, Admit, Reserve, Open, Launch, Register,
           Publish, ReservedFailure, ServiceCrash
<1>2. QED
  BY <1>1, SubmissionInvariant, PTL DEF SubmissionSpec, ClaimsFinal

----------------------------------------------------------------------------
(* The managed decision.                                                   *)

\* The numbers of the current run that may have reached the provider: the counted ones,
\* and the held one from the release on.
Progress ==
    session # Absent =>
        /\ session.at = "idle" <=> session.held = Absent
        /\ session.at \notin {"idle", "faulted"} => session.held = session.calls + 1
        /\ \A e \in Executions : reached[session.run][e] > 0 =>
               \/ e <= session.calls
               \/ e = session.held /\ session.at \in {"retain", "decided", "unresolved"}

\* A run that was not opened has reached nothing.
Unopened == \A r \in ServedRuns \ served :
    consumed[r] = {} /\ \A e \in Executions : reached[r][e] = 0

\* The session knows every receipt of the file, so a save loses none; and the receipt of
\* a decision is kept before the decision is.
Receipts ==
    /\ session # Absent /\ attached => file \subseteq session.receipts
    /\ session # Absent /\ session.at \in {"decided", "faulted"} =>
         session.held \in session.receipts /\ (attached => session.held \in file)

BoundaryInv == BoundarySound /\ Progress /\ Unopened /\ Receipts

LEMMA BoundaryInitOK == BoundaryInit => BoundaryInv
BY BoundaryAssumption
DEF BoundaryInit, BoundaryInv, BoundarySound, BoundaryTypeOK, ReachedOnce, ReceiptsComplete,
    Progress, Unopened, Receipts

\* The held attempt has the next number to be counted.
LEMMA HeldNumber ==
    ASSUME BoundaryInv, session # Absent, session.at \notin {"idle", "faulted"}
    PROVE  /\ session.run \in ServedRuns /\ session.calls \in Nat
           /\ session.held \in Executions /\ session.held = session.calls + 1
           /\ session.calls + 1 \in 0..MaxProviderCalls
<1>1. session \in Sessions
  BY DEF BoundaryInv, BoundarySound, BoundaryTypeOK
<1>2. session.held \in Executions /\ session.held = session.calls + 1
  BY <1>1 DEF Sessions, BoundaryInv, Progress
<1>3. QED
  BY <1>1, <1>2, BoundaryAssumption DEF Sessions, Executions

LEMMA BoundaryStepOK == BoundaryInv /\ [BoundaryNext]_boundaryVars => BoundaryInv'
<1> SUFFICES ASSUME BoundaryInv, [BoundaryNext]_boundaryVars PROVE BoundaryInv'
  OBVIOUS
<1> USE BoundaryAssumption
<1>1. ASSUME NEW r \in ServedRuns, OpenSession(r) PROVE BoundaryInv'
  BY <1>1 DEF OpenSession, Sessions, Points, Executions, Releases,
        BoundaryInv, BoundarySound, BoundaryTypeOK, ReachedOnce, ReceiptsComplete, Progress,
        Unopened, Receipts
<1>2. CASE HoldDecision
  <2>1. session \in Sessions /\ session # Absent
    BY <1>2 DEF HoldDecision, At, BoundaryInv, BoundarySound, BoundaryTypeOK
  <2>2. session' \in Sessions
    <3>1. session.calls + 1 \in Executions
      BY <1>2, <2>1 DEF HoldDecision, Sessions, Executions
    <3>2. QED
      BY <1>2, <2>1, <3>1 DEF HoldDecision, Sessions, Points
  <2>3. session' # Absent
    BY <2>2, BoundaryAssumption
  <2>4. /\ session'.run = session.run /\ session'.at = "fences" /\ session'.calls = session.calls
        /\ session'.held = session.calls + 1 /\ session'.receipts = session.receipts
    BY <1>2, <2>1 DEF HoldDecision, At, Sessions
  <2>5. BoundaryTypeOK'
    BY <1>2, <2>1, <2>2, <2>3, <2>4 DEF HoldDecision, Sessions, Executions,
        BoundaryInv, BoundarySound, BoundaryTypeOK, ReachedOnce, ReceiptsComplete, Progress,
        Unopened, Receipts
  <2>6. ReachedOnce' /\ Unopened'
    BY <1>2, <2>1, <2>2, <2>3, <2>4 DEF HoldDecision, Sessions, Executions,
        BoundaryInv, BoundarySound, BoundaryTypeOK, ReachedOnce, ReceiptsComplete, Progress,
        Unopened, Receipts
  <2>7. ReceiptsComplete'
    BY <1>2, <2>1, <2>2, <2>3, <2>4 DEF HoldDecision, Sessions, Executions,
        BoundaryInv, BoundarySound, BoundaryTypeOK, ReachedOnce, ReceiptsComplete, Progress,
        Unopened, Receipts
  <2>8. Progress'
    BY <1>2, <2>1, <2>2, <2>3, <2>4 DEF HoldDecision, Sessions, Executions,
        BoundaryInv, BoundarySound, BoundaryTypeOK, ReachedOnce, ReceiptsComplete, Progress,
        Unopened, Receipts
  <2>9. Receipts'
    BY <1>2, <2>1, <2>2, <2>3, <2>4 DEF HoldDecision, Sessions, Executions,
        BoundaryInv, BoundarySound, BoundaryTypeOK, ReachedOnce, ReceiptsComplete, Progress,
        Unopened, Receipts
  <2>10. QED
    BY <2>5, <2>6, <2>7, <2>8, <2>9 DEF BoundaryInv, BoundarySound
<1>3. CASE Fences
  <2>1. session \in Sessions /\ session # Absent /\ session.at = "fences"
    BY <1>3 DEF Fences, At, BoundaryInv, BoundarySound, BoundaryTypeOK
  <2>2. session' \in Sessions
    BY <1>3, <2>1, BoundaryAssumption
    DEF Fences, At, MovesTo, Refuse, Sessions, Points, Releases, Executions, BoundaryInv, Progress
  <2>3. session' # Absent
    BY <2>2, BoundaryAssumption
  <2>4. /\ session'.run = session.run /\ session'.calls = session.calls
        /\ session'.receipts = session.receipts
        /\ \/ session'.at = "idle" /\ session'.held = Absent
           \/ session'.at \in {"recorded", "release"} /\ session'.held = session.held
    BY <1>3, <2>1 DEF Fences, At, MovesTo, Refuse, Sessions
  <2>5. BoundaryTypeOK'
    BY <1>3, <2>1, <2>2, <2>3, <2>4 DEF Fences, Sessions, Executions,
        BoundaryInv, BoundarySound, BoundaryTypeOK, ReachedOnce, ReceiptsComplete, Progress,
        Unopened, Receipts
  <2>6. ReachedOnce' /\ Unopened'
    BY <1>3, <2>1, <2>2, <2>3, <2>4 DEF Fences, Sessions, Executions,
        BoundaryInv, BoundarySound, BoundaryTypeOK, ReachedOnce, ReceiptsComplete, Progress,
        Unopened, Receipts
  <2>7. ReceiptsComplete'
    BY <1>3, <2>1, <2>2, <2>3, <2>4 DEF Fences, Sessions, Executions,
        BoundaryInv, BoundarySound, BoundaryTypeOK, ReachedOnce, ReceiptsComplete, Progress,
        Unopened, Receipts
  <2>8. Progress'
    BY <1>3, <2>1, <2>2, <2>3, <2>4 DEF Fences, Sessions, Executions,
        BoundaryInv, BoundarySound, BoundaryTypeOK, ReachedOnce, ReceiptsComplete, Progress,
        Unopened, Receipts
  <2>9. Receipts'
    BY <1>3, <2>1, <2>2, <2>3, <2>4 DEF Fences, Sessions, Executions,
        BoundaryInv, BoundarySound, BoundaryTypeOK, ReachedOnce, ReceiptsComplete, Progress,
        Unopened, Receipts
  <2>10. QED
    BY <2>5, <2>6, <2>7, <2>8, <2>9 DEF BoundaryInv, BoundarySound
<1>4. CASE Consume
  <2>1. session \in Sessions /\ session # Absent /\ session.at = "decided"
    BY <1>4 DEF Consume, At, BoundaryInv, BoundarySound, BoundaryTypeOK
  <2>0. /\ session.run \in ServedRuns /\ session.calls \in Nat
        /\ session.held \in Executions /\ session.held = session.calls + 1
        /\ session.calls + 1 \in 0..MaxProviderCalls
    BY <2>1, HeldNumber
  <2>2. session' \in Sessions
    BY <1>4, <2>0, <2>1 DEF Consume, MovesTo, Unresolve, Sessions, Points
  <2>3. session' # Absent
    BY <2>2, BoundaryAssumption
  <2>4. /\ session'.run = session.run /\ session'.receipts = session.receipts
        /\ \/ /\ session'.at = "unresolved" /\ session'.held = session.held
              /\ session'.calls = session.calls /\ consumed' = consumed
           \/ /\ session'.at = "idle" /\ session'.held = Absent
              /\ session'.calls = session.calls + 1
              /\ consumed' = [consumed EXCEPT ![session.run] = @ \cup {session.held}]
           \/ /\ session'.at = "faulted" /\ session'.held = session.held
              /\ session'.calls = session.calls + 1 /\ consumed' = consumed
    BY <1>4, <2>1 DEF Consume, At, MovesTo, Unresolve, Sessions
  <2>a. consumed' \in [ServedRuns -> SUBSET Executions]
    BY <2>0, <2>4 DEF BoundaryInv, BoundarySound, BoundaryTypeOK
  <2>5. BoundaryTypeOK'
    <3>1. UNCHANGED <<attached, file, served, reached>> /\ session'.run = session.run
      BY <1>4, <2>4 DEF Consume
    <3>2. QED
      BY <2>1, <2>2, <2>a, <3>1 DEF BoundaryInv, BoundarySound, BoundaryTypeOK
  <2>6. ReachedOnce' /\ Unopened'
    BY <1>4, <2>0, <2>1, <2>2, <2>3, <2>4 DEF Consume, Sessions, Executions,
        BoundaryInv, BoundarySound, BoundaryTypeOK, ReachedOnce, ReceiptsComplete, Progress,
        Unopened, Receipts
  <2>7. ReceiptsComplete'
    <3>1. ASSUME NEW e \in Executions, e # session'.held, reached[session.run][e] > 0
          PROVE  e \in session.receipts
      <4>1. CASE e = session.held
        BY <2>1, <4>1 DEF BoundaryInv, Receipts
      <4>2. CASE e # session.held
        BY <2>1, <3>1, <4>2 DEF BoundaryInv, BoundarySound, ReceiptsComplete
      <4>3. QED
        BY <4>1, <4>2
    <3>2. ASSUME attached, NEW r \in ServedRuns PROVE consumed'[r] \subseteq file
      <4>1. consumed[r] \subseteq file /\ session.held \in file
        BY <2>1, <3>2 DEF BoundaryInv, BoundarySound, ReceiptsComplete, Receipts
      <4>2. consumed'[r] \subseteq consumed[r] \cup {session.held}
        BY <2>0, <2>4, <3>2 DEF BoundaryInv, BoundarySound, BoundaryTypeOK
      <4>3. QED
        BY <4>1, <4>2
    <3>3. QED
      BY <1>4, <2>4, <3>1, <3>2 DEF Consume, ReceiptsComplete, Executions
  <2>8. Progress'
    BY <1>4, <2>0, <2>1, <2>2, <2>3, <2>4 DEF Consume, Sessions, Executions,
        BoundaryInv, BoundarySound, BoundaryTypeOK, ReachedOnce, ReceiptsComplete, Progress,
        Unopened, Receipts
  <2>9. Receipts'
    BY <1>4, <2>0, <2>1, <2>2, <2>3, <2>4 DEF Consume, Sessions, Executions,
        BoundaryInv, BoundarySound, BoundaryTypeOK, ReachedOnce, ReceiptsComplete, Progress,
        Unopened, Receipts
  <2>10. QED
    BY <2>5, <2>6, <2>7, <2>8, <2>9 DEF BoundaryInv, BoundarySound
<1>5. CASE EndProcess
  BY <1>5 DEF EndProcess, Executions,
        BoundaryInv, BoundarySound, BoundaryTypeOK, ReachedOnce, ReceiptsComplete, Progress,
        Unopened, Receipts
<1>6. ASSUME NEW release \in Releases, Release(release) PROVE BoundaryInv'
  <2>1. session \in Sessions /\ session # Absent /\ session.at = "release"
    BY <1>6 DEF Release, At, BoundaryInv, BoundarySound, BoundaryTypeOK
  <2>0. /\ session.run \in ServedRuns /\ session.calls \in Nat
        /\ session.held \in Executions /\ session.held = session.calls + 1
    BY <2>1, HeldNumber
  <2>2. session' \in Sessions
    BY <1>6, <2>1, BoundaryAssumption
    DEF Release, At, Refuse, CleanRelease, Releases, Sessions, Points, Releases, Executions, BoundaryInv, Progress
  <2>3. session' # Absent
    BY <2>2, BoundaryAssumption
  <2>4. /\ session'.run = session.run /\ session'.receipts = session.receipts
        /\ session'.calls = session.calls
        /\ \/ /\ session'.at = "idle" /\ session'.held = Absent /\ reached' = reached
           \/ /\ session'.at = "retain" /\ session'.held = session.held
              /\ \/ reached' = reached
                 \/ reached' = [reached EXCEPT ![session.run][session.held] = @ + 1]
    BY <1>6, <2>1 DEF Release, At, Refuse, CleanRelease, Releases, Sessions
  <2>a. reached' \in [ServedRuns -> [Executions -> Nat]]
    <3>1. reached \in [ServedRuns -> [Executions -> Nat]]
      BY DEF BoundaryInv, BoundarySound, BoundaryTypeOK
    <3>2. reached[session.run] \in [Executions -> Nat]
      BY <2>0, <3>1
    <3>3. [reached[session.run] EXCEPT ![session.held] = @ + 1] \in [Executions -> Nat]
      BY <2>0, <3>2
    <3>4. QED
      BY <2>0, <2>4, <3>1, <3>3
  <2>b. reached[session.run][session.held] = 0
    BY <2>0, <2>1 DEF BoundaryInv, BoundarySound, BoundaryTypeOK, Progress, Executions
  <2>5. BoundaryTypeOK'
    <3>1. UNCHANGED <<attached, file, served, consumed>> /\ session'.run = session.run
      BY <1>6, <2>4 DEF Release
    <3>2. QED
      BY <2>1, <2>2, <2>a, <3>1 DEF BoundaryInv, BoundarySound, BoundaryTypeOK
  <2>6. ReachedOnce' /\ Unopened'
    <3>1. ASSUME NEW r \in ServedRuns, NEW e \in Executions
          PROVE  \/ reached'[r][e] = reached[r][e]
                 \/ r = session.run /\ reached[r][e] = 0 /\ reached'[r][e] = 1
      BY <2>0, <2>4, <2>b DEF BoundaryInv, BoundarySound, BoundaryTypeOK
    <3>2. session.run \in served
      BY <2>1 DEF BoundaryInv, BoundarySound, BoundaryTypeOK
    <3>3. ReachedOnce'
      BY <3>1 DEF BoundaryInv, BoundarySound, ReachedOnce, Executions
    <3>4. Unopened'
      BY <1>6, <3>1, <3>2 DEF Release, BoundaryInv, Unopened, Executions
    <3>5. QED
      BY <3>3, <3>4
  <2>7. ReceiptsComplete'
    BY <1>6, <2>0, <2>1, <2>2, <2>3, <2>4 DEF Release, Sessions, Executions,
        BoundaryInv, BoundarySound, BoundaryTypeOK, ReachedOnce, ReceiptsComplete, Progress,
        Unopened, Receipts
  <2>8. Progress'
    BY <1>6, <2>0, <2>1, <2>2, <2>3, <2>4 DEF Release, Sessions, Executions,
        BoundaryInv, BoundarySound, BoundaryTypeOK, ReachedOnce, ReceiptsComplete, Progress,
        Unopened, Receipts
  <2>9. Receipts'
    BY <1>6, <2>0, <2>1, <2>2, <2>3, <2>4 DEF Release, Sessions, Executions,
        BoundaryInv, BoundarySound, BoundaryTypeOK, ReachedOnce, ReceiptsComplete, Progress,
        Unopened, Receipts
  <2>10. QED
    BY <2>5, <2>6, <2>7, <2>8, <2>9 DEF BoundaryInv, BoundarySound
<1>7. ASSUME NEW saved \in BOOLEAN, NEW renamed \in BOOLEAN, Retain(saved, renamed)
      PROVE BoundaryInv'
  BY <1>7 DEF Retain, At, Sessions, Points, Executions, Releases,
        BoundaryInv, BoundarySound, BoundaryTypeOK, ReachedOnce, ReceiptsComplete, Progress,
        Unopened, Receipts
<1>8. CASE UNCHANGED boundaryVars
  BY <1>8 DEF boundaryVars, Executions,
        BoundaryInv, BoundarySound, BoundaryTypeOK, ReachedOnce, ReceiptsComplete, Progress,
        Unopened, Receipts
<1>9. QED
  BY <1>1, <1>2, <1>3, <1>4, <1>5, <1>6, <1>7, <1>8 DEF BoundaryNext

\* No decision of a served run is paid for twice and no receipt is lost, for any number
\* of runs and calls (session_boundary.rs, node_decision.rs).
THEOREM BoundaryStaysSound == BoundarySpec => []BoundarySound
<1>1. BoundaryInv => BoundarySound
  BY DEF BoundaryInv
<1>2. QED
  BY BoundaryInitOK, BoundaryStepOK, <1>1, PTL DEF BoundarySpec

----------------------------------------------------------------------------
(* The prepared dispatch.                                                  *)

Settles(l, d) == Written(l, d) \/ d \in l.cancelled

\* What the image once held is in the image and in the ledger rebuilt from it.
SettledKept == \A d \in settled : Settles(ledger, d) /\ Settles(image, d)

\* A pending approval of the current epoch was drafted after the last stop.
PendingFresh ==
    \A d \in Dispatches :
        approvals[d].epoch = stopEpoch /\ approvals[d].state \in {"drafted", "committed_held"}
            => d \in fresh

PreparedInv == PreparedTypeOK /\ ImageTrusted /\ SettledKept /\ PendingFresh

LEMMA PreparedInitOK == PreparedInit => PreparedInv
BY PreparedAssumption
DEF PreparedInit, PreparedInv, PreparedTypeOK, ImageTrusted, SettledKept, PendingFresh, Settles,
    Written, Consistent, EmptyLedger, NotHeld, Ledgers, DispatchStates, NoReceipt

LEMMA PreparedStepOK == PreparedInv /\ [PreparedNext]_preparedVars => PreparedInv'
<1> SUFFICES ASSUME PreparedInv, [PreparedNext]_preparedVars PROVE PreparedInv'
  OBVIOUS
<1> USE PreparedAssumption
    DEF PreparedInv, PreparedTypeOK, ImageTrusted, SettledKept, PendingFresh, Settles, Written,
        Consistent, DispatchStates, Ledgers, NoReceipt
<1>1. ASSUME NEW d \in Dispatches, Draft(d) PROVE PreparedInv'
  BY <1>1 DEF Draft, HeldDispatch
<1>2. ASSUME NEW d \in Dispatches, Commit(d) PROVE PreparedInv'
  <2>1. PICK state \in {"stale", "committed_held"} :
            /\ approvals' = [approvals EXCEPT ![d].state = state]
            /\ state = "committed_held" => approvals[d].epoch = stopEpoch
                                            /\ approvals[d].state = "drafted"
    BY <1>2 DEF Commit, SetState
  <2>2. UNCHANGED <<ledger, image, stopEpoch, fences, writes, settled, fresh, reloads>>
    BY <1>2 DEF Commit
  <2>3. PreparedTypeOK'
    BY <2>1, <2>2
  <2>4. PendingFresh'
    BY <2>1, <2>2
  <2>5. QED
    BY <2>2, <2>3, <2>4
<1>3. ASSUME NEW d \in Dispatches, CancelDispatch(d) PROVE PreparedInv'
  BY <1>3 DEF CancelDispatch, HeldDispatch
<1>4. ASSUME NEW d \in Dispatches, ResumeRefused(d) PROVE PreparedInv'
  BY <1>4 DEF ResumeRefused, HeldDispatch, SetState
<1>5. ASSUME NEW d \in Dispatches, NEW outcome \in WriteOutcomes, ResumeDispatch(d, outcome)
      PROVE PreparedInv'
  BY <1>5 DEF ResumeDispatch, MayResume, SetState, WriteOutcomes
<1>6. CASE RequestStop
  BY <1>6 DEF RequestStop
<1>7. CASE SaveImage
  BY <1>7 DEF SaveImage
<1>8. CASE RestartController
  BY <1>8 DEF RestartController, Restored, NotHeld
<1>9. ASSUME NEW f \in FenceValues, FencesMove(f) PROVE PreparedInv'
  BY <1>9 DEF FencesMove
<1>10. CASE UNCHANGED preparedVars
  BY <1>10 DEF preparedVars
<1>11. QED
  BY <1>1, <1>2, <1>3, <1>4, <1>5, <1>6, <1>7, <1>8, <1>9, <1>10 DEF PreparedNext

LEMMA ReleaseStepOK ==
    ASSUME PreparedInv, [PreparedNext]_preparedVars,
           NEW d \in Dispatches, writes'[d] > writes[d]
    PROVE  d \in fresh \ settled
<1>1. PICK e \in Dispatches : \E outcome \in WriteOutcomes : ResumeDispatch(e, outcome)
  BY DEF PreparedNext, preparedVars, Draft, Commit, CancelDispatch, ResumeRefused, RequestStop,
         SaveImage, RestartController, FencesMove, PreparedInv, PreparedTypeOK
<1>2. e = d
  BY <1>1 DEF ResumeDispatch, PreparedInv, PreparedTypeOK
<1>3. MayResume(d)
  BY <1>1, <1>2 DEF ResumeDispatch
<1>4. QED
  BY <1>3 DEF MayResume, PreparedInv, SettledKept, PendingFresh, Settles

\* Nothing is released twice, after a stop or after a cancellation the image has kept, and
\* every image can be restored, for any identities, stops and restarts (dispatch_resume.rs,
\* dispatch_ledger_durable.rs).
THEOREM PreparedStaysSound == PreparedSpec => PreparedSound
<1>1. PreparedInv => PreparedTypeOK /\ ImageTrusted
  BY DEF PreparedInv
<1>2. PreparedInv /\ [PreparedNext]_preparedVars =>
          [\A d \in Dispatches : writes'[d] > writes[d] => d \in fresh \ settled]_preparedVars
  BY ReleaseStepOK
<1>3. QED
  BY PreparedInitOK, PreparedStepOK, <1>1, <1>2, PTL DEF PreparedSpec, PreparedSound, ReleasedOnce

-----------------------------------------------------------------------------
(* The provider session broker.                                            *)

\* What the profiles know together.
AnyPurpose == {"executable", "evaluation"} \cup UNION {p.purposes : p \in Profiles}
AnyThread == {Nothing} \cup UNION {p.threads : p \in Profiles}
AnyDigest == {Nothing} \cup UNION {p.digests : p \in Profiles}
AnyRef == {Nothing} \cup UNION {p.refs : p \in Profiles}
AnySource == UNION {p.sources : p \in Profiles}

BindingRecords ==
  [state: BindingStates, purpose: AnyPurpose, owner: Nat, session: Nat, history: Nat,
   compaction: Nat, deps: SUBSET AnySource, continuity: AnyDigest, thread: AnyThread,
   items: Nat, capability: BOOLEAN, expired: BOOLEAN]

OpStates == OpOpen \cup {"completed", "unknown", "cancelled", "quarantined"}

OpRecords ==
  [kind: {"create", "reconnect", "refresh", "turn"}, binding: Nat, state: OpStates, owner: Nat,
   evidence: AnyRef]

TurnRecords ==
  [binding: Nat, owner: Nat, auth: Nat, session: Nat, history: Nat, compaction: Nat,
   revocation: Nat, continuity: AnyDigest, deps: SUBSET AnySource, items: Nat]

JobRecords ==
  [binding: Nat, state: JobOpen \cup {"completed", "failed", "cancelled", "unknown"},
   history: Nat, continuity: AnyDigest]

ForkRecords == [source: Nat, target: Nat, history: Nat, continuity: AnyDigest]

BrokerTypes ==
  /\ profile \in Profiles
  /\ owner \in 1..MaxOwner /\ revocation \in 0..MaxRevocation /\ restarts \in 0..MaxRestarts
  /\ bindings \in Seq(BindingRecords) /\ ops \in Seq(OpRecords)
  /\ prepared \in Seq(TurnRecords) /\ jobs \in Seq(JobRecords) /\ forks \in Seq(ForkRecords)
  /\ inflight \in {Nothing} \cup DOMAIN ops

\* A binding row under the owner epoch w: its epochs are within what was given, and the
\* capability is where a binding may dispatch.
RowOK(r, w) ==
  /\ r.owner \in 1..w
  /\ r.session \in 1..MaxSession /\ r.history \in 0..MaxHistory
  /\ r.compaction \in 0..r.history
  /\ r.deps \subseteq Sources /\ r.items \in 0..MaxItems
  /\ r.state \in {"candidate", "retired", "closed"} \/ r.purpose = "evaluation" => ~r.capability
  /\ r.state = "one_shot_pending" => OneShot

OpOK(r) ==
  /\ r.binding \in BindingIds /\ r.owner \in 1..owner
  /\ r.kind = "create" => \A f \in DOMAIN forks : forks[f].target # r.binding
  /\ r.kind = "turn" => bindings[r.binding].purpose # "evaluation"

TurnOK(r) == r.binding \in BindingIds /\ r.auth <= owner /\ r.revocation <= revocation

\* The binding of a job was held once.
JobOK(r) == r.binding \in BindingIds /\ bindings[r.binding].state # "candidate"

ForkOK(r) ==
  r.source \in BindingIds /\ r.target \in BindingIds /\ bindings[r.target].purpose = "evaluation"

BrokerInv ==
  /\ BrokerTypes
  /\ \A b \in BindingIds : RowOK(bindings[b], owner)
  /\ \A o \in DOMAIN ops : OpOK(ops[o])
  /\ \A p \in DOMAIN prepared : TurnOK(prepared[p])
  /\ \A j \in DOMAIN jobs : JobOK(jobs[j])
  /\ \A f \in DOMAIN forks : ForkOK(forks[f])
  /\ \A f, g \in DOMAIN forks : forks[f].target = forks[g].target => f = g
  /\ OneExecutable /\ InflightOpen

LEMMA Bounds ==
  ASSUME NEW p \in Profiles
  PROVE  /\ p.oneShot \in BOOLEAN
         /\ p.owner \in Nat /\ p.owner >= 1 /\ p.session \in Nat /\ p.session >= 1
         /\ p.items \in Nat /\ p.history \in Nat /\ p.revocation \in Nat /\ p.restarts \in Nat
  BY BrokerAssumption

LEMMA BrokerStarts == BrokerInit => BrokerInv
<1> SUFFICES ASSUME BrokerInit PROVE BrokerInv
  OBVIOUS
<1>1. profile \in Profiles
  BY DEF BrokerInit
<1>2. owner \in 1..MaxOwner /\ revocation \in 0..MaxRevocation /\ restarts \in 0..MaxRestarts
  BY <1>1, Bounds DEF BrokerInit, MaxOwner, MaxRevocation, MaxRestarts
<1>3. BrokerTypes
  BY <1>1, <1>2 DEF BrokerInit, BrokerTypes
<1>4. QED
  BY <1>3 DEF BrokerInit, BrokerInv, OneExecutable, InflightOpen, BindingIds

LEMMA BrokerInvSound == BrokerInv => BindingsSound
<1> SUFFICES ASSUME BrokerInv PROVE BindingsSound
  OBVIOUS
<1>1. ASSUME NEW b \in BindingIds
      PROVE  /\ bindings[b].state \in BindingStates
             /\ bindings[b].owner \in 1..owner
             /\ bindings[b].session \in 1..MaxSession /\ bindings[b].history \in 0..MaxHistory
             /\ bindings[b].compaction \in 0..bindings[b].history
             /\ bindings[b].deps \subseteq Sources /\ bindings[b].items \in 0..MaxItems
  <2>1. bindings[b] \in BindingRecords
    BY DEF BrokerInv, BrokerTypes, BindingIds
  <2>2. QED
    BY <2>1 DEF BrokerInv, BindingRecords, RowOK
<1>2. ASSUME NEW o \in DOMAIN ops
      PROVE  /\ ops[o].binding \in BindingIds /\ ops[o].owner \in 1..owner
             /\ ops[o].state \in OpOpen \cup {"completed", "unknown", "cancelled", "quarantined"}
  <2>1. ops[o] \in OpRecords
    BY DEF BrokerInv, BrokerTypes
  <2>2. QED
    BY <2>1 DEF BrokerInv, OpRecords, OpStates, OpOK
<1>3. BrokerTypeOK
  BY <1>1, <1>2 DEF BrokerInv, BrokerTypes, BrokerTypeOK, TurnOK, JobOK, ForkOK
<1>4. QED
  BY <1>3 DEF BrokerInv, BindingsSound

-----------------------------------------------------------------------------
(* What a step may do to the rows, said once for all operations.           *)

\* The row of a binding r becomes n: it neither comes back from retirement nor, within a
\* process, from quarantine, and is not a candidate again.
RowMoved(r, n) ==
  /\ n.purpose = r.purpose /\ RowOK(n, owner')
  /\ n.state = "candidate" => r.state = "candidate"
  /\ r.state \in {"retired", "closed"} => n.state \in {"retired", "closed"}
  /\ restarts' = restarts /\ r.state = "quarantined" => n.state \in {"quarantined", "retired", "closed"}

RowsMove ==
  /\ bindings' \in Seq(BindingRecords) /\ Len(bindings') >= Len(bindings)
  /\ \A b \in BindingIds : RowMoved(bindings[b], bindings'[b])
  /\ \A b \in BindingIds' : b \notin BindingIds => RowOK(bindings'[b], owner')

\* No binding comes to dispatch and none of the candidates is published.
RowQuiet(r, n) ==
  /\ n.capability => r.capability
  /\ n.state \in {"active", "one_shot_pending"} => n.state = r.state
  /\ r.state = "candidate" => n.state # "held"

RowsQuiet ==
  /\ \A b \in BindingIds : RowQuiet(bindings[b], bindings'[b])
  /\ \A b \in BindingIds' : b \notin BindingIds => ~bindings'[b].capability

\* An operation given up stays so, and a completed one is only quarantined.
OpMoved(r, n) ==
  /\ n.kind = r.kind /\ n.binding = r.binding /\ n.owner = r.owner
  /\ r.kind = "turn" /\ (r.state \notin OpOpen \/ r.owner # owner)
       => n.state \in {r.state, "unknown", "quarantined"}
  /\ r.state \in {"cancelled", "quarantined"} => n.state = r.state
  /\ r.state = "completed" /\ n.state = "completed" => n = r

OpsMove ==
  /\ ops' \in Seq(OpRecords) /\ Len(ops') >= Len(ops)
  /\ \A o \in DOMAIN ops : OpMoved(ops[o], ops'[o])
  /\ \A o \in DOMAIN ops' : o \notin DOMAIN ops =>
       /\ ops'[o].binding \in BindingIds' /\ ops'[o].owner \in 1..owner'
       /\ ops'[o].kind = "create" => ops'[o].binding \notin BindingIds /\ forks' = forks
       /\ ops'[o].kind = "turn" => bindings'[ops'[o].binding].purpose # "evaluation"

\* The turn in flight stays open.
OpenStays == \A o \in DOMAIN ops : ops[o].kind = "turn" /\ ops[o].state \in OpOpen => ops'[o].state \in OpOpen

JobsMove ==
  /\ jobs' \in Seq(JobRecords) /\ Len(jobs') >= Len(jobs)
  /\ \A j \in DOMAIN jobs : jobs'[j].binding = jobs[j].binding
  /\ \A j \in DOMAIN jobs' : j \notin DOMAIN jobs =>
       jobs'[j].binding \in BindingIds /\ bindings[jobs'[j].binding].state # "candidate"

ForksMove ==
  \/ forks' = forks
  \/ \E r \in ForkRecords :
       /\ forks' = Append(forks, r) /\ r.source \in BindingIds
       /\ r.target \in BindingIds' /\ r.target \notin BindingIds
       /\ bindings'[r.target].purpose = "evaluation"

TurnsMove ==
  /\ prepared' \in Seq(TurnRecords)
  /\ \A p \in DOMAIN prepared' : /\ prepared'[p].binding \in BindingIds' /\ prepared'[p].auth <= owner'
                                 /\ prepared'[p].revocation <= revocation'

Moves ==
  /\ profile' = profile
  /\ owner' \in 1..MaxOwner /\ owner' >= owner
  /\ revocation' \in 0..MaxRevocation /\ restarts' \in 0..MaxRestarts
  /\ inflight' \in {Nothing} \cup DOMAIN ops'
  /\ RowsMove /\ OpsMove /\ JobsMove /\ ForksMove /\ TurnsMove

LEMMA AppendFacts ==
  ASSUME NEW S, NEW s \in Seq(S), NEW e \in S
  PROVE  /\ Append(s, e) \in Seq(S) /\ Len(Append(s, e)) = Len(s) + 1
         /\ DOMAIN Append(s, e) = 1..(Len(s) + 1) /\ DOMAIN s = 1..Len(s) /\ Len(s) \in Nat
         /\ \A i \in 1..Len(s) : Append(s, e)[i] = s[i]
         /\ Append(s, e)[Len(s) + 1] = e
  OBVIOUS

LEMMA UpdateFacts ==
  ASSUME NEW S, NEW s \in Seq(S), NEW i \in DOMAIN s, NEW e \in S
  PROVE  /\ [s EXCEPT ![i] = e] \in Seq(S) /\ Len([s EXCEPT ![i] = e]) = Len(s)
         /\ DOMAIN [s EXCEPT ![i] = e] = DOMAIN s
         /\ \A k \in DOMAIN s : [s EXCEPT ![i] = e][k] = IF k = i THEN e ELSE s[k]
  OBVIOUS

LEMMA MapFacts ==
  ASSUME NEW S, NEW n \in Nat, NEW t, t = [i \in 1..n |-> t[i]], \A i \in 1..n : t[i] \in S
  PROVE  t \in Seq(S) /\ Len(t) = n /\ DOMAIN t = 1..n
<1>1. t \in [1..n -> S]
  OBVIOUS
<1>2. QED
  BY <1>1

LEMMA Domains ==
  ASSUME NEW S, NEW s \in Seq(S)
  PROVE  Len(s) \in Nat /\ DOMAIN s = 1..Len(s) /\ \A i \in DOMAIN s : s[i] \in S
  OBVIOUS

LEMMA MovesKeep ==
  ASSUME BrokerInv, Moves, OneExecutable', InflightOpen'
  PROVE  BrokerInv'
<1> USE DEF BindingIds
<1>0. /\ bindings \in Seq(BindingRecords) /\ ops \in Seq(OpRecords) /\ jobs \in Seq(JobRecords)
      /\ bindings' \in Seq(BindingRecords) /\ ops' \in Seq(OpRecords) /\ jobs' \in Seq(JobRecords)
      /\ forks \in Seq(ForkRecords) /\ prepared' \in Seq(TurnRecords)
  BY DEF BrokerInv, BrokerTypes, Moves, RowsMove, OpsMove, JobsMove, TurnsMove
<1>1. BindingIds \subseteq BindingIds' /\ DOMAIN ops \subseteq DOMAIN ops' /\ DOMAIN jobs \subseteq DOMAIN jobs'
  BY <1>0 DEF Moves, RowsMove, OpsMove, JobsMove
<1> DEFINE Grown ==
      /\ forks' \in Seq(ForkRecords)
      /\ \A f \in DOMAIN forks' :
           \/ f \in DOMAIN forks /\ forks'[f] = forks[f]
           \/ /\ f = Len(forks) + 1 /\ f \notin DOMAIN forks
              /\ forks'[f].source \in BindingIds
              /\ forks'[f].target \in BindingIds' /\ forks'[f].target \notin BindingIds
              /\ bindings'[forks'[f].target].purpose = "evaluation"
<1>2. Grown
  <2>1. CASE forks' = forks
    BY <1>0, <2>1
  <2>2. ASSUME NEW r \in ForkRecords, forks' = Append(forks, r), r.source \in BindingIds,
               r.target \in BindingIds', r.target \notin BindingIds,
               bindings'[r.target].purpose = "evaluation"
        PROVE  Grown
    <3>1. /\ forks' \in Seq(ForkRecords) /\ DOMAIN forks' = 1..(Len(forks) + 1)
          /\ DOMAIN forks = 1..Len(forks) /\ Len(forks) \in Nat
          /\ \A i \in 1..Len(forks) : forks'[i] = forks[i]
          /\ forks'[Len(forks) + 1] = r
      BY <1>0, <2>2, AppendFacts
    <3>2. QED
      BY <2>2, <3>1
  <2>3. QED
    BY <2>1, <2>2 DEF Moves, ForksMove
<1>3. BrokerTypes'
  BY <1>0, <1>2 DEF BrokerInv, BrokerTypes, Moves, MaxOwner, MaxRevocation, MaxRestarts
<1>4. \A b \in BindingIds' : RowOK(bindings'[b], owner')
  BY DEF Moves, RowsMove, RowMoved
<1>5. \A b \in BindingIds' : RowOK(bindings[b], owner)'
  BY <1>4 DEF Moves, RowOK, MaxSession, MaxHistory, Sources, MaxItems, OneShot
<1>6. \A o \in DOMAIN ops' : OpOK(ops[o])'
  <2> SUFFICES ASSUME NEW o \in DOMAIN ops' PROVE OpOK(ops[o])'
    OBVIOUS
  <2>1. CASE o \in DOMAIN ops
    <3>1. OpOK(ops[o]) /\ OpMoved(ops[o], ops'[o]) /\ ops[o] \in OpRecords
      BY <2>1, <1>0 DEF BrokerInv, Moves, OpsMove
    <3>2. owner \in Nat /\ owner' \in Nat /\ owner' >= owner /\ ops[o].owner \in 1..owner
      <4>1. profile.owner \in Nat
        BY Bounds DEF BrokerInv, BrokerTypes
      <4>2. QED
        BY <3>1, <4>1 DEF BrokerInv, BrokerTypes, Moves, OpOK, MaxOwner
    <3>3. ASSUME ops'[o].kind = "create", NEW f \in DOMAIN forks' PROVE forks'[f].target # ops'[o].binding
      BY <3>1, <3>3, <1>2 DEF OpOK, OpMoved
    <3>4. bindings'[ops[o].binding].purpose = bindings[ops[o].binding].purpose
      BY <3>1 DEF Moves, RowsMove, RowMoved, OpOK
    <3>5. QED
      BY <3>1, <3>2, <3>3, <3>4, <1>1 DEF OpOK, OpMoved
  <2>2. CASE o \notin DOMAIN ops
    <3>1. /\ ops'[o].binding \in BindingIds' /\ ops'[o].owner \in 1..owner'
          /\ ops'[o].kind = "create" => ops'[o].binding \notin BindingIds /\ forks' = forks
          /\ ops'[o].kind = "turn" => bindings'[ops'[o].binding].purpose # "evaluation"
      BY <2>2 DEF Moves, OpsMove
    <3>2. QED
      BY <3>1 DEF BrokerInv, ForkOK, OpOK
  <2>3. QED
    BY <2>1, <2>2
<1>7. \A p \in DOMAIN prepared' : TurnOK(prepared[p])'
  BY DEF Moves, TurnsMove, TurnOK
<1>8. \A j \in DOMAIN jobs' : JobOK(jobs[j])'
  BY <1>0, <1>1 DEF BrokerInv, Moves, JobsMove, JobOK, RowsMove, RowMoved
<1>9. \A f \in DOMAIN forks' : ForkOK(forks[f])'
  BY <1>2, <1>1 DEF BrokerInv, Moves, ForkOK, RowsMove, RowMoved
<1>10. \A f, g \in DOMAIN forks' : forks'[f].target = forks'[g].target => f = g
  BY <1>2 DEF BrokerInv, ForkOK
<1>11. QED
  BY <1>3, <1>5, <1>6, <1>7, <1>8, <1>9, <1>10 DEF BrokerInv

-----------------------------------------------------------------------------
(* The ways in which the operations change each table.                     *)

LEMMA RowsSame ==
  ASSUME BrokerInv, UNCHANGED <<owner, bindings>>
  PROVE  RowsMove /\ RowsQuiet
<1> USE DEF BindingIds
<1>1. bindings \in Seq(BindingRecords)
  BY DEF BrokerInv, BrokerTypes
<1>2. QED
  BY <1>1 DEF BrokerInv, RowsMove, RowsQuiet, RowMoved, RowQuiet

LEMMA RowUpdated ==
  ASSUME BrokerInv, UNCHANGED owner, NEW b \in BindingIds, NEW n \in BindingRecords,
         bindings' = [bindings EXCEPT ![b] = n], RowMoved(bindings[b], n)
  PROVE  RowsMove /\ (RowQuiet(bindings[b], n) => RowsQuiet)
<1> USE DEF BindingIds
<1>1. bindings \in Seq(BindingRecords)
  BY DEF BrokerInv, BrokerTypes
<1>2. /\ bindings' \in Seq(BindingRecords) /\ Len(bindings') = Len(bindings)
      /\ DOMAIN bindings' = DOMAIN bindings
      /\ \A k \in DOMAIN bindings : bindings'[k] = IF k = b THEN n ELSE bindings[k]
  BY <1>1, UpdateFacts
<1>3. Len(bindings) \in Nat
  BY <1>1
<1>4. ASSUME NEW k \in BindingIds, k # b
      PROVE  RowMoved(bindings[k], bindings'[k]) /\ RowQuiet(bindings[k], bindings'[k])
  BY <1>2, <1>4 DEF BrokerInv, RowMoved, RowQuiet
<1>5. QED
  BY <1>2, <1>3, <1>4 DEF RowsMove, RowsQuiet

LEMMA RowAdded ==
  ASSUME BrokerInv, UNCHANGED owner, NEW n \in BindingRecords, RowOK(n, owner),
         bindings' = Append(bindings, n)
  PROVE  /\ RowsMove /\ (~n.capability => RowsQuiet)
         /\ BindingIds' = 1..(Len(bindings) + 1) /\ BindingIds = 1..Len(bindings)
         /\ Len(bindings) \in Nat
         /\ bindings'[Len(bindings) + 1] = n
         /\ \A b \in BindingIds : bindings'[b] = bindings[b]
<1> USE DEF BindingIds
<1>1. bindings \in Seq(BindingRecords)
  BY DEF BrokerInv, BrokerTypes
<1>2. /\ bindings' \in Seq(BindingRecords) /\ Len(bindings') = Len(bindings) + 1
      /\ DOMAIN bindings' = 1..(Len(bindings) + 1) /\ DOMAIN bindings = 1..Len(bindings)
      /\ Len(bindings) \in Nat
      /\ \A k \in 1..Len(bindings) : bindings'[k] = bindings[k]
      /\ bindings'[Len(bindings) + 1] = n
  BY <1>1, AppendFacts
<1>3. ASSUME NEW k \in BindingIds
      PROVE  RowMoved(bindings[k], bindings'[k]) /\ RowQuiet(bindings[k], bindings'[k])
  BY <1>2 DEF BrokerInv, RowMoved, RowQuiet
<1>4. \A k \in BindingIds' : k \notin BindingIds => k = Len(bindings) + 1
  BY <1>2
<1>5. QED
  BY <1>2, <1>3, <1>4 DEF RowsMove, RowsQuiet

LEMMA OpsSame ==
  ASSUME BrokerInv, UNCHANGED ops
  PROVE  OpsMove /\ OpenStays
<1>1. ops \in Seq(OpRecords)
  BY DEF BrokerInv, BrokerTypes
<1>2. QED
  BY <1>1 DEF OpsMove, OpMoved, OpenStays

LEMMA OpUpdated ==
  ASSUME BrokerInv, NEW o \in DOMAIN ops, NEW n \in OpRecords,
         ops' = [ops EXCEPT ![o] = n], OpMoved(ops[o], n)
  PROVE  /\ OpsMove /\ DOMAIN ops' = DOMAIN ops
         /\ (ops[o].kind = "turn" /\ ops[o].state \in OpOpen => n.state \in OpOpen) => OpenStays
<1>1. ops \in Seq(OpRecords)
  BY DEF BrokerInv, BrokerTypes
<1>2. /\ ops' \in Seq(OpRecords) /\ Len(ops') = Len(ops) /\ DOMAIN ops' = DOMAIN ops
      /\ \A k \in DOMAIN ops : ops'[k] = IF k = o THEN n ELSE ops[k]
  BY <1>1, UpdateFacts
<1>3. Len(ops) \in Nat
  BY <1>1
<1>4. ASSUME NEW k \in DOMAIN ops, k # o PROVE OpMoved(ops[k], ops'[k])
  BY <1>2, <1>4 DEF OpMoved
<1>5. QED
  BY <1>2, <1>3, <1>4 DEF OpsMove, OpenStays

LEMMA OpAdded ==
  ASSUME BrokerInv, NEW n \in OpRecords, ops' = Append(ops, n),
         n.binding \in BindingIds', n.owner \in 1..owner',
         n.kind = "create" => n.binding \notin BindingIds /\ forks' = forks,
         n.kind = "turn" => bindings'[n.binding].purpose # "evaluation"
  PROVE  OpsMove /\ OpenStays /\ DOMAIN ops' = 1..(Len(ops) + 1) /\ Len(ops) \in Nat
         /\ ops'[Len(ops) + 1] = n
<1>1. ops \in Seq(OpRecords)
  BY DEF BrokerInv, BrokerTypes
<1>2. /\ ops' \in Seq(OpRecords) /\ Len(ops') = Len(ops) + 1
      /\ DOMAIN ops' = 1..(Len(ops) + 1) /\ DOMAIN ops = 1..Len(ops) /\ Len(ops) \in Nat
      /\ \A k \in 1..Len(ops) : ops'[k] = ops[k]
      /\ ops'[Len(ops) + 1] = n
  BY <1>1, AppendFacts
<1>3. ASSUME NEW k \in DOMAIN ops PROVE OpMoved(ops[k], ops'[k])
  BY <1>2 DEF OpMoved
<1>4. \A k \in DOMAIN ops' : k \notin DOMAIN ops => k = Len(ops) + 1
  BY <1>2
<1>5. QED
  BY <1>2, <1>3, <1>4 DEF OpsMove, OpenStays

LEMMA JobsSame ==
  ASSUME BrokerInv, UNCHANGED jobs
  PROVE  JobsMove
<1>1. jobs \in Seq(JobRecords)
  BY DEF BrokerInv, BrokerTypes
<1>2. QED
  BY <1>1 DEF JobsMove

LEMMA JobUpdated ==
  ASSUME BrokerInv, NEW j \in DOMAIN jobs, NEW n \in JobRecords,
         jobs' = [jobs EXCEPT ![j] = n], n.binding = jobs[j].binding
  PROVE  JobsMove
<1>1. jobs \in Seq(JobRecords)
  BY DEF BrokerInv, BrokerTypes
<1>2. /\ jobs' \in Seq(JobRecords) /\ Len(jobs') = Len(jobs) /\ DOMAIN jobs' = DOMAIN jobs
      /\ \A k \in DOMAIN jobs : jobs'[k] = IF k = j THEN n ELSE jobs[k]
  BY <1>1, UpdateFacts
<1>3. QED
  BY <1>1, <1>2 DEF JobsMove

LEMMA TurnsSame ==
  ASSUME BrokerInv, Len(bindings') >= Len(bindings), bindings' \in Seq(BindingRecords),
         owner' \in Nat, owner' >= owner, revocation' \in Nat, revocation' >= revocation,
         UNCHANGED prepared
  PROVE  TurnsMove
<1>1. prepared \in Seq(TurnRecords) /\ bindings \in Seq(BindingRecords) /\ owner \in Nat /\ revocation \in Nat
  <2>1. profile.owner \in Nat /\ profile.revocation \in Nat
    BY Bounds DEF BrokerInv, BrokerTypes
  <2>2. QED
    BY <2>1 DEF BrokerInv, BrokerTypes, MaxOwner, MaxRevocation
<1>2. BindingIds \subseteq BindingIds'
  BY <1>1 DEF BindingIds
<1>3. ASSUME NEW p \in DOMAIN prepared
      PROVE  /\ prepared[p].binding \in BindingIds' /\ prepared[p].auth <= owner'
             /\ prepared[p].revocation <= revocation'
  <2>1. TurnOK(prepared[p]) /\ prepared[p] \in TurnRecords
    BY <1>1 DEF BrokerInv
  <2>2. prepared[p].auth \in Nat /\ prepared[p].revocation \in Nat
    BY <2>1 DEF TurnRecords
  <2>3. QED
    BY <1>1, <1>2, <2>1, <2>2 DEF TurnOK
<1>4. QED
  BY <1>1, <1>3 DEF TurnsMove

-----------------------------------------------------------------------------
(* What the properties of a step need of it, and the ordinary step.        *)

\* A fork is published for the first time only from a source that is as it was.
PublishedSame ==
  \A f \in DOMAIN forks :
    bindings[forks[f].target].state = "candidate" /\ bindings'[forks[f].target].state = "held" =>
      ~Done(forks[f].source) /\ bindings[forks[f].source].history = forks[f].history

\* What the former owner began is fenced, but for a one-shot binding that was recovered.
FormerFenced ==
  /\ \A b \in BindingIds : Executable(b)' => Recover /\ bindings[b].state = "one_shot_pending"
  /\ \A p \in DOMAIN prepared' : ~Current(p)'
  /\ \A o \in DOMAIN ops : ops'[o].owner # owner'
  /\ \A j \in DOMAIN jobs : jobs'[j].state \notin JobOpen
  /\ \A f \in DOMAIN forks :
       bindings[forks[f].target].state = "candidate"
         => bindings'[forks[f].target].state = "quarantined"

SafeStep ==
  /\ Moves /\ OneExecutable' /\ InflightOpen' /\ PublishedSame
  /\ owner' # owner => FormerFenced
  /\ revocation' # revocation => \A p \in DOMAIN prepared : ~Current(p)'

LEMMA RowOf ==
  ASSUME BrokerInv, NEW b \in BindingIds
  PROVE  bindings[b] \in BindingRecords /\ RowOK(bindings[b], owner)
<1>1. bindings \in Seq(BindingRecords)
  BY DEF BrokerInv, BrokerTypes
<1>2. QED
  BY <1>1 DEF BrokerInv, BindingIds

LEMMA OpOf ==
  ASSUME BrokerInv, NEW o \in DOMAIN ops
  PROVE  ops[o] \in OpRecords /\ ops[o].binding \in BindingIds
<1>1. ops \in Seq(OpRecords)
  BY DEF BrokerInv, BrokerTypes
<1>2. QED
  BY <1>1 DEF BrokerInv, OpOK

LEMMA JobOf ==
  ASSUME BrokerInv, NEW j \in DOMAIN jobs
  PROVE  /\ jobs[j] \in JobRecords /\ jobs[j].binding \in BindingIds
         /\ bindings[jobs[j].binding].state # "candidate"
<1>1. jobs \in Seq(JobRecords)
  BY DEF BrokerInv, BrokerTypes
<1>2. QED
  BY <1>1 DEF BrokerInv, JobOK

LEMMA Numbers ==
  ASSUME BrokerInv
  PROVE  /\ profile \in Profiles /\ OneShot \in BOOLEAN
         /\ owner \in Nat /\ owner >= 1 /\ revocation \in Nat /\ restarts \in Nat
         /\ MaxOwner \in Nat /\ MaxRevocation \in Nat /\ MaxSession \in Nat /\ MaxSession >= 1
         /\ MaxHistory \in Nat /\ MaxItems \in Nat /\ MaxRestarts \in Nat
<1>1. profile \in Profiles
  BY DEF BrokerInv, BrokerTypes
<1>2. QED
  BY <1>1, Bounds DEF BrokerInv, BrokerTypes, MaxOwner, MaxRevocation, MaxSession, MaxHistory, MaxItems,
     MaxRestarts, OneShot

\* Without a new dispatcher there is still at most one, and no candidate was published.
LEMMA QuietAlone ==
  ASSUME BrokerInv, RowsMove, RowsQuiet
  PROVE  OneExecutable' /\ PublishedSame
<1>1. ASSUME NEW b \in BindingIds', Executable(b)' PROVE b \in BindingIds /\ Executable(b)
  BY <1>1 DEF RowsMove, RowsQuiet, RowMoved, RowQuiet, Executable
<1>2. OneExecutable'
  BY <1>1 DEF BrokerInv, OneExecutable
<1>3. \A f \in DOMAIN forks : forks[f].target \in BindingIds
  BY DEF BrokerInv, ForkOK
<1>4. QED
  BY <1>2, <1>3 DEF PublishedSame, RowsQuiet, RowQuiet

\* The turn in flight is over, or is the one it was and still open.
LEMMA InflightStays ==
  ASSUME BrokerInv, OpsMove, UNCHANGED owner, inflight' = Nothing \/ (UNCHANGED inflight /\ OpenStays)
  PROVE  InflightOpen' /\ inflight' \in {Nothing} \cup DOMAIN ops'
<1>1. ops \in Seq(OpRecords) /\ ops' \in Seq(OpRecords) /\ inflight \in {Nothing} \cup DOMAIN ops
  BY DEF BrokerInv, BrokerTypes, OpsMove
<1>2. DOMAIN ops \subseteq DOMAIN ops'
  BY <1>1 DEF OpsMove
<1>3. QED
  BY <1>1, <1>2 DEF BrokerInv, InflightOpen, OpsMove, OpMoved, OpenStays

\* A step that leaves the epochs and the prepared turns alone.
LEMMA OrdinarySafe ==
  ASSUME BrokerInv, UNCHANGED <<profile, owner, revocation, restarts, prepared>>,
         RowsMove, OpsMove, JobsMove, ForksMove,
         inflight' = Nothing \/ (UNCHANGED inflight /\ OpenStays),
         OneExecutable', PublishedSame
  PROVE  SafeStep
<1>1. TurnsMove
  BY Numbers, TurnsSame DEF RowsMove
<1>2. InflightOpen' /\ inflight' \in {Nothing} \cup DOMAIN ops'
  BY InflightStays
<1>3. Moves
  BY <1>1, <1>2, Numbers DEF Moves, BrokerInv, BrokerTypes
<1>4. QED
  BY <1>2, <1>3 DEF SafeStep

LEMMA QuietSafe ==
  ASSUME BrokerInv, UNCHANGED <<profile, owner, revocation, restarts, prepared>>,
         RowsMove, RowsQuiet, OpsMove, JobsMove, ForksMove,
         inflight' = Nothing \/ (UNCHANGED inflight /\ OpenStays)
  PROVE  SafeStep
  BY QuietAlone, OrdinarySafe

-----------------------------------------------------------------------------
(* One lemma per operation.                                                *)

LEMMA CandidateRow ==
  ASSUME BrokerInv, NEW purpose \in AnyPurpose
  PROVE  /\ Candidate(purpose) \in BindingRecords /\ RowOK(Candidate(purpose), owner)
         /\ Candidate(purpose).purpose = purpose /\ ~Candidate(purpose).capability
<1>1. Candidate(purpose) \in BindingRecords
  BY DEF Candidate, BindingRecords, BindingStates, AnyThread, AnyDigest
<1>2. QED
  BY <1>1, Numbers DEF Candidate, RowOK

LEMMA CreateSafe ==
  ASSUME BrokerInv, UNCHANGED profile, NEW purpose \in Purposes, CreateCandidate(purpose)
  PROVE  SafeStep
<1> DEFINE n == Candidate(purpose)
           op == NewOp("create", Len(bindings) + 1, "intent")
<1>0. purpose \in AnyPurpose
  BY DEF AnyPurpose, Purposes, BrokerInv, BrokerTypes
<1>1. /\ RowsMove /\ RowsQuiet
      /\ BindingIds' = 1..(Len(bindings) + 1) /\ BindingIds = 1..Len(bindings) /\ Len(bindings) \in Nat
  BY <1>0, CandidateRow, RowAdded DEF CreateCandidate
<1>2. op \in OpRecords /\ op.binding = Len(bindings) + 1 /\ op.owner = owner /\ op.kind = "create"
  BY <1>1, Numbers DEF NewOp, OpRecords, OpStates, OpOpen, AnyRef
<1>3. OpsMove /\ OpenStays
  <2>1. ops' = Append(ops, op) /\ forks' = forks /\ owner' = owner
    BY DEF CreateCandidate
  <2> HIDE DEF op
  <2>2. QED
    BY <1>1, <1>2, <2>1, OpAdded, Numbers
<1>4. QED
  BY <1>1, <1>3, JobsSame, QuietSafe DEF CreateCandidate, ForksMove

LEMMA CompleteCandidateSafe ==
  ASSUME BrokerInv, UNCHANGED profile, NEW o \in DOMAIN ops, NEW native \in NativeThreads,
         CompleteCandidate(o, native)
  PROVE  SafeStep
<1> DEFINE b == ops[o].binding
           n == [bindings[b] EXCEPT !.state = "held", !.thread = native]
           op == [ops[o] EXCEPT !.state = "completed"]
<1>1. /\ ops[o] \in OpRecords /\ b \in BindingIds /\ bindings[b] \in BindingRecords
      /\ RowOK(bindings[b], owner)
  BY OpOf, RowOf
<1>2. /\ bindings' = [bindings EXCEPT ![b] = n] /\ ops' = [ops EXCEPT ![o] = op]
      /\ UNCHANGED <<owner, revocation, prepared, jobs, forks, inflight, restarts>>
      /\ ops[o].kind = "create" /\ ops[o].state = "intent" /\ bindings[b].state = "candidate"
  BY <1>1 DEF CompleteCandidate, BindingIds
<1>3. native \in AnyThread
  BY DEF AnyThread, NativeThreads, BrokerInv, BrokerTypes
<1>4. n \in BindingRecords /\ op \in OpRecords
  BY <1>1, <1>3 DEF BindingRecords, BindingStates, OpRecords, OpStates
<1>5. RowMoved(bindings[b], n) /\ ~n.capability
  BY <1>1, <1>2 DEF RowMoved, RowOK, BindingRecords
<1>6. OpMoved(ops[o], op)
  BY <1>1, <1>2 DEF OpMoved, OpRecords
<1> HIDE DEF n, op
<1>7. RowsMove
  BY <1>1, <1>2, <1>4, <1>5, RowUpdated
<1>8. OpsMove /\ OpenStays
  BY <1>1, <1>2, <1>4, <1>6, OpUpdated
<1>9. \A k \in BindingIds : bindings'[k] = IF k = b THEN n ELSE bindings[k]
  BY <1>1, <1>2 DEF BindingIds
<1>10. OneExecutable'
  BY <1>1, <1>2, <1>5, <1>9 DEF BrokerInv, OneExecutable, Executable, BindingIds
<1>11. PublishedSame
  BY <1>2, <1>9 DEF BrokerInv, PublishedSame, OpOK, ForkOK
<1>12. QED
  BY <1>2, <1>7, <1>8, <1>10, <1>11, JobsSame, OrdinarySafe DEF ForksMove

LEMMA ReconnectSafe ==
  ASSUME BrokerInv, UNCHANGED profile, NEW b \in BindingIds, Reconnect(b)
  PROVE  SafeStep
<1> DEFINE n == [bindings[b] EXCEPT !.state = "recovering", !.capability = FALSE, !.owner = owner]
           op == NewOp("reconnect", b, "intent")
<1>1. bindings[b] \in BindingRecords /\ RowOK(bindings[b], owner) /\ b \in Nat
  BY RowOf, Domains DEF BrokerInv, BrokerTypes, BindingIds
<1>2. /\ bindings' = [bindings EXCEPT ![b] = n] /\ ops' = Append(ops, op)
      /\ UNCHANGED <<owner, revocation, prepared, jobs, forks, inflight, restarts>>
      /\ bindings[b].state \in {"held", "active", "recovering"}
  BY <1>1 DEF Reconnect, BindingIds
<1>3. n \in BindingRecords
  BY <1>1, Numbers DEF BindingRecords, BindingStates
<1>4. op \in OpRecords /\ op.binding = b /\ op.owner = owner /\ op.kind = "reconnect"
  BY <1>1, Numbers DEF NewOp, OpRecords, OpStates, OpOpen, AnyRef
<1>f. /\ n.state = "recovering" /\ n.capability = FALSE /\ n.owner = owner
      /\ n.purpose = bindings[b].purpose /\ n.session = bindings[b].session
      /\ n.history = bindings[b].history /\ n.compaction = bindings[b].compaction
      /\ n.deps = bindings[b].deps /\ n.items = bindings[b].items
  BY <1>1 DEF BindingRecords
<1> HIDE DEF n, op
<1>5. RowMoved(bindings[b], n) /\ RowQuiet(bindings[b], n)
  BY <1>1, <1>2, <1>f, Numbers DEF RowMoved, RowQuiet, RowOK
<1>6. RowsMove /\ RowsQuiet
  BY <1>2, <1>3, <1>5, RowUpdated
<1>7. b \in BindingIds'
  BY <1>2 DEF BindingIds
<1>8. OpsMove /\ OpenStays
  BY <1>2, <1>4, <1>7, OpAdded, Numbers
<1>9. QED
  BY <1>2, <1>6, <1>8, JobsSame, QuietSafe DEF ForksMove

\* All that RowOK bounds is as it was.
NumbersKept(r, n) ==
  /\ n.purpose = r.purpose /\ n.owner = r.owner /\ n.session = r.session /\ n.history = r.history
  /\ n.compaction = r.compaction /\ n.deps = r.deps /\ n.items = r.items

\* A binding loses the capability and goes to a state that does not dispatch.
LEMMA StateSet ==
  ASSUME BrokerInv, UNCHANGED owner, NEW b \in BindingIds, NEW n \in BindingRecords,
         bindings' = [bindings EXCEPT ![b] = n], NumbersKept(bindings[b], n), ~n.capability,
         n.state \in {"held", "recovering", "quarantined", "retired", "closed", "one_shot_completed"},
         bindings[b].state \in {"retired", "closed"} => n.state \in {"retired", "closed"},
         bindings[b].state = "quarantined" => n.state \in {"quarantined", "retired", "closed"}
  PROVE  RowsMove /\ (bindings[b].state # "candidate" \/ n.state # "held" => RowsQuiet)
<1>1. bindings[b] \in BindingRecords /\ RowOK(bindings[b], owner)
  BY RowOf
<1>2. RowMoved(bindings[b], n)
  BY <1>1 DEF RowMoved, RowOK, NumbersKept
<1>3. bindings[b].state # "candidate" \/ n.state # "held" => RowQuiet(bindings[b], n)
  BY DEF RowQuiet
<1>4. QED
  BY <1>2, <1>3, RowUpdated

LEMMA RecoveringRows ==
  ASSUME BrokerInv, UNCHANGED owner, NEW b \in BindingIds, bindings' = Recovering(b)
  PROVE  RowsMove /\ RowsQuiet
<1>1. CASE Fenced(b)
  BY <1>1, RowsSame DEF Recovering
<1>2. CASE ~Fenced(b)
  <2> DEFINE n == [bindings[b] EXCEPT !.state = "recovering", !.capability = FALSE]
  <2>1. bindings[b] \in BindingRecords
    BY RowOf
  <2>2. bindings' = [bindings EXCEPT ![b] = n]
    BY <1>2, <2>1 DEF Recovering, BindingIds
  <2>3. n \in BindingRecords /\ n.state = "recovering" /\ ~n.capability /\ NumbersKept(bindings[b], n)
    BY <2>1 DEF BindingRecords, BindingStates, NumbersKept
  <2> HIDE DEF n
  <2>4. QED
    BY <1>2, <2>2, <2>3, StateSet DEF Fenced, Done
<1>3. QED
  BY <1>1, <1>2

\* An operation takes a state and evidence.
OpPut(o, s, e) == [ops EXCEPT ![o] = [ops[o] EXCEPT !.state = s, !.evidence = e]]

LEMMA OpSet ==
  ASSUME BrokerInv, NEW o \in DOMAIN ops, NEW s \in OpStates, NEW e \in AnyRef,
         ops' = OpPut(o, s, e),
         ops[o].kind = "turn" /\ (ops[o].state \notin OpOpen \/ ops[o].owner # owner)
            => s \in {ops[o].state, "unknown", "quarantined"},
         ops[o].state \in {"cancelled", "quarantined"} => s = ops[o].state,
         ops[o].state = "completed" => s # "completed"
  PROVE  /\ OpsMove /\ DOMAIN ops' = DOMAIN ops
         /\ (ops[o].kind = "turn" /\ ops[o].state \in OpOpen => s \in OpOpen) => OpenStays
<1> DEFINE n == [ops[o] EXCEPT !.state = s, !.evidence = e]
<1>1. ops[o] \in OpRecords
  BY OpOf
<1>2. /\ n \in OpRecords /\ n.state = s /\ n.kind = ops[o].kind /\ n.binding = ops[o].binding
      /\ n.owner = ops[o].owner
  BY <1>1 DEF OpRecords
<1> HIDE DEF n
<1>3. ops' = [ops EXCEPT ![o] = n]
  BY DEF n, OpPut
<1>4. OpMoved(ops[o], n)
  BY <1>2 DEF OpMoved
<1>5. QED
  BY <1>2, <1>3, <1>4, OpUpdated

\* The same when only the state changes.
LEMMA OpStateSet ==
  ASSUME BrokerInv, NEW o \in DOMAIN ops, NEW s,
         ops' = [ops EXCEPT ![o].state = s]
  PROVE  ops' = OpPut(o, s, ops[o].evidence)
         /\ ops[o].evidence \in AnyRef
<1>1. ops[o] \in OpRecords
  BY OpOf
<1>2. [ops[o] EXCEPT !.state = s, !.evidence = ops[o].evidence] = [ops[o] EXCEPT !.state = s]
  BY <1>1 DEF OpRecords
<1>3. QED
  BY <1>1, <1>2 DEF OpRecords, OpPut

LEMMA CompleteReconnectSafe ==
  ASSUME BrokerInv, UNCHANGED profile, NEW o \in DOMAIN ops, NEW continuity \in Digests,
         CompleteReconnect(o, continuity)
  PROVE  SafeStep
<1> DEFINE b == ops[o].binding
           n == Reconnected(bindings[b], continuity)
<1>1. /\ ops[o] \in OpRecords /\ b \in BindingIds /\ bindings[b] \in BindingRecords
      /\ RowOK(bindings[b], owner)
  BY OpOf, RowOf
<1>2. /\ bindings' = [bindings EXCEPT ![b] = n] /\ ops' = [ops EXCEPT ![o].state = "completed"]
      /\ UNCHANGED <<owner, revocation, prepared, jobs, forks, inflight, restarts>>
      /\ ops[o].kind = "reconnect" /\ ops[o].state = "intent"
      /\ bindings[b].state \in {"held", "active", "recovering"} /\ bindings[b].session < MaxSession
  BY <1>1 DEF CompleteReconnect, BindingIds
<1>3. continuity \in AnyDigest
  BY DEF AnyDigest, Digests, BrokerInv, BrokerTypes
<1>4. /\ n \in BindingRecords
      /\ n.state = "held" /\ n.capability = bindings[b].capability /\ n.owner = owner
      /\ n.purpose = bindings[b].purpose /\ n.session = bindings[b].session + 1
      /\ n.history = bindings[b].history /\ n.compaction = bindings[b].compaction
      /\ n.deps = bindings[b].deps /\ n.items = bindings[b].items
  <2>1. owner \in Nat /\ bindings[b].session + 1 \in Nat
    BY <1>1, Numbers DEF BindingRecords
  <2>2. n \in BindingRecords
    BY <1>1, <1>3, <2>1 DEF BindingRecords, BindingStates, Reconnected
  <2>3. QED
    BY <1>1, <2>1, <2>2 DEF BindingRecords, Reconnected
<1> HIDE DEF n
<1>5. RowMoved(bindings[b], n) /\ RowQuiet(bindings[b], n)
  <2>1. bindings[b].session \in Nat
    BY <1>1 DEF BindingRecords
  <2>2. QED
    BY <1>1, <1>2, <1>4, <2>1, Numbers DEF RowMoved, RowQuiet, RowOK
<1>7. RowsMove /\ RowsQuiet
  BY <1>1, <1>2, <1>4, <1>5, RowUpdated
<1>8. OpsMove /\ OpenStays
  <2>1. /\ ops' = OpPut(o, "completed", ops[o].evidence)
        /\ ops[o].evidence \in AnyRef /\ "completed" \in OpStates
    BY <1>2, OpStateSet DEF OpStates
  <2>2. QED
    BY <1>2, <2>1, OpSet
<1>9. QED
  BY <1>2, <1>7, <1>8, JobsSame, QuietSafe DEF ForksMove

LEMMA RefreshSafe ==
  ASSUME BrokerInv, UNCHANGED profile, NEW b \in BindingIds, NEW items \in 0..MaxItems,
         RefreshHistory(b, items)
  PROVE  SafeStep
<1> DEFINE n == [bindings[b] EXCEPT !.items = items, !.history = @ + 1]
           op == NewOp("refresh", b, "completed")
<1>1. bindings[b] \in BindingRecords /\ RowOK(bindings[b], owner) /\ b \in Nat
  BY RowOf, Domains DEF BrokerInv, BrokerTypes, BindingIds
<1>2. /\ bindings' = [bindings EXCEPT ![b] = n] /\ ops' = Append(ops, op)
      /\ UNCHANGED <<owner, revocation, prepared, jobs, forks, inflight, restarts>>
      /\ bindings[b].history < MaxHistory
  BY <1>1 DEF RefreshHistory, BindingIds
<1>3. /\ n \in BindingRecords /\ n.state = bindings[b].state /\ n.capability = bindings[b].capability
      /\ n.owner = bindings[b].owner /\ n.purpose = bindings[b].purpose
      /\ n.session = bindings[b].session /\ n.history = bindings[b].history + 1
      /\ n.compaction = bindings[b].compaction /\ n.deps = bindings[b].deps /\ n.items = items
  <2>1. bindings[b].history + 1 \in Nat /\ items \in Nat
    BY <1>1, Numbers DEF BindingRecords
  <2>2. n \in BindingRecords
    BY <1>1, <2>1 DEF BindingRecords
  <2>3. QED
    BY <1>1, <2>1, <2>2 DEF BindingRecords
<1>4. op \in OpRecords /\ op.binding = b /\ op.owner = owner /\ op.kind = "refresh"
  BY <1>1, Numbers DEF NewOp, OpRecords, OpStates, OpOpen, AnyRef
<1> HIDE DEF n, op
<1>5. RowMoved(bindings[b], n) /\ RowQuiet(bindings[b], n)
  <2>1. bindings[b].history \in Nat /\ bindings[b].compaction \in Nat
    BY <1>1 DEF BindingRecords
  <2>2. QED
    <3>0. n.capability <=> bindings[b].capability
      BY <1>3
    <3>1. n.history \in 0..MaxHistory /\ n.compaction \in 0..n.history /\ n.items \in 0..MaxItems
      <4>1. /\ MaxHistory \in Nat /\ bindings[b].history < MaxHistory
            /\ bindings[b].compaction \in 0..bindings[b].history
            /\ n.history = bindings[b].history + 1 /\ n.compaction = bindings[b].compaction
        BY <1>1, <1>2, <1>3, Numbers DEF RowOK
      <4>2. n.items \in 0..MaxItems
        BY <1>3
      <4>3. QED
        BY <2>1, <4>1, <4>2
    <3>3. n.state \in {"candidate", "retired", "closed"} \/ n.purpose = "evaluation" => ~n.capability
      BY <1>1, <1>3, <3>0 DEF RowOK
    <3>4. RowOK(n, owner)
      BY <1>1, <1>3, <3>1, <3>3 DEF RowOK
    <3>2. QED
      BY <1>2, <1>3, <3>4 DEF RowMoved, RowQuiet
<1>6. RowsMove /\ RowsQuiet
  BY <1>2, <1>3, <1>5, RowUpdated
<1>7. b \in BindingIds'
  BY <1>2 DEF BindingIds
<1>8. OpsMove /\ OpenStays
  BY <1>2, <1>4, <1>7, OpAdded, Numbers
<1>9. QED
  BY <1>2, <1>6, <1>8, JobsSame, QuietSafe DEF ForksMove

LEMMA AdmitOneShotSafe ==
  ASSUME BrokerInv, UNCHANGED profile, AdmitOneShotBinding
  PROVE  SafeStep
<1> DEFINE n == [Candidate("executable") EXCEPT !.state = "one_shot_pending", !.capability = TRUE,
                                                !.owner = owner]
<1>1. n \in BindingRecords /\ RowOK(n, owner)
  <2>1. Candidate("executable") \in BindingRecords /\ RowOK(Candidate("executable"), owner)
    BY CandidateRow DEF AnyPurpose
  <2>2. /\ n \in BindingRecords /\ n.state = "one_shot_pending" /\ n.owner = owner
        /\ n.purpose = "executable" /\ n.session = 1 /\ n.history = 0 /\ n.compaction = 0
        /\ n.deps = {} /\ n.items = 0
    BY <2>1, Numbers DEF BindingRecords, BindingStates, Candidate
  <2> HIDE DEF n
  <2>3. QED
    BY <2>2, Numbers DEF RowOK, AdmitOneShotBinding
<1> HIDE DEF n
<1>2. /\ bindings' = Append(bindings, n) /\ \A b \in BindingIds : ~Executable(b)
      /\ UNCHANGED <<owner, revocation, ops, prepared, jobs, forks, inflight, restarts>>
  BY DEF AdmitOneShotBinding, n
<1>3. /\ RowsMove /\ BindingIds' = 1..(Len(bindings) + 1) /\ BindingIds = 1..Len(bindings)
      /\ Len(bindings) \in Nat /\ \A b \in BindingIds : bindings'[b] = bindings[b]
  BY <1>1, <1>2, RowAdded
<1>4. \A b \in BindingIds : ~Executable(b)'
  BY <1>2, <1>3 DEF Executable
<1>5. OneExecutable'
  BY <1>3, <1>4 DEF OneExecutable
<1>6. PublishedSame
  BY <1>3 DEF BrokerInv, ForkOK, PublishedSame
<1>7. QED
  BY <1>2, <1>3, <1>5, <1>6, OpsSame, JobsSame, OrdinarySafe DEF ForksMove

LEMMA ResumeSafe ==
  ASSUME BrokerInv, UNCHANGED profile, NEW b \in BindingIds, ExplicitResume(b)
  PROVE  SafeStep
<1> DEFINE n == [bindings[b] EXCEPT !.state = "active", !.capability = TRUE]
<1>1. bindings[b] \in BindingRecords /\ RowOK(bindings[b], owner)
  BY RowOf
<1>2. /\ bindings' = [bindings EXCEPT ![b] = n] /\ Alone(b)
      /\ bindings[b].state = "held" /\ bindings[b].purpose # "evaluation"
      /\ UNCHANGED <<owner, revocation, ops, prepared, jobs, forks, inflight, restarts>>
  BY <1>1 DEF ExplicitResume, BindingIds
<1>3. /\ n \in BindingRecords /\ n.state = "active" /\ NumbersKept(bindings[b], n)
  BY <1>1 DEF BindingRecords, BindingStates, NumbersKept
<1> HIDE DEF n
<1>4. RowMoved(bindings[b], n)
  BY <1>1, <1>2, <1>3 DEF RowMoved, RowOK, NumbersKept
<1>5. RowsMove
  BY <1>2, <1>3, <1>4, RowUpdated
<1>6. BindingIds' = BindingIds /\ \A k \in BindingIds : bindings'[k] = IF k = b THEN n ELSE bindings[k]
  BY <1>2 DEF BindingIds
<1>7. OneExecutable'
  BY <1>2, <1>6 DEF Alone, OneExecutable, Executable
<1>8. PublishedSame
  BY <1>2, <1>3, <1>6 DEF BrokerInv, ForkOK, PublishedSame
<1>9. QED
  BY <1>2, <1>5, <1>7, <1>8, OpsSame, JobsSame, OrdinarySafe DEF ForksMove

LEMMA PrepareSafe ==
  ASSUME BrokerInv, UNCHANGED profile, NEW b \in BindingIds, PrepareTurn(b)
  PROVE  SafeStep
<1> DEFINE t == [binding |-> b, owner |-> bindings[b].owner, auth |-> owner,
                 session |-> bindings[b].session, history |-> bindings[b].history,
                 compaction |-> bindings[b].compaction, revocation |-> revocation,
                 continuity |-> bindings[b].continuity, deps |-> bindings[b].deps,
                 items |-> bindings[b].items]
<1>1. bindings[b] \in BindingRecords /\ b \in Nat
  BY RowOf, Domains DEF BrokerInv, BrokerTypes, BindingIds
<1>2. t \in TurnRecords /\ t.binding = b /\ t.auth = owner /\ t.revocation = revocation
  BY <1>1, Numbers DEF TurnRecords, BindingRecords
<1>3. /\ prepared' = Append(prepared, t)
      /\ UNCHANGED <<owner, revocation, bindings, ops, jobs, forks, inflight, restarts>>
  BY DEF PrepareTurn
<1> HIDE DEF t
<1>4. RowsMove /\ RowsQuiet /\ OpsMove /\ OpenStays /\ JobsMove /\ ForksMove
  BY <1>3, RowsSame, OpsSame, JobsSame DEF ForksMove
<1>5. TurnsMove
  <2>1. prepared \in Seq(TurnRecords)
    BY DEF BrokerInv, BrokerTypes
  <2>2. /\ prepared' \in Seq(TurnRecords) /\ DOMAIN prepared' = 1..(Len(prepared) + 1)
        /\ DOMAIN prepared = 1..Len(prepared) /\ Len(prepared) \in Nat
        /\ \A i \in 1..Len(prepared) : prepared'[i] = prepared[i]
        /\ prepared'[Len(prepared) + 1] = t
    BY <1>2, <1>3, <2>1, AppendFacts
  <2>3. ASSUME NEW p \in DOMAIN prepared'
        PROVE  /\ prepared'[p].binding \in BindingIds /\ prepared'[p].auth <= owner
               /\ prepared'[p].revocation <= revocation
    <3>1. CASE p \in DOMAIN prepared
      BY <2>2, <3>1 DEF BrokerInv, TurnOK
    <3>2. CASE p = Len(prepared) + 1
      BY <1>2, <2>2, <3>2, Numbers
    <3>3. QED
      BY <2>2, <3>1, <3>2
  <2>4. BindingIds' = BindingIds
    BY <1>3 DEF BindingIds
  <2>5. QED
    BY <1>3, <2>2, <2>3, <2>4 DEF TurnsMove
<1>6. InflightOpen' /\ inflight' \in {Nothing} \cup DOMAIN ops'
  BY <1>3, <1>4, InflightStays
<1>7. Moves
  BY <1>3, <1>4, <1>5, <1>6, Numbers DEF Moves, BrokerInv, BrokerTypes
<1>8. QED
  BY <1>3, <1>4, <1>6, <1>7, QuietAlone DEF SafeStep

LEMMA AdmitSafe ==
  ASSUME BrokerInv, UNCHANGED profile, NEW p \in DOMAIN prepared, AdmitTurn(p)
  PROVE  SafeStep
<1> DEFINE b == prepared[p].binding
           op == NewOp("turn", b, "intent")
<1>1. b \in BindingIds /\ b \in Nat
  BY Domains DEF BrokerInv, TurnOK, BrokerTypes, BindingIds
<1>2. /\ op \in OpRecords /\ op.binding = b /\ op.owner = owner /\ op.kind = "turn"
      /\ op.state = "intent"
  BY <1>1, Numbers DEF NewOp, OpRecords, OpStates, OpOpen, AnyRef
<1>3. /\ ops' = Append(ops, op) /\ inflight' = Len(ops) + 1
      /\ UNCHANGED <<owner, revocation, bindings, prepared, jobs, forks, restarts>>
  BY DEF AdmitTurn
<1> HIDE DEF op
<1>4. RowsMove /\ RowsQuiet /\ JobsMove /\ ForksMove
  BY <1>3, RowsSame, JobsSame DEF ForksMove
<1>5. b \in BindingIds' /\ bindings'[b].purpose # "evaluation"
  BY <1>1, <1>3, RowOf DEF BindingIds, AdmitTurn, TurnAdmissible, RowOK
<1>6. /\ OpsMove /\ DOMAIN ops' = 1..(Len(ops) + 1) /\ Len(ops) \in Nat
      /\ ops'[Len(ops) + 1] = op
  BY <1>2, <1>3, <1>5, OpAdded, Numbers
<1>7. InflightOpen' /\ inflight' \in {Nothing} \cup DOMAIN ops'
  BY <1>2, <1>3, <1>6 DEF InflightOpen, OpOpen
<1>8. TurnsMove
  BY <1>3, <1>4, TurnsSame, Numbers DEF RowsMove
<1>9. Moves
  BY <1>3, <1>4, <1>6, <1>7, <1>8, Numbers DEF Moves, BrokerInv, BrokerTypes
<1>10. QED
  BY <1>3, <1>4, <1>7, <1>9, QuietAlone DEF SafeStep

LEMMA MarkSentSafe ==
  ASSUME BrokerInv, UNCHANGED profile, NEW o \in DOMAIN ops, MarkSent(o)
  PROVE  SafeStep
<1>1. /\ ops' = OpPut(o, "sent", ops[o].evidence) /\ ops[o].evidence \in AnyRef
      /\ "sent" \in OpStates /\ "sent" \in OpOpen
  BY OpStateSet DEF MarkSent, OpStates, OpOpen
<1>2. /\ UNCHANGED <<owner, revocation, bindings, prepared, jobs, forks, inflight, restarts>>
      /\ ops[o].state = "intent" /\ ops[o].owner = owner
  BY DEF MarkSent, Answerable
<1>3. OpsMove /\ OpenStays
  BY <1>1, <1>2, OpSet DEF OpOpen
<1>4. QED
  BY <1>2, <1>3, RowsSame, JobsSame, QuietSafe DEF ForksMove

LEMMA RefKnown ==
  ASSUME BrokerInv, NEW ref \in Refs
  PROVE  ref \in AnyRef
  BY DEF AnyRef, Refs, BrokerInv, BrokerTypes

\* The form in which the operations write it.
LEMMA OpPutForm ==
  ASSUME BrokerInv, NEW o \in DOMAIN ops, NEW s, NEW e,
         ops' = [ops EXCEPT ![o].state = s, ![o].evidence = e]
  PROVE  ops' = OpPut(o, s, e)
  BY OpOf DEF OpPut, OpRecords

LEMMA AcknowledgeSafe ==
  ASSUME BrokerInv, UNCHANGED profile, NEW o \in DOMAIN ops, NEW ref \in Refs, Acknowledge(o, ref)
  PROVE  SafeStep
<1>1. ops' = OpPut(o, "acknowledged", ref) /\ ref \in AnyRef /\ "acknowledged" \in OpStates
      /\ "acknowledged" \in OpOpen
  BY OpPutForm, RefKnown DEF Acknowledge, OpStates, OpOpen
<1>2. /\ UNCHANGED <<owner, revocation, bindings, prepared, jobs, forks, inflight, restarts>>
      /\ ops[o].state \in {"sent", "acknowledged"} /\ ops[o].owner = owner
  BY DEF Acknowledge, Answerable
<1>3. OpsMove /\ OpenStays
  BY <1>1, <1>2, OpSet DEF OpOpen
<1>4. QED
  BY <1>2, <1>3, RowsSame, JobsSame, QuietSafe DEF ForksMove

LEMMA CompleteTurnSafe ==
  ASSUME BrokerInv, UNCHANGED profile, NEW o \in DOMAIN ops, NEW ref \in Refs, CompleteTurn(o, ref)
  PROVE  SafeStep
<1> DEFINE b == ops[o].binding
           n == TurnDone(bindings[b])
<1>1. b \in BindingIds /\ bindings[b] \in BindingRecords /\ RowOK(bindings[b], owner)
  BY OpOf, RowOf
<1>2. /\ bindings' = [bindings EXCEPT ![b] = n] /\ inflight' = Nothing
      /\ UNCHANGED <<owner, revocation, prepared, jobs, forks, restarts>>
      /\ ops[o].state \in {"sent", "acknowledged"} /\ ops[o].owner = owner
      /\ bindings[b].items < MaxItems
  BY <1>1 DEF CompleteTurn, Answerable, BindingIds
<1>3. ops' = OpPut(o, "completed", ref) /\ ref \in AnyRef /\ "completed" \in OpStates
  BY OpPutForm, RefKnown DEF CompleteTurn, OpStates, OpOpen
<1>4. OpsMove
  BY <1>2, <1>3, OpSet DEF OpOpen
<1>5. /\ n \in BindingRecords /\ n.purpose = bindings[b].purpose /\ n.owner = bindings[b].owner
      /\ n.session = bindings[b].session /\ n.history = bindings[b].history
      /\ n.compaction = bindings[b].compaction /\ n.deps = bindings[b].deps
      /\ n.items = bindings[b].items + 1
      /\ n.capability => bindings[b].capability
      /\ \/ n.state = bindings[b].state
         \/ bindings[b].state = "one_shot_pending" /\ n.state = "one_shot_completed"
  <2>1. bindings[b].items + 1 \in Nat
    BY <1>1 DEF BindingRecords
  <2>2. CASE bindings[b].state = "one_shot_pending"
    <3>1. n = [bindings[b] EXCEPT !.state = "one_shot_completed", !.capability = FALSE, !.items = @ + 1]
      BY <2>2 DEF TurnDone
    <3>2. n \in BindingRecords
      BY <1>1, <2>1, <3>1 DEF BindingRecords, BindingStates
    <3>3. QED
      BY <1>1, <2>1, <2>2, <3>1, <3>2 DEF BindingRecords
  <2>3. CASE bindings[b].state # "one_shot_pending"
    <3>1. n = [bindings[b] EXCEPT !.items = @ + 1]
      BY <2>3 DEF TurnDone
    <3>2. n \in BindingRecords
      BY <1>1, <2>1, <3>1 DEF BindingRecords
    <3>3. QED
      BY <1>1, <2>1, <3>1, <3>2 DEF BindingRecords
  <2>4. QED
    BY <2>2, <2>3
<1> HIDE DEF n
<1>6. RowMoved(bindings[b], n) /\ RowQuiet(bindings[b], n)
  <2>1. n.items \in 0..MaxItems
    BY <1>1, <1>2, <1>5, Numbers DEF BindingRecords
  <2>2. RowOK(n, owner)
    BY <1>1, <1>5, <2>1 DEF RowOK
  <2>3. QED
    BY <1>2, <1>5, <2>2 DEF RowMoved, RowQuiet
<1>7. RowsMove /\ RowsQuiet
  BY <1>1, <1>2, <1>5, <1>6, RowUpdated
<1>8. QED
  BY <1>2, <1>4, <1>7, JobsSame, QuietSafe DEF ForksMove

LEMMA QuarantineSafe ==
  ASSUME BrokerInv, UNCHANGED profile, NEW o \in DOMAIN ops, NEW ref \in Refs, Quarantine(o, ref),
         ops[o].state \notin {"cancelled", "quarantined"}
  PROVE  SafeStep
<1> DEFINE b == ops[o].binding
<1>1. b \in BindingIds /\ bindings[b] \in BindingRecords
  BY OpOf, RowOf
<1>2. /\ inflight' = Nothing /\ UNCHANGED <<owner, revocation, prepared, jobs, forks, restarts>>
  BY DEF Quarantine
<1>3. ops' = OpPut(o, "quarantined", ref) /\ ref \in AnyRef /\ "quarantined" \in OpStates
  BY OpPutForm, RefKnown DEF Quarantine, OpStates, OpOpen
<1>4. OpsMove
  BY <1>3, OpSet
<1>5. RowsMove /\ RowsQuiet
  <2>1. CASE Done(b)
    BY <1>2, <2>1, RowsSame DEF Quarantine
  <2>2. CASE ~Done(b)
    <3> DEFINE n == [bindings[b] EXCEPT !.state = "quarantined", !.capability = FALSE]
    <3>1. bindings' = [bindings EXCEPT ![b] = n]
      BY <1>1, <2>2 DEF Quarantine, BindingIds
    <3>2. n \in BindingRecords /\ n.state = "quarantined" /\ ~n.capability /\ NumbersKept(bindings[b], n)
      BY <1>1 DEF BindingRecords, BindingStates, NumbersKept
    <3> HIDE DEF n
    <3>3. QED
      BY <1>1, <1>2, <2>2, <3>1, <3>2, StateSet DEF Done
  <2>3. QED
    BY <2>1, <2>2
<1>6. QED
  BY <1>2, <1>4, <1>5, JobsSame, QuietSafe DEF ForksMove

LEMMA MarkUnknownSafe ==
  ASSUME BrokerInv, UNCHANGED profile, NEW o \in DOMAIN ops, MarkUnknown(o)
  PROVE  SafeStep
<1>1. /\ ops' = OpPut(o, "unknown", ops[o].evidence) /\ ops[o].evidence \in AnyRef
      /\ "unknown" \in OpStates
  BY OpStateSet DEF MarkUnknown, OpStates
<1>2. /\ inflight' = Nothing /\ UNCHANGED <<owner, revocation, prepared, jobs, forks, restarts>>
      /\ ops[o].state \in OpOpen /\ bindings' = Recovering(ops[o].binding)
  BY DEF MarkUnknown
<1>3. OpsMove
  BY <1>1, <1>2, OpSet DEF OpOpen
<1>4. RowsMove /\ RowsQuiet
  BY <1>2, OpOf, RecoveringRows
<1>5. QED
  BY <1>2, <1>3, <1>4, JobsSame, QuietSafe DEF ForksMove

LEMMA InterruptSafe ==
  ASSUME BrokerInv, UNCHANGED profile, NEW o \in DOMAIN ops, Interrupt(o)
  PROVE  SafeStep
<1> DEFINE s == IF ops[o].state = "intent" THEN "cancelled" ELSE "unknown"
<1>1. /\ ops' = OpPut(o, s, ops[o].evidence) /\ ops[o].evidence \in AnyRef /\ s \in OpStates
  <2>1. ops' = [ops EXCEPT ![o].state = s]
    BY DEF Interrupt
  <2>2. QED
    BY <2>1, OpStateSet DEF OpStates
<1>2. /\ inflight' = Nothing /\ UNCHANGED <<owner, revocation, prepared, jobs, forks, restarts>>
      /\ ops[o].state \in OpOpen /\ ops[o].owner = owner
      /\ bindings' = IF ops[o].state = "intent" THEN bindings ELSE Recovering(ops[o].binding)
  BY DEF Interrupt
<1>3. OpsMove
  BY <1>1, <1>2, OpSet DEF OpOpen
<1>4. RowsMove /\ RowsQuiet
  BY <1>2, OpOf, RecoveringRows, RowsSame
<1>5. QED
  BY <1>2, <1>3, <1>4, JobsSame, QuietSafe DEF ForksMove

\* A binding that loses the capability and whose history, and perhaps compaction, grows.
LEMMA HistoryGrows ==
  ASSUME BrokerInv, UNCHANGED owner, NEW b \in BindingIds, NEW n \in BindingRecords,
         bindings' = [bindings EXCEPT ![b] = n], ~n.capability,
         n.state \in {"held", "recovering"}, CompletionAllowed(b), bindings[b].history < MaxHistory,
         n.purpose = bindings[b].purpose, n.owner = bindings[b].owner,
         n.session = bindings[b].session, n.history = bindings[b].history + 1,
         n.compaction \in bindings[b].compaction..(bindings[b].compaction + 1),
         n.deps = bindings[b].deps, n.items = bindings[b].items
  PROVE  RowsMove /\ (bindings[b].state # "candidate" \/ n.state # "held" => RowsQuiet)
<1>1. bindings[b] \in BindingRecords /\ RowOK(bindings[b], owner)
  BY RowOf
<1>2. n.history \in 0..MaxHistory /\ n.compaction \in 0..n.history
  <2>1. /\ bindings[b].history \in Nat /\ bindings[b].compaction \in 0..bindings[b].history
        /\ MaxHistory \in Nat
    BY <1>1, Numbers DEF BindingRecords, RowOK
  <2>2. QED
    BY <2>1
<1>3. RowOK(n, owner)
  BY <1>1, <1>2 DEF RowOK
<1>4. RowMoved(bindings[b], n)
  BY <1>3 DEF RowMoved, CompletionAllowed, Fenced, Done
<1>5. bindings[b].state # "candidate" \/ n.state # "held" => RowQuiet(bindings[b], n)
  BY DEF RowQuiet
<1>6. QED
  BY <1>4, <1>5, RowUpdated

LEMMA TransformSafe ==
  ASSUME BrokerInv, UNCHANGED profile, NEW b \in BindingIds, NEW ref \in Refs,
         FenceAutomaticTransform(b, ref)
  PROVE  SafeStep
<1> DEFINE n == [bindings[b] EXCEPT !.state = "recovering", !.capability = FALSE, !.history = @ + 1]
<1>1. bindings[b] \in BindingRecords /\ bindings[b].history + 1 \in Nat
  BY RowOf DEF BindingRecords
<1>2. /\ bindings' = [bindings EXCEPT ![b] = n] /\ ops' = Transformed(b, ref) /\ inflight' = Nothing
      /\ UNCHANGED <<owner, revocation, prepared, jobs, forks, restarts>>
      /\ CompletionAllowed(b) /\ bindings[b].history < MaxHistory
  BY <1>1 DEF FenceAutomaticTransform, BindingIds
<1>3. n \in BindingRecords
  BY <1>1 DEF BindingRecords, BindingStates
<1>4. /\ ~n.capability /\ n.state = "recovering"
      /\ n.purpose = bindings[b].purpose /\ n.owner = bindings[b].owner
      /\ n.session = bindings[b].session /\ n.history = bindings[b].history + 1
      /\ n.compaction = bindings[b].compaction
      /\ n.deps = bindings[b].deps /\ n.items = bindings[b].items
  BY <1>1, <1>3 DEF BindingRecords
<1>5. n.compaction \in bindings[b].compaction..(bindings[b].compaction + 1)
  BY <1>1, <1>4 DEF BindingRecords
<1> HIDE DEF n
<1>6. RowsMove /\ RowsQuiet
  BY <1>2, <1>3, <1>4, <1>5, HistoryGrows
<1>7. OpsMove
  <2>1. CASE inflight # Nothing /\ ops[inflight].binding = b /\ ops[inflight].state \in OpOpen
    <3>1. inflight \in DOMAIN ops /\ ops[inflight].kind = "turn" /\ ops[inflight].owner = owner
      BY <2>1 DEF BrokerInv, BrokerTypes, InflightOpen
    <3>2. ops' = [ops EXCEPT ![inflight].state = "unknown", ![inflight].evidence = ref]
      BY <1>2, <2>1 DEF Transformed
    <3>3. ops' = OpPut(inflight, "unknown", ref) /\ ref \in AnyRef /\ "unknown" \in OpStates
      BY <3>1, <3>2, OpPutForm, RefKnown DEF OpStates
    <3>4. QED
      BY <2>1, <3>1, <3>3, OpSet DEF OpOpen
  <2>2. CASE ~(inflight # Nothing /\ ops[inflight].binding = b /\ ops[inflight].state \in OpOpen)
    BY <1>2, <2>2, OpsSame DEF Transformed
  <2>3. QED
    BY <2>1, <2>2
<1>8. QED
  BY <1>2, <1>6, <1>7, JobsSame, QuietSafe DEF ForksMove

LEMMA PlanCompactionSafe ==
  ASSUME BrokerInv, UNCHANGED profile, NEW b \in BindingIds, PlanCompaction(b)
  PROVE  SafeStep
<1> DEFINE n == [binding |-> b, state |-> "planned", history |-> bindings[b].history,
                 continuity |-> bindings[b].continuity]
<1>1. bindings[b] \in BindingRecords /\ b \in Nat
  BY RowOf, Domains DEF BrokerInv, BrokerTypes, BindingIds
<1>2. n \in JobRecords /\ n.binding = b
  BY <1>1 DEF JobRecords, JobOpen, BindingRecords
<1>3. /\ jobs' = Append(jobs, n) /\ bindings[b].state = "held"
      /\ UNCHANGED <<owner, revocation, bindings, ops, prepared, forks, inflight, restarts>>
  BY DEF PlanCompaction
<1> HIDE DEF n
<1>4. JobsMove
  <2>1. jobs \in Seq(JobRecords)
    BY DEF BrokerInv, BrokerTypes
  <2>2. /\ jobs' \in Seq(JobRecords) /\ Len(jobs') = Len(jobs) + 1
        /\ DOMAIN jobs' = 1..(Len(jobs) + 1) /\ DOMAIN jobs = 1..Len(jobs) /\ Len(jobs) \in Nat
        /\ \A i \in 1..Len(jobs) : jobs'[i] = jobs[i]
        /\ jobs'[Len(jobs) + 1] = n
    BY <1>2, <1>3, <2>1, AppendFacts
  <2>3. QED
    BY <1>2, <1>3, <2>2 DEF JobsMove
<1>5. QED
  BY <1>3, <1>4, RowsSame, OpsSame, QuietSafe DEF ForksMove

\* A job takes a state.
LEMMA JobSet ==
  ASSUME BrokerInv, NEW j \in DOMAIN jobs,
         NEW s \in JobOpen \cup {"completed", "failed", "cancelled", "unknown"},
         jobs' = [jobs EXCEPT ![j].state = s]
  PROVE  JobsMove
<1> DEFINE n == [jobs[j] EXCEPT !.state = s]
<1>1. jobs[j] \in JobRecords
  BY JobOf
<1>2. n \in JobRecords /\ n.binding = jobs[j].binding
  BY <1>1 DEF JobRecords
<1>3. jobs' = [jobs EXCEPT ![j] = n]
  OBVIOUS
<1> HIDE DEF n
<1>4. QED
  BY <1>2, <1>3, JobUpdated

LEMMA AdvanceSafe ==
  ASSUME BrokerInv, UNCHANGED profile, NEW j \in DOMAIN jobs, NEW from, NEW to \in {"sent", "acknowledged"},
         AdvanceCompaction(j, from, to)
  PROVE  SafeStep
<1>1. /\ jobs' = [jobs EXCEPT ![j].state = to]
      /\ UNCHANGED <<owner, revocation, bindings, ops, prepared, forks, inflight, restarts>>
  BY DEF AdvanceCompaction
<1>2. JobsMove
  BY <1>1, JobSet DEF JobOpen
<1>3. QED
  BY <1>1, <1>2, RowsSame, OpsSame, QuietSafe DEF ForksMove

LEMMA CompactionSafe ==
  ASSUME BrokerInv, UNCHANGED profile, NEW j \in DOMAIN jobs, CompleteCompaction(j)
  PROVE  SafeStep
<1> DEFINE b == jobs[j].binding
           n == [bindings[b] EXCEPT !.history = @ + 1, !.compaction = @ + 1, !.state = "held",
                                    !.capability = FALSE]
<1>1. b \in BindingIds /\ bindings[b] \in BindingRecords /\ bindings[b].state # "candidate"
  BY JobOf, RowOf
<1>2. /\ UNCHANGED <<owner, revocation, ops, prepared, forks, inflight, restarts>>
      /\ CompletionAllowed(b) /\ bindings[b].history < MaxHistory
  BY DEF CompleteCompaction
<1>3. CASE SourceUnchanged(j)
  <2>1. /\ bindings' = [bindings EXCEPT ![b] = n] /\ jobs' = [jobs EXCEPT ![j].state = "completed"]
    BY <1>1, <1>3 DEF CompleteCompaction, BindingIds
  <2>2. bindings[b].history + 1 \in Nat /\ bindings[b].compaction + 1 \in Nat
    BY <1>1 DEF BindingRecords
  <2>3. n \in BindingRecords
    BY <1>1, <2>2 DEF BindingRecords, BindingStates
  <2>4. /\ ~n.capability /\ n.state = "held"
        /\ n.purpose = bindings[b].purpose /\ n.owner = bindings[b].owner
        /\ n.session = bindings[b].session /\ n.history = bindings[b].history + 1
        /\ n.compaction = bindings[b].compaction + 1
        /\ n.deps = bindings[b].deps /\ n.items = bindings[b].items
    BY <1>1, <2>3 DEF BindingRecords
  <2>5. n.compaction \in bindings[b].compaction..(bindings[b].compaction + 1)
    BY <1>1, <2>4 DEF BindingRecords
  <2> HIDE DEF n
  <2>6. RowsMove /\ RowsQuiet
    BY <1>1, <1>2, <2>1, <2>3, <2>4, <2>5, HistoryGrows
  <2>7. JobsMove
    BY <2>1, JobSet
  <2>8. QED
    BY <1>2, <2>6, <2>7, OpsSame, QuietSafe DEF ForksMove
<1>4. CASE ~SourceUnchanged(j)
  <2>1. UNCHANGED bindings /\ jobs' = [jobs EXCEPT ![j].state = "failed"]
    BY <1>4 DEF CompleteCompaction
  <2>2. JobsMove
    BY <2>1, JobSet
  <2>3. QED
    BY <1>2, <2>1, <2>2, RowsSame, OpsSame, QuietSafe DEF ForksMove
<1>5. QED
  BY <1>3, <1>4

LEMMA CancelCompactionSafe ==
  ASSUME BrokerInv, UNCHANGED profile, NEW j \in DOMAIN jobs, CancelCompaction(j)
  PROVE  SafeStep
<1> DEFINE s == IF jobs[j].state = "acknowledged" THEN "unknown" ELSE "cancelled"
<1>1. /\ UNCHANGED <<owner, revocation, ops, prepared, forks, inflight, restarts>>
      /\ jobs' = [jobs EXCEPT ![j].state = s]
      /\ bindings' = IF jobs[j].state = "acknowledged" THEN Recovering(jobs[j].binding) ELSE bindings
  BY DEF CancelCompaction
<1>2. JobsMove
  BY <1>1, JobSet
<1>3. RowsMove /\ RowsQuiet
  BY <1>1, JobOf, RecoveringRows, RowsSame
<1>4. QED
  BY <1>1, <1>2, <1>3, OpsSame, QuietSafe DEF ForksMove

LEMMA SourcesKnown ==
  ASSUME BrokerInv
  PROVE  Sources \subseteq AnySource
<1>1. profile \in Profiles
  BY DEF BrokerInv, BrokerTypes
<1>2. QED
  BY <1>1 DEF AnySource, Sources

LEMMA PlanForkSafe ==
  ASSUME BrokerInv, UNCHANGED profile, NEW b \in BindingIds, NEW added \in SUBSET Sources,
         PlanFork(b, added)
  PROVE  SafeStep
<1> DEFINE n == [Candidate("evaluation") EXCEPT !.deps = bindings[b].deps \cup added]
           r == [source |-> b, target |-> Len(bindings) + 1,
                 history |-> bindings[b].history, continuity |-> bindings[b].continuity]
<1>1. bindings[b] \in BindingRecords /\ RowOK(bindings[b], owner) /\ b \in Nat /\ Len(bindings) + 1 \in Nat
  BY RowOf, Domains DEF BrokerInv, BrokerTypes, BindingIds
<1>2. Candidate("evaluation") \in BindingRecords /\ RowOK(Candidate("evaluation"), owner)
  BY CandidateRow DEF AnyPurpose
<1>3. bindings[b].deps \cup added \in SUBSET AnySource /\ bindings[b].deps \cup added \subseteq Sources
  BY <1>1, SourcesKnown DEF RowOK
<1>4. n \in BindingRecords
  BY <1>2, <1>3 DEF BindingRecords
<1>5. /\ n.state = "candidate" /\ n.purpose = "evaluation" /\ ~n.capability /\ n.owner = 1
      /\ n.session = 1 /\ n.history = 0 /\ n.compaction = 0 /\ n.items = 0
      /\ n.deps = bindings[b].deps \cup added
  BY <1>2, <1>4 DEF Candidate
<1>6. r \in ForkRecords /\ r.source = b /\ r.target = Len(bindings) + 1
  BY <1>1 DEF ForkRecords, BindingRecords
<1>7. /\ bindings' = Append(bindings, n) /\ forks' = Append(forks, r)
      /\ UNCHANGED <<owner, revocation, ops, prepared, jobs, inflight, restarts>>
  BY DEF PlanFork
<1> HIDE DEF n, r
<1>8. RowOK(n, owner)
  BY <1>3, <1>5, Numbers DEF RowOK
<1>9. /\ RowsMove /\ RowsQuiet
      /\ BindingIds' = 1..(Len(bindings) + 1) /\ BindingIds = 1..Len(bindings) /\ Len(bindings) \in Nat
      /\ bindings'[Len(bindings) + 1] = n
  BY <1>4, <1>5, <1>7, <1>8, RowAdded
<1>10. ForksMove
  <2>1. r.target \in BindingIds' /\ r.target \notin BindingIds /\ bindings'[r.target].purpose = "evaluation"
    BY <1>5, <1>6, <1>9
  <2>2. QED
    BY <1>6, <1>7, <2>1 DEF ForksMove
<1>11. QED
  BY <1>7, <1>9, <1>10, OpsSame, JobsSame, QuietSafe

LEMMA CompleteForkSafe ==
  ASSUME BrokerInv, UNCHANGED profile, NEW f \in DOMAIN forks, NEW native \in NativeThreads,
         CompleteFork(f, native)
  PROVE  SafeStep
<1> DEFINE b == forks[f].target
           n == ForkDone(bindings[b], native)
<1>1. b \in BindingIds /\ bindings[b] \in BindingRecords /\ forks[f].source \in BindingIds
  BY RowOf DEF BrokerInv, ForkOK
<1>2. /\ bindings' = [bindings EXCEPT ![b] = n]
      /\ UNCHANGED <<owner, revocation, ops, prepared, jobs, forks, inflight, restarts>>
      /\ ~Fenced(b) /\ ~Done(forks[f].source) /\ bindings[forks[f].source].history = forks[f].history
  BY <1>1 DEF CompleteFork, BindingIds
<1>3. native \in AnyThread
  BY DEF AnyThread, NativeThreads, BrokerInv, BrokerTypes
<1>4. /\ n \in BindingRecords /\ ~n.capability /\ NumbersKept(bindings[b], n)
      /\ n.state \in {"held", "quarantined"}
  <2>1. CASE bindings[b].state = "held" /\ bindings[b].thread # native
    BY <1>1, <2>1 DEF ForkDone, BindingRecords, BindingStates, NumbersKept
  <2>2. CASE ~(bindings[b].state = "held" /\ bindings[b].thread # native)
    BY <1>1, <1>3, <2>2 DEF ForkDone, BindingRecords, BindingStates, NumbersKept
  <2>3. QED
    BY <2>1, <2>2
<1> HIDE DEF n
<1>5. RowsMove
  BY <1>1, <1>2, <1>4, StateSet DEF Fenced, Done
<1>6. BindingIds' = BindingIds /\ \A k \in BindingIds : bindings'[k] = IF k = b THEN n ELSE bindings[k]
  BY <1>1, <1>2 DEF BindingIds
<1>7. OneExecutable'
  <2>1. ASSUME NEW k \in BindingIds, Executable(k)' PROVE Executable(k)
    BY <1>4, <1>6, <2>1 DEF Executable
  <2>2. QED
    BY <1>6, <2>1 DEF BrokerInv, OneExecutable
<1>8. PublishedSame
  BY <1>2, <1>6 DEF BrokerInv, ForkOK, PublishedSame
<1>9. QED
  BY <1>2, <1>5, <1>7, <1>8, OpsSame, JobsSame, OrdinarySafe DEF ForksMove

LEMMA DependenciesSafe ==
  ASSUME BrokerInv, UNCHANGED profile, NEW b \in BindingIds, NEW deps \in SUBSET Sources,
         SetDependencies(b, deps)
  PROVE  SafeStep
<1> DEFINE n == [bindings[b] EXCEPT !.deps = deps, !.session = @ + 1, !.capability = FALSE]
<1>1. /\ bindings[b] \in BindingRecords /\ RowOK(bindings[b], owner) /\ bindings[b].session + 1 \in Nat
      /\ deps \in SUBSET AnySource
  BY RowOf, SourcesKnown DEF BindingRecords
<1>2. /\ bindings' = [bindings EXCEPT ![b] = n] /\ bindings[b].session < MaxSession
      /\ UNCHANGED <<owner, revocation, ops, prepared, jobs, forks, inflight, restarts>>
  BY <1>1 DEF SetDependencies, BindingIds
<1>3. n \in BindingRecords
  BY <1>1 DEF BindingRecords
<1>4. /\ ~n.capability /\ n.state = bindings[b].state
      /\ n.purpose = bindings[b].purpose /\ n.owner = bindings[b].owner
      /\ n.session = bindings[b].session + 1 /\ n.history = bindings[b].history
      /\ n.compaction = bindings[b].compaction
      /\ n.deps = deps /\ n.items = bindings[b].items
  BY <1>1, <1>3 DEF BindingRecords
<1> HIDE DEF n
<1>5. n.session \in 1..MaxSession
  BY <1>1, <1>2, <1>4, Numbers DEF RowOK
<1>6. RowOK(n, owner)
  BY <1>1, <1>4, <1>5 DEF RowOK
<1>7. RowMoved(bindings[b], n) /\ RowQuiet(bindings[b], n)
  BY <1>2, <1>4, <1>6 DEF RowMoved, RowQuiet
<1>8. QED
  BY <1>2, <1>3, <1>7, RowUpdated, OpsSame, JobsSame, QuietSafe DEF ForksMove

LEMMA CleanupSafe ==
  ASSUME BrokerInv, UNCHANGED profile, NEW b \in BindingIds, Cleanup(b)
  PROVE  SafeStep
<1> DEFINE n == [bindings[b] EXCEPT !.state = "closed"]
<1>1. bindings[b] \in BindingRecords /\ RowOK(bindings[b], owner)
  BY RowOf
<1>2. /\ bindings' = [bindings EXCEPT ![b] = n] /\ bindings[b].state = "retired"
      /\ UNCHANGED <<owner, revocation, ops, prepared, jobs, forks, inflight, restarts>>
  BY <1>1 DEF Cleanup, BindingIds
<1>3. n \in BindingRecords /\ n.state = "closed" /\ ~n.capability /\ NumbersKept(bindings[b], n)
  BY <1>1, <1>2 DEF BindingRecords, BindingStates, NumbersKept, RowOK
<1> HIDE DEF n
<1>4. QED
  BY <1>2, <1>3, StateSet, OpsSame, JobsSame, QuietSafe DEF ForksMove

LEMMA ExpireSafe ==
  ASSUME BrokerInv, UNCHANGED profile, NEW b \in BindingIds, Expire(b)
  PROVE  SafeStep
<1> DEFINE n == [bindings[b] EXCEPT !.expired = TRUE]
<1>1. bindings[b] \in BindingRecords /\ RowOK(bindings[b], owner)
  BY RowOf
<1>2. /\ bindings' = [bindings EXCEPT ![b] = n]
      /\ UNCHANGED <<owner, revocation, ops, prepared, jobs, forks, inflight, restarts>>
  BY <1>1 DEF Expire, BindingIds
<1>3. /\ n \in BindingRecords /\ n.state = bindings[b].state /\ NumbersKept(bindings[b], n)
      /\ n.capability <=> bindings[b].capability
  <2>1. n \in BindingRecords
    BY <1>1 DEF BindingRecords
  <2>2. n.capability = bindings[b].capability
    BY <1>1 DEF BindingRecords
  <2>3. QED
    BY <1>1, <2>1, <2>2 DEF BindingRecords, NumbersKept
<1> HIDE DEF n
<1>4. RowOK(n, owner)
  BY <1>1, <1>3 DEF RowOK, NumbersKept
<1>5. RowMoved(bindings[b], n) /\ RowQuiet(bindings[b], n)
  BY <1>2, <1>3, <1>4 DEF RowMoved, RowQuiet, NumbersKept
<1>6. QED
  BY <1>2, <1>3, <1>5, RowUpdated, OpsSame, JobsSame, QuietSafe DEF ForksMove

-----------------------------------------------------------------------------
(* Retirement and revocation.                                              *)

\* A turn prepared before a revocation is not of now.
LEMMA RevokedTurns ==
  ASSUME BrokerInv, revocation' \in Nat, revocation' > revocation, UNCHANGED prepared
  PROVE  \A p \in DOMAIN prepared : ~Current(p)'
<1> SUFFICES ASSUME NEW p \in DOMAIN prepared PROVE ~Current(p)'
  OBVIOUS
<1>1. prepared \in Seq(TurnRecords)
  BY DEF BrokerInv, BrokerTypes
<1>2. prepared[p] \in TurnRecords /\ prepared[p].revocation <= revocation
  BY <1>1 DEF BrokerInv, TurnOK
<1>3. prepared[p].revocation # revocation'
  BY <1>2, Numbers DEF TurnRecords
<1>4. QED
  BY <1>3 DEF Current

\* A step that retires bindings and advances the revocation epoch.
LEMMA RevokingSafe ==
  ASSUME BrokerInv, UNCHANGED <<profile, owner, ops, prepared, jobs, forks, inflight, restarts>>,
         revocation' \in 0..MaxRevocation, revocation' > revocation, RowsMove, RowsQuiet
  PROVE  SafeStep
<1>1. OpsMove /\ OpenStays /\ JobsMove /\ ForksMove
  BY OpsSame, JobsSame DEF ForksMove
<1>2. InflightOpen' /\ inflight' \in {Nothing} \cup DOMAIN ops'
  BY <1>1, InflightStays
<1>3. revocation' \in Nat
  BY Numbers
<1>4. TurnsMove
  BY <1>3, Numbers, TurnsSame DEF RowsMove
<1>5. Moves
  BY <1>1, <1>2, <1>4, Numbers DEF Moves, BrokerInv, BrokerTypes
<1>6. QED
  BY <1>2, <1>3, <1>5, QuietAlone, RevokedTurns DEF SafeStep

LEMMA RetiredRow ==
  ASSUME NEW r \in BindingRecords
  PROVE  /\ Retired(r) \in BindingRecords /\ Retired(r).state = "retired" /\ ~Retired(r).capability
         /\ NumbersKept(r, Retired(r))
  BY DEF Retired, BindingRecords, BindingStates, NumbersKept

LEMMA RetireSafe ==
  ASSUME BrokerInv, UNCHANGED profile, NEW b \in BindingIds, Retire(b)
  PROVE  SafeStep
<1>1. bindings[b] \in BindingRecords
  BY RowOf
<1>2. /\ bindings' = [bindings EXCEPT ![b] = Retired(bindings[b])]
      /\ revocation' = revocation + 1 /\ revocation < MaxRevocation
      /\ UNCHANGED <<owner, ops, prepared, jobs, forks, inflight, restarts>>
  BY DEF Retire, BindingIds
<1>3. RowsMove /\ RowsQuiet
  BY <1>1, <1>2, RetiredRow, StateSet
<1>4. revocation' \in 0..MaxRevocation /\ revocation' > revocation
  BY <1>2, Numbers
<1>5. QED
  BY <1>2, <1>3, <1>4, RevokingSafe

\* Rows mapped one by one.
LEMMA RowsMapped ==
  ASSUME BrokerInv, NEW T, bindings' = T, T = [b \in BindingIds |-> T[b]],
         \A b \in BindingIds : T[b] \in BindingRecords /\ RowMoved(bindings[b], T[b])
  PROVE  RowsMove /\ BindingIds' = BindingIds
<1>1. bindings \in Seq(BindingRecords) /\ BindingIds = 1..Len(bindings) /\ Len(bindings) \in Nat
  BY Domains DEF BrokerInv, BrokerTypes, BindingIds
<1>2. T \in Seq(BindingRecords) /\ Len(T) = Len(bindings) /\ DOMAIN T = BindingIds
  BY <1>1, MapFacts
<1>3. QED
  BY <1>1, <1>2 DEF RowsMove, BindingIds

LEMMA RevokeSafe ==
  ASSUME BrokerInv, UNCHANGED profile, NEW sources, RevokeSources(sources)
  PROVE  SafeStep
<1> DEFINE A == {b \in BindingIds : ~Done(b) /\ bindings[b].deps \cap sources # {}}
           T == [b \in BindingIds |-> IF b \in A THEN Retired(bindings[b]) ELSE bindings[b]]
<1>1. Cardinality(A) \in Nat
  <2>1. BindingIds = 1..Len(bindings) /\ Len(bindings) \in Nat
    BY Domains DEF BrokerInv, BrokerTypes, BindingIds
  <2>2. IsFiniteSet(BindingIds)
    BY <2>1, FS_Interval
  <2>3. IsFiniteSet(A)
    BY <2>2, FS_Subset
  <2>4. QED
    BY <2>3, FS_CardinalityType
<1>2. /\ bindings' = T
      /\ revocation' = revocation + 1 + Cardinality(A) /\ revocation + 1 + Cardinality(A) <= MaxRevocation
      /\ UNCHANGED <<owner, ops, prepared, jobs, forks, inflight, restarts>>
  BY DEF RevokeSources
<1>3. ASSUME NEW b \in BindingIds
      PROVE  T[b] \in BindingRecords /\ RowMoved(bindings[b], T[b]) /\ RowQuiet(bindings[b], T[b])
  <2>1. bindings[b] \in BindingRecords /\ RowOK(bindings[b], owner)
    BY RowOf
  <2>2. CASE b \in A
    <3>1. T[b] = Retired(bindings[b])
      BY <2>2
    <3>2. RowMoved(bindings[b], Retired(bindings[b])) /\ RowQuiet(bindings[b], Retired(bindings[b]))
      BY <1>2, <2>1, RetiredRow DEF RowMoved, RowQuiet, RowOK, NumbersKept
    <3>3. QED
      BY <2>1, <3>1, <3>2, RetiredRow
  <2>3. CASE b \notin A
    <3>1. T[b] = bindings[b]
      BY <2>3
    <3>2. QED
      BY <1>2, <2>1, <3>1 DEF RowMoved, RowQuiet
  <2>4. QED
    BY <2>2, <2>3
<1>4. T = [b \in BindingIds |-> T[b]]
  OBVIOUS
<1> HIDE DEF T
<1>5. RowsMove /\ BindingIds' = BindingIds
  BY <1>2, <1>3, <1>4, RowsMapped
<1>6. RowsQuiet
  BY <1>2, <1>3, <1>5 DEF RowsQuiet
<1>7. revocation' \in 0..MaxRevocation /\ revocation' > revocation
  BY <1>1, <1>2, Numbers
<1>8. QED
  BY <1>2, <1>5, <1>6, <1>7, RevokingSafe

-----------------------------------------------------------------------------
(* Owner changes.                                                          *)

LEMMA FencedJobsFacts ==
  ASSUME BrokerInv, jobs' = FencedJobs
  PROVE  JobsMove /\ \A j \in DOMAIN jobs : jobs'[j].state \notin JobOpen
<1>1. jobs \in Seq(JobRecords) /\ DOMAIN jobs = 1..Len(jobs) /\ Len(jobs) \in Nat
  BY Domains DEF BrokerInv, BrokerTypes
<1>2. ASSUME NEW j \in DOMAIN jobs
      PROVE  jobs'[j] \in JobRecords /\ jobs'[j].binding = jobs[j].binding /\ jobs'[j].state \notin JobOpen
  <2>1. jobs[j] \in JobRecords
    BY <1>1
  <2>2. jobs'[j] = IF jobs[j].state \in JobOpen THEN [jobs[j] EXCEPT !.state = "unknown"] ELSE jobs[j]
    BY DEF FencedJobs
  <2>3. QED
    BY <2>1, <2>2 DEF JobRecords, JobOpen
<1>3. jobs' = [j \in 1..Len(jobs) |-> jobs'[j]]
  BY <1>1 DEF FencedJobs
<1>4. jobs' \in Seq(JobRecords) /\ Len(jobs') = Len(jobs) /\ DOMAIN jobs' = 1..Len(jobs)
  BY <1>1, <1>2, <1>3, MapFacts
<1>5. QED
  BY <1>1, <1>2, <1>4 DEF JobsMove

\* The rows of an owner change, before the targets of forks are fenced, are T.
LEMMA FencedRows ==
  ASSUME BrokerInv, NEW T, owner' = owner + 1, bindings' = FencedTargets(T), DOMAIN T = BindingIds,
         \A b \in BindingIds : /\ T[b] \in BindingRecords /\ RowMoved(bindings[b], T[b])
                               /\ RowQuiet(bindings[b], T[b])
                               /\ bindings[b].state = "candidate" /\ bindings[b].purpose = "evaluation"
                                    => T[b].state = "candidate"
  PROVE  /\ RowsMove /\ RowsQuiet
         /\ \A f \in DOMAIN forks :
              bindings[forks[f].target].state = "candidate"
                => bindings'[forks[f].target].state = "quarantined"
         /\ \A b \in BindingIds : /\ bindings'[b].purpose = T[b].purpose
                                  /\ bindings'[b].capability => T[b].capability
                                  /\ bindings'[b].state \in {"active", "one_shot_pending"} =>
                                       bindings'[b].state = T[b].state
<1> DEFINE U == FencedTargets(T)
<1>1. ASSUME NEW b \in BindingIds
      PROVE  /\ U[b] \in BindingRecords /\ RowMoved(bindings[b], U[b]) /\ RowQuiet(bindings[b], U[b])
             /\ U[b].purpose = T[b].purpose /\ (U[b].capability => T[b].capability)
             /\ U[b].state \in {"active", "one_shot_pending"} => U[b].state = T[b].state
             /\ \A f \in DOMAIN forks :
                  forks[f].target = b /\ bindings[b].state = "candidate" => U[b].state = "quarantined"
  <2>0. /\ T[b] \in BindingRecords /\ RowMoved(bindings[b], T[b]) /\ RowQuiet(bindings[b], T[b])
        /\ \A f \in DOMAIN forks :
             forks[f].target = b /\ bindings[b].state = "candidate" => T[b].state = "candidate"
    BY DEF BrokerInv, ForkOK
  <2>1. CASE T[b].state = "candidate" /\ \E f \in DOMAIN forks : forks[f].target = b
    <3> DEFINE n == [T[b] EXCEPT !.state = "quarantined", !.capability = FALSE]
    <3>1. U[b] = n
      BY <2>1 DEF FencedTargets
    <3>2. n \in BindingRecords /\ n.state = "quarantined" /\ ~n.capability /\ NumbersKept(T[b], n)
      BY <2>0 DEF BindingRecords, BindingStates, NumbersKept
    <3> HIDE DEF n
    <3>3. RowMoved(bindings[b], n)
      BY <2>0, <2>1, <3>2 DEF RowMoved, RowOK, NumbersKept
    <3>4. RowQuiet(bindings[b], n)
      BY <3>2 DEF RowQuiet
    <3>5. QED
      BY <3>1, <3>2, <3>3, <3>4 DEF NumbersKept
  <2>2. CASE ~(T[b].state = "candidate" /\ \E f \in DOMAIN forks : forks[f].target = b)
    <3>1. U[b] = T[b]
      BY <2>2 DEF FencedTargets
    <3>2. QED
      BY <2>0, <2>2, <3>1
  <2>3. QED
    BY <2>1, <2>2
<1>2. U = [b \in BindingIds |-> U[b]]
  BY DEF FencedTargets
<1> HIDE DEF U
<1>3. bindings' = U
  BY DEF U
<1>4. RowsMove /\ BindingIds' = BindingIds
  BY <1>1, <1>2, <1>3, RowsMapped
<1>5. RowsQuiet
  BY <1>1, <1>3, <1>4 DEF RowsQuiet
<1>6. \A f \in DOMAIN forks : forks[f].target \in BindingIds
  BY DEF BrokerInv, ForkOK
<1>7. \A f \in DOMAIN forks :
        bindings[forks[f].target].state = "candidate"
          => bindings'[forks[f].target].state = "quarantined"
  BY <1>1, <1>3, <1>6
<1>8. QED
  BY <1>1, <1>3, <1>4, <1>5, <1>7

\* A change of owner fences what the former one began.
LEMMA OwnerSafe ==
  ASSUME BrokerInv, UNCHANGED <<profile, revocation, forks>>, NextOwner, inflight' = Nothing,
         restarts' \in 0..MaxRestarts, jobs' = FencedJobs,
         UNCHANGED prepared \/ prepared' = <<>>,
         RowsMove, RowsQuiet, OpsMove, DOMAIN ops' = DOMAIN ops,
         \A b \in BindingIds : Executable(b)' => Recover /\ bindings[b].state = "one_shot_pending",
         \A f \in DOMAIN forks :
           bindings[forks[f].target].state = "candidate"
             => bindings'[forks[f].target].state = "quarantined"
  PROVE  SafeStep
<1>1. owner' = owner + 1 /\ owner' \in 1..MaxOwner /\ owner' \in Nat
  BY Numbers DEF NextOwner
<1>2. JobsMove /\ \A j \in DOMAIN jobs : jobs'[j].state \notin JobOpen
  BY FencedJobsFacts
<1>3. TurnsMove
  <2>1. CASE UNCHANGED prepared
    BY <1>1, <2>1, Numbers, TurnsSame DEF RowsMove
  <2>2. CASE prepared' = <<>>
    BY <2>2 DEF TurnsMove
  <2>3. QED
    BY <2>1, <2>2
<1>4. Moves
  BY <1>1, <1>2, <1>3, Numbers DEF Moves, ForksMove, BrokerInv, BrokerTypes
<1>5. InflightOpen'
  BY DEF InflightOpen
<1>6. \A p \in DOMAIN prepared' : ~Current(p)'
  <2>1. CASE UNCHANGED prepared
    <3>1. ASSUME NEW p \in DOMAIN prepared PROVE prepared[p].auth # owner'
      <4>1. prepared[p] \in TurnRecords /\ prepared[p].auth <= owner
        BY Domains DEF BrokerInv, BrokerTypes, TurnOK
      <4>2. QED
        BY <1>1, <4>1, Numbers DEF TurnRecords
    <3>2. QED
      BY <2>1, <3>1 DEF Current
  <2>2. CASE prepared' = <<>>
    BY <2>2
  <2>3. QED
    BY <2>1, <2>2
<1>7. ASSUME NEW o \in DOMAIN ops PROVE ops'[o].owner # owner'
  <2>1. ops[o].owner \in 1..owner /\ ops'[o].owner = ops[o].owner
    BY DEF BrokerInv, OpOK, OpsMove, OpMoved
  <2>2. QED
    BY <1>1, <2>1, Numbers
<1>8. FormerFenced
  BY <1>2, <1>6, <1>7 DEF FormerFenced
<1>9. QED
  BY <1>4, <1>5, <1>8, QuietAlone DEF SafeStep

\* Nothing dispatches after bindings lost their capability.
LEMMA NoCapability ==
  ASSUME \A b \in BindingIds : ~bindings'[b].capability
  PROVE  \A b \in BindingIds : ~Executable(b)'
  BY DEF Executable

LEMMA ReplaceSafe ==
  ASSUME BrokerInv, UNCHANGED profile, ReplaceOwner
  PROVE  SafeStep
<1> DEFINE T == [b \in BindingIds |-> Replaced(b)]
<1>1. /\ NextOwner /\ inflight' = Nothing /\ bindings' = FencedTargets(T) /\ jobs' = FencedJobs
      /\ UNCHANGED <<revocation, ops, prepared, forks, restarts>> /\ owner' = owner + 1
  BY DEF ReplaceOwner, NextOwner
<1>2. ASSUME NEW b \in BindingIds
      PROVE  /\ T[b] \in BindingRecords /\ RowMoved(bindings[b], T[b]) /\ RowQuiet(bindings[b], T[b])
             /\ ~T[b].capability
             /\ bindings[b].state = "candidate" /\ bindings[b].purpose = "evaluation"
                  => T[b].state = "candidate"
  <2>1. bindings[b] \in BindingRecords /\ RowOK(bindings[b], owner)
    BY RowOf
  <2>2. CASE Done(b)
    <3>1. T[b] = bindings[b] /\ ~bindings[b].capability
      BY <2>1, <2>2 DEF Replaced, Done, RowOK
    <3>2. RowOK(bindings[b], owner')
      BY <1>1, <2>1, Numbers DEF RowOK
    <3>3. QED
      BY <2>1, <2>2, <3>1, <3>2 DEF RowMoved, RowQuiet, Done
  <2>3. CASE ~Done(b)
    <3> DEFINE s == IF bindings[b].state = "active" THEN "recovering" ELSE bindings[b].state
               n == [bindings[b] EXCEPT !.owner = owner + 1, !.capability = FALSE, !.state = s]
    <3>1. T[b] = n
      BY <2>1, <2>3 DEF Replaced, BindingRecords
    <3>2. s \in BindingStates /\ owner + 1 \in Nat
      BY <2>1, Numbers DEF BindingRecords, BindingStates
    <3>3. n \in BindingRecords
      BY <2>1, <3>2 DEF BindingRecords
    <3>4. /\ n.state = s /\ ~n.capability /\ n.owner = owner + 1 /\ n.purpose = bindings[b].purpose
          /\ n.session = bindings[b].session /\ n.history = bindings[b].history
          /\ n.compaction = bindings[b].compaction /\ n.deps = bindings[b].deps
          /\ n.items = bindings[b].items
      BY <2>1, <3>3 DEF BindingRecords
    <3> HIDE DEF n
    <3>5. RowOK(n, owner')
      BY <1>1, <2>1, <3>4, Numbers DEF RowOK
    <3>6. RowMoved(bindings[b], n) /\ RowQuiet(bindings[b], n)
      BY <2>3, <3>4, <3>5 DEF RowMoved, RowQuiet, Done
    <3>7. QED
      BY <3>1, <3>3, <3>4, <3>6
  <2>4. QED
    BY <2>2, <2>3
<1>3. DOMAIN T = BindingIds
  OBVIOUS
<1> HIDE DEF T
<1>4. /\ RowsMove /\ RowsQuiet
      /\ \A f \in DOMAIN forks :
           bindings[forks[f].target].state = "candidate"
             => bindings'[forks[f].target].state = "quarantined"
      /\ \A b \in BindingIds : ~bindings'[b].capability
  BY <1>1, <1>2, <1>3, FencedRows
<1>5. QED
  BY <1>1, <1>4, NoCapability, OpsSame, OwnerSafe, Numbers DEF BrokerInv, BrokerTypes

LEMMA RecoverSafe ==
  ASSUME BrokerInv, UNCHANGED profile, Recover
  PROVE  SafeStep
<1> DEFINE T == [b \in BindingIds |-> Recovered(b)]
<1>1. /\ NextOwner /\ inflight' = Nothing /\ bindings' = FencedTargets(T) /\ jobs' = FencedJobs
      /\ UNCHANGED <<revocation, ops, prepared, forks, restarts>> /\ owner' = owner + 1
  BY DEF Recover, NextOwner
<1>2. ASSUME NEW b \in BindingIds
      PROVE  /\ T[b] \in BindingRecords /\ RowMoved(bindings[b], T[b]) /\ RowQuiet(bindings[b], T[b])
             /\ T[b].state # "active"
             /\ T[b].state \in {"one_shot_pending", "candidate"} => T[b].state = bindings[b].state
             /\ bindings[b].state = "candidate" => T[b].state = "candidate"
  <2>1. bindings[b] \in BindingRecords /\ RowOK(bindings[b], owner) /\ owner + 1 \in Nat
    BY RowOf, Numbers
  <2>2. CASE Done(b)
    <3>1. T[b] = bindings[b]
      BY <2>2 DEF Recovered
    <3>2. RowOK(bindings[b], owner')
      BY <1>1, <2>1, Numbers DEF RowOK
    <3>3. QED
      BY <2>1, <2>2, <3>1, <3>2 DEF RowMoved, RowQuiet, Done
  <2>3. CASE ~Done(b) /\ bindings[b].state \in {"active", "recovering"}
    <3> DEFINE n == [bindings[b] EXCEPT !.owner = owner + 1, !.capability = FALSE, !.state = "recovering"]
    <3>1. T[b] = n
      BY <2>3 DEF Recovered
    <3>3. n \in BindingRecords
      BY <2>1 DEF BindingRecords, BindingStates
    <3>4. /\ n.state = "recovering" /\ ~n.capability /\ n.owner = owner + 1
          /\ n.purpose = bindings[b].purpose
          /\ n.session = bindings[b].session /\ n.history = bindings[b].history
          /\ n.compaction = bindings[b].compaction /\ n.deps = bindings[b].deps
          /\ n.items = bindings[b].items
      BY <2>1, <3>3 DEF BindingRecords
    <3> HIDE DEF n
    <3>5. RowOK(n, owner')
      BY <1>1, <2>1, <3>4, Numbers DEF RowOK
    <3>6. RowMoved(bindings[b], n) /\ RowQuiet(bindings[b], n)
      BY <2>3, <3>4, <3>5 DEF RowMoved, RowQuiet, Done
    <3>7. QED
      BY <2>3, <3>1, <3>3, <3>4, <3>6
  <2>4. CASE ~Done(b) /\ bindings[b].state \notin {"active", "recovering"}
    <3> DEFINE n == [bindings[b] EXCEPT !.owner = owner + 1]
    <3>1. T[b] = n
      BY <2>4 DEF Recovered
    <3>3. n \in BindingRecords
      BY <2>1 DEF BindingRecords
    <3>4. /\ n.state = bindings[b].state /\ n.owner = owner + 1
          /\ n.purpose = bindings[b].purpose
          /\ n.session = bindings[b].session /\ n.history = bindings[b].history
          /\ n.compaction = bindings[b].compaction /\ n.deps = bindings[b].deps
          /\ n.items = bindings[b].items
      BY <2>1, <3>3 DEF BindingRecords
    <3>c. n.capability <=> bindings[b].capability
      <4>1. n.capability = bindings[b].capability
        BY <2>1 DEF BindingRecords
      <4>2. QED
        BY <4>1
    <3> HIDE DEF n
    <3>5. RowOK(n, owner')
      <4>1. n.owner \in 1..owner'
        BY <1>1, <3>4, Numbers
      <4>2. QED
        BY <2>1, <3>4, <3>c, <4>1 DEF RowOK
    <3>6. RowMoved(bindings[b], n) /\ RowQuiet(bindings[b], n)
      BY <2>4, <3>4, <3>c, <3>5 DEF RowMoved, RowQuiet, Done
    <3>7. QED
      BY <2>1, <2>4, <3>1, <3>3, <3>4, <3>6 DEF RowOK
  <2>5. QED
    BY <2>2, <2>3, <2>4
<1>3. DOMAIN T = BindingIds
  OBVIOUS
<1> HIDE DEF T
<1>4. /\ RowsMove /\ RowsQuiet
      /\ \A f \in DOMAIN forks :
           bindings[forks[f].target].state = "candidate"
             => bindings'[forks[f].target].state = "quarantined"
      /\ \A b \in BindingIds : bindings'[b].state \in {"active", "one_shot_pending"} =>
           bindings[b].state = "one_shot_pending"
  BY <1>1, <1>2, <1>3, FencedRows
<1>5. \A b \in BindingIds : Executable(b)' => Recover /\ bindings[b].state = "one_shot_pending"
  BY <1>4 DEF Executable
<1>6. QED
  BY <1>1, <1>4, <1>5, OpsSame, OwnerSafe, Numbers DEF BrokerInv, BrokerTypes

LEMMA RestoredOps ==
  ASSUME BrokerInv, ops' = [o \in DOMAIN ops |-> RestoredOp(o)]
  PROVE  OpsMove /\ DOMAIN ops' = DOMAIN ops
<1>1. ops \in Seq(OpRecords) /\ DOMAIN ops = 1..Len(ops) /\ Len(ops) \in Nat
  BY Domains DEF BrokerInv, BrokerTypes
<1>2. ASSUME NEW o \in DOMAIN ops
      PROVE  ops'[o] \in OpRecords /\ OpMoved(ops[o], ops'[o])
  <2>1. ops[o] \in OpRecords /\ ops'[o] = RestoredOp(o)
    BY <1>1
  <2>2. CASE ops'[o] = ops[o]
    BY <2>1, <2>2 DEF OpMoved
  <2>3. ASSUME NEW s \in {"quarantined", "unknown"}, ops'[o] = [ops[o] EXCEPT !.state = s], Pending(o)
        PROVE  ops'[o] \in OpRecords /\ OpMoved(ops[o], ops'[o])
    <3>1. ops'[o] \in OpRecords
      BY <2>1, <2>3 DEF OpRecords, OpStates
    <3>2. /\ ops'[o].kind = ops[o].kind /\ ops'[o].binding = ops[o].binding
          /\ ops'[o].owner = ops[o].owner /\ ops'[o].state = s
      BY <2>1, <2>3 DEF OpRecords
    <3>3. ops[o].state \notin {"cancelled", "quarantined", "completed"}
      BY <2>3 DEF Pending, OpOpen
    <3>4. QED
      BY <3>1, <3>2, <3>3 DEF OpMoved
  <2>4. QED
    BY <2>1, <2>2, <2>3 DEF RestoredOp
<1>3. ops' = [o \in 1..Len(ops) |-> ops'[o]]
  BY <1>1
<1>4. ops' \in Seq(OpRecords) /\ Len(ops') = Len(ops) /\ DOMAIN ops' = 1..Len(ops)
  BY <1>1, <1>2, <1>3, MapFacts
<1>5. QED
  BY <1>1, <1>2, <1>4 DEF OpsMove

LEMMA RestartSafe ==
  ASSUME BrokerInv, UNCHANGED profile, Restart
  PROVE  SafeStep
<1> DEFINE T == [b \in BindingIds |->
          [bindings[b] EXCEPT !.owner = owner + 1, !.capability = FALSE, !.state = RestoredState(b)]]
<1>1. /\ NextOwner /\ inflight' = Nothing /\ bindings' = FencedTargets(T) /\ jobs' = FencedJobs
      /\ ops' = [o \in DOMAIN ops |-> RestoredOp(o)] /\ prepared' = <<>>
      /\ UNCHANGED <<revocation, forks>>
  BY DEF Restart, NextOwner
<1>0. owner' = owner + 1 /\ restarts < MaxRestarts /\ restarts' = restarts + 1
  BY DEF Restart, NextOwner
<1>2. ASSUME NEW b \in BindingIds
      PROVE  /\ T[b] \in BindingRecords /\ RowMoved(bindings[b], T[b]) /\ RowQuiet(bindings[b], T[b])
             /\ ~T[b].capability
             /\ bindings[b].state = "candidate" /\ bindings[b].purpose = "evaluation"
                  => T[b].state = "candidate"
  <2> DEFINE s == RestoredState(b)
             n == [bindings[b] EXCEPT !.owner = owner + 1, !.capability = FALSE, !.state = s]
  <2>1. bindings[b] \in BindingRecords /\ RowOK(bindings[b], owner) /\ owner + 1 \in Nat
    BY RowOf, Numbers
  <2>2. /\ s \in BindingStates
        /\ \/ bindings[b].state \in {"retired", "closed"} /\ s = "retired"
           \/ bindings[b].state \notin {"retired", "closed"} /\ s = "recovering"
           \/ bindings[b].state \notin {"retired", "closed", "active"} /\ s = bindings[b].state
        /\ bindings[b].state = "candidate" /\ bindings[b].purpose = "evaluation" => s = "candidate"
    BY <2>1 DEF RestoredState, Done, BindingRecords, BindingStates, BrokerInv, OpOK
  <2>3. T[b] = n
    OBVIOUS
  <2> HIDE DEF s
  <2>4. n \in BindingRecords
    BY <2>1, <2>2 DEF BindingRecords
  <2>5. /\ n.state = s /\ ~n.capability /\ n.owner = owner + 1 /\ n.purpose = bindings[b].purpose
        /\ n.session = bindings[b].session /\ n.history = bindings[b].history
        /\ n.compaction = bindings[b].compaction /\ n.deps = bindings[b].deps
        /\ n.items = bindings[b].items
    BY <2>1, <2>4 DEF BindingRecords
  <2> HIDE DEF n
  <2>6. RowOK(n, owner')
    BY <1>0, <2>1, <2>2, <2>5, Numbers DEF RowOK
  <2>7. restarts' # restarts
    BY <1>0, Numbers
  <2>8. RowMoved(bindings[b], n) /\ RowQuiet(bindings[b], n)
    BY <2>2, <2>5, <2>6, <2>7 DEF RowMoved, RowQuiet
  <2>9. QED
    BY <2>2, <2>3, <2>4, <2>5, <2>8
<1>3. DOMAIN T = BindingIds
  OBVIOUS
<1> HIDE DEF T
<1>4. /\ RowsMove /\ RowsQuiet
      /\ \A f \in DOMAIN forks :
           bindings[forks[f].target].state = "candidate"
             => bindings'[forks[f].target].state = "quarantined"
      /\ \A b \in BindingIds : ~bindings'[b].capability
  BY <1>0, <1>1, <1>2, <1>3, FencedRows
<1>5. restarts' \in 0..MaxRestarts
  BY <1>0, Numbers
<1>6. QED
  BY <1>1, <1>4, <1>5, NoCapability, RestoredOps, OwnerSafe

-----------------------------------------------------------------------------
(* All operations.                                                         *)

LEMMA BrokerStepSafe ==
  ASSUME BrokerInv, BrokerNext
  PROVE  SafeStep
<1>0. UNCHANGED profile
  BY DEF BrokerNext
<1>1. ASSUME NEW b \in BindingIds, BindingStep(b) PROVE SafeStep
  BY <1>0, <1>1, ReconnectSafe, PrepareSafe, ResumeSafe, PlanCompactionSafe, RetireSafe, CleanupSafe,
     ExpireSafe, RefreshSafe, DependenciesSafe, PlanForkSafe, TransformSafe DEF BindingStep
<1>2. ASSUME NEW o \in DOMAIN ops, OperationStep(o) PROVE SafeStep
  <2>1. ASSUME NEW ref \in Refs, ConflictingCompletion(o, ref) \/ QuarantineOperation(o, ref)
        PROVE  SafeStep
    BY <1>0, <2>1, QuarantineSafe DEF ConflictingCompletion, QuarantineOperation
  <2>2. QED
    BY <1>0, <1>2, <2>1, MarkSentSafe, MarkUnknownSafe, InterruptSafe, CompleteCandidateSafe,
       CompleteReconnectSafe, AcknowledgeSafe, CompleteTurnSafe DEF OperationStep
<1>3. ASSUME NEW j \in DOMAIN jobs, JobStep(j) PROVE SafeStep
  BY <1>0, <1>3, AdvanceSafe, CompactionSafe, CancelCompactionSafe DEF JobStep
<1>4. QED
  BY <1>0, <1>1, <1>2, <1>3, CreateSafe, AdmitOneShotSafe, AdmitSafe, CompleteForkSafe, RevokeSafe,
     ReplaceSafe, RecoverSafe, RestartSafe DEF BrokerNext, BrokerStep

\* The inductive invariant of the broker.
THEOREM BrokerInvariant == BrokerSpec => []BrokerInv
<1>1. BrokerInv /\ [BrokerNext]_brokerVars => BrokerInv'
  <2>1. ASSUME BrokerInv, BrokerNext PROVE BrokerInv'
    BY <2>1, BrokerStepSafe, MovesKeep DEF SafeStep
  <2>2. ASSUME BrokerInv, UNCHANGED brokerVars PROVE BrokerInv'
    <3>1. /\ UNCHANGED <<profile, owner, revocation, bindings, ops>>
          /\ UNCHANGED <<prepared, jobs, forks, inflight, restarts>>
      BY <2>2 DEF brokerVars
    <3>2. BrokerTypes'
      BY <2>2, <3>1 DEF BrokerInv, BrokerTypes, MaxOwner, MaxRevocation, MaxRestarts
    <3>3. BindingIds' = BindingIds
      BY <3>1 DEF BindingIds
    <3>4. \A b \in BindingIds : RowOK(bindings[b], owner)'
      BY <2>2, <3>1 DEF BrokerInv, RowOK, MaxSession, MaxHistory, Sources, MaxItems, OneShot
    <3>5. OneExecutable' /\ InflightOpen'
      BY <2>2, <3>1, <3>3 DEF BrokerInv, OneExecutable, Executable, InflightOpen
    <3>6. QED
      BY <2>2, <3>1, <3>2, <3>3, <3>4, <3>5 DEF BrokerInv, OpOK, TurnOK, JobOK, ForkOK
  <2>3. QED
    BY <2>1, <2>2
<1>2. QED
  BY <1>1, BrokerStarts, PTL DEF BrokerSpec

\* For any profiles, at most one binding may dispatch into the game and the one turn in
\* flight is an open turn of the current owner (broker_turns.rs, broker_snapshot.rs).
THEOREM BindingsStaySound == BrokerSpec => []BindingsSound
BY BrokerInvariant, BrokerInvSound, PTL

\* What a step does to bindings and operations.
LEMMA SafeRows ==
  ASSUME BrokerInv, SafeStep
  PROVE  /\ \A b \in BindingIds : Done(b) => Done(b)' /\ ~bindings'[b].capability
         /\ restarts' = restarts =>
              \A b \in BindingIds : bindings[b].state = "quarantined" => Fenced(b)'
         /\ \A f \in DOMAIN forks : ~bindings'[forks[f].target].capability
<1>1. ASSUME NEW b \in BindingIds PROVE RowMoved(bindings[b], bindings'[b])
  BY DEF SafeStep, Moves, RowsMove
<1>2. \A f \in DOMAIN forks : /\ forks[f].target \in BindingIds
                              /\ bindings[forks[f].target].purpose = "evaluation"
  BY DEF BrokerInv, ForkOK
<1>3. QED
  BY <1>1, <1>2 DEF RowMoved, RowOK, Done, Fenced

LEMMA SafeOps ==
  ASSUME BrokerInv, SafeStep, NEW o \in DOMAIN ops
  PROVE  /\ ops[o].kind = "turn" /\ (ops[o].state \notin OpOpen \/ ops[o].owner # owner)
              => ops'[o].state \in {ops[o].state, "unknown", "quarantined"}
         /\ ops[o].state \in {"cancelled", "quarantined"} => ops'[o].state = ops[o].state
         /\ ops[o].state = "completed" /\ ops'[o].state = "completed" => ops'[o] = ops[o]
  BY DEF SafeStep, Moves, OpsMove, OpMoved

LEMMA SafeRevocation ==
  ASSUME BrokerInv, NEW s, RevokeSources({s})
  PROVE  \A b \in BindingIds : s \in bindings[b].deps => Done(b)'
<1> SUFFICES ASSUME NEW b \in BindingIds, s \in bindings[b].deps PROVE Done(b)'
  OBVIOUS
<1>1. bindings[b] \in BindingRecords
  BY RowOf
<1>2. bindings'[b] = IF ~Done(b) THEN Retired(bindings[b]) ELSE bindings[b]
  BY DEF RevokeSources
<1>3. QED
  BY <1>1, <1>2, RetiredRow DEF Done

\* Late completions, changes of owner, revocations and restarts in any order: turns, reconnects
\* and compactions of a former owner and of revoked sources are fenced, a fork still a candidate
\* is quarantined, only a recovered one-shot binding still dispatches, and nothing that was
\* given up comes back (broker_retirement.rs, broker_maintenance.rs, broker_snapshot.rs).
THEOREM BrokerStaysFenced == BrokerSpec => BrokerStepsSound
<1>1. BrokerInv /\ [BrokerNext]_brokerVars => BrokerInv /\ [SafeStep]_brokerVars
  BY BrokerStepSafe
<1>2. BrokerInv /\ [BrokerNext]_brokerVars =>
        [\A b \in BindingIds : Done(b) => Done(b)' /\ ~bindings'[b].capability]_brokerVars
  BY BrokerStepSafe, SafeRows
<1>3. BrokerInv /\ [BrokerNext]_brokerVars =>
        [restarts' = restarts =>
           \A b \in BindingIds : bindings[b].state = "quarantined" => Fenced(b)']_brokerVars
  BY BrokerStepSafe, SafeRows
<1>4. BrokerInv /\ [BrokerNext]_brokerVars =>
        [owner' # owner =>
           /\ \A b \in BindingIds : Executable(b)' => Recover /\ bindings[b].state = "one_shot_pending"
           /\ \A p \in DOMAIN prepared' : ~Current(p)'
           /\ \A o \in DOMAIN ops : ops'[o].owner # owner'
           /\ \A j \in DOMAIN jobs : jobs'[j].state \notin JobOpen
           /\ \A f \in DOMAIN forks :
                bindings[forks[f].target].state = "candidate"
                  => bindings'[forks[f].target].state = "quarantined"]_brokerVars
  BY BrokerStepSafe DEF SafeStep, FormerFenced
<1>5. BrokerInv /\ [BrokerNext]_brokerVars =>
        [/\ revocation' # revocation => \A p \in DOMAIN prepared : ~Current(p)'
         /\ \A s \in Sources : RevokeSources({s}) =>
              \A b \in BindingIds : s \in bindings[b].deps => Done(b)']_brokerVars
  BY BrokerStepSafe, SafeRevocation DEF SafeStep
<1>6. BrokerInv /\ [BrokerNext]_brokerVars =>
        [\A o \in DOMAIN ops :
           /\ ops[o].kind = "turn" /\ (ops[o].state \notin OpOpen \/ ops[o].owner # owner)
                 => ops'[o].state \in {ops[o].state, "unknown", "quarantined"}
           /\ ops[o].state \in {"cancelled", "quarantined"} => ops'[o].state = ops[o].state
           /\ ops[o].state = "completed" /\ ops'[o].state = "completed" => ops'[o] = ops[o]]_brokerVars
  BY BrokerStepSafe, SafeOps
<1>7. BrokerInv /\ [BrokerNext]_brokerVars =>
        [\A f \in DOMAIN forks :
           LET target == forks[f].target IN
           /\ ~bindings'[target].capability
           /\ bindings[target].state = "candidate" /\ bindings'[target].state = "held" =>
                /\ ~Done(forks[f].source)
                /\ bindings[forks[f].source].history = forks[f].history]_brokerVars
  BY BrokerStepSafe, SafeRows DEF SafeStep, PublishedSame
<1>8. BrokerSpec => RetiredStaysRetired
  BY <1>2, BrokerInvariant, PTL DEF BrokerSpec, RetiredStaysRetired
<1>9. BrokerSpec => QuarantineHolds
  BY <1>3, BrokerInvariant, PTL DEF BrokerSpec, QuarantineHolds
<1>10. BrokerSpec => OwnerChangeFences
  BY <1>4, BrokerInvariant, PTL DEF BrokerSpec, OwnerChangeFences
<1>11. BrokerSpec => RevocationFences
  BY <1>5, BrokerInvariant, PTL DEF BrokerSpec, RevocationFences
<1>12. BrokerSpec => TurnOutcomesFinal
  BY <1>6, BrokerInvariant, PTL DEF BrokerSpec, TurnOutcomesFinal
<1>13. BrokerSpec => ForksEvaluate
  BY <1>7, BrokerInvariant, PTL DEF BrokerSpec, ForksEvaluate
<1>14. QED
  BY <1>8, <1>9, <1>10, <1>11, <1>12, <1>13 DEF BrokerStepsSound, StaleWorkFenced, LeftForGood

-----------------------------------------------------------------------------
(* Studio authoring.                                                       *)

\* Where a request can be.
PublishRequests ==
    [at: {"publishing"}, draft: Drafts, expected: {e \in DraftRows : e.body.document \in Compiles}]
AskRequests == [at: {"admitted", "asking"}, key: OperationIds, base: DraftRows]
SealRequests == [at: {"generated", "sealed"}, key: OperationIds, base: DraftRows, proposal: Compiles]
HandlerStates == {NoRequest} \cup PublishRequests \cup AskRequests \cup SealRequests

\* The record is one of these versions of a draft.
OneOf(row, bodies) ==
    /\ row \in DraftRows
    /\ row.revision < Len(bodies)
    /\ bodies[row.revision + 1] = row.body

\* The handler is at work on the operation.
Owns(a) == handler[a].at \in {"asking", "generated", "sealed"}

DraftTypes ==
    /\ drafts \in [Drafts -> DraftRows \cup {Unwritten}]
    /\ receipts \in [MutationKeys -> DraftRows \cup {Unwritten}]
    /\ versions \in [Drafts -> Seq(Bodies)]

\* The draft is the last of its versions.
Lineage ==
    \A d \in Drafts :
        IF drafts[d] = Unwritten THEN Len(versions[d]) = 0
        ELSE Len(versions[d]) = drafts[d].revision + 1 /\ OneOf(drafts[d], versions[d])

\* A receipt is of a version, and of no other mutation's.
ReceiptsOwn ==
    /\ \A k \in MutationKeys : receipts[k] # Unwritten => OneOf(receipts[k], versions[k[1]])
    /\ \A k, l \in MutationKeys :
          /\ receipts[k] # Unwritten /\ receipts[l] # Unwritten
          /\ k[1] = l[1] /\ receipts[k].revision = receipts[l].revision
          => k = l

AcksReceipted ==
    \A s \in acknowledged : s \in MutationKeys \X DraftRows /\ receipts[s[1]] = s[2]

DraftInv == DraftTypes /\ Lineage /\ ReceiptsOwn /\ AcksReceipted

HandlersTyped == handler \in [Authors -> HandlerStates]

PublicationsServed ==
    /\ publications \in [Documents -> [draft: Drafts, revision: Revisions] \cup {Unwritten}]
    /\ \A x \in Documents : publications[x] # Unwritten =>
          /\ x \in Compiles
          /\ publications[x].revision < Len(versions[publications[x].draft])
          /\ versions[publications[x].draft][publications[x].revision + 1].document = x

OperationTypes ==
    /\ operations \in [OperationIds -> OperationRows \cup {Unwritten}]
    /\ contacts \in [OperationIds -> Nat]
    /\ servedBase \in [OperationIds -> DraftRows \cup {Unwritten}]
    /\ answered \in SUBSET [key: OperationIds, state: TerminalStates, proposal: Documents \cup {Unwritten}]

\* A base was served, and not after the draft that was served when the provider answered.
BasesServed ==
    \A a \in Authors :
        /\ handler[a].at \in {"admitted", "asking", "generated", "sealed"} =>
              OneOf(handler[a].base, versions[handler[a].key[1]])
        /\ handler[a].at = "generated" =>
              /\ OneOf(servedBase[handler[a].key], versions[handler[a].key[1]])
              /\ handler[a].base.revision =< servedBase[handler[a].key].revision
        /\ handler[a].at = "sealed" => servedBase[handler[a].key] = handler[a].base

\* One handler at most works on an operation, whose row is pending and of its base.
OneOwner ==
    /\ \A a \in Authors : Owns(a) =>
          /\ operations[handler[a].key] # Unwritten
          /\ operations[handler[a].key].state = "pending"
          /\ operations[handler[a].key].base = handler[a].base
    /\ \A a, b \in Authors : Owns(a) /\ Owns(b) /\ handler[a].key = handler[b].key => a = b

\* An operation a client was told the end of has no handler any more.
ToldIsOver ==
    \A t \in answered :
        /\ operations[t.key] # Unwritten
        /\ \A a \in Authors : Owns(a) => handler[a].key # t.key

OperationInv ==
    /\ OperationTypes
    /\ BasesServed
    /\ OneOwner
    /\ ContactedOnce
    /\ ProposalFresh
    /\ ToldIsRecorded
    /\ ToldIsOver

\* The inductive invariant.
AuthoringInv == DraftInv /\ HandlersTyped /\ PublicationsServed /\ OperationInv

----------------------------------------------------------------------------
\* It implies what the run checks.
LEMMA InvImpliesSound == AuthoringInv => AuthoringSound
<1> SUFFICES ASSUME AuthoringInv PROVE AuthoringSound
    OBVIOUS
<1>1. AuthoringTypeOK
    BY DEF AuthoringInv, DraftInv, DraftTypes, OperationInv, OperationTypes, AuthoringTypeOK
<1>2. AppliedOnce
  <2>1. \A k \in MutationKeys : receipts[k] # Unwritten =>
            versions[k[1]][receipts[k].revision + 1] = receipts[k].body
      BY DEF AuthoringInv, DraftInv, ReceiptsOwn, OneOf
  <2>2. ASSUME NEW s \in acknowledged, NEW t \in acknowledged
        PROVE /\ s[2].revision < Len(versions[s[1][1]])
              /\ s[1][1] = t[1][1] => (s[1] = t[1] <=> s[2].revision = t[2].revision)
    <3>1. /\ s[1] \in MutationKeys /\ s[2] \in DraftRows /\ receipts[s[1]] = s[2]
          /\ t[1] \in MutationKeys /\ t[2] \in DraftRows /\ receipts[t[1]] = t[2]
        BY DEF AuthoringInv, DraftInv, AcksReceipted
    <3>2. receipts[s[1]] # Unwritten /\ receipts[t[1]] # Unwritten
        BY <3>1, AuthoringAssumption
    <3> QED
        BY <3>1, <3>2 DEF AuthoringInv, DraftInv, ReceiptsOwn, OneOf
  <2> QED
      BY <2>1, <2>2 DEF AppliedOnce
<1>3. PublishedWasValidated
    BY DEF AuthoringInv, PublicationsServed, PublishedWasValidated
<1>4. ContactedOnce /\ ProposalFresh /\ ToldIsRecorded
    BY DEF AuthoringInv, OperationInv
<1> QED
    BY <1>1, <1>2, <1>3, <1>4 DEF AuthoringSound

\* The tables are empty and nobody is at work.
LEMMA InitInv == AuthoringInit => AuthoringInv
<1> SUFFICES ASSUME AuthoringInit PROVE AuthoringInv
    OBVIOUS
<1>1. DraftInv
    BY DEF AuthoringInit, DraftInv, DraftTypes, Lineage, ReceiptsOwn, AcksReceipted, OneOf
<1>2. HandlersTyped
    BY DEF AuthoringInit, HandlersTyped, HandlerStates
<1>3. PublicationsServed
    BY DEF AuthoringInit, PublicationsServed
<1>4. OperationInv
    BY DEF AuthoringInit, NoRequest, OperationInv, OperationTypes, BasesServed, OneOwner, Owns,
           ContactedOnce, ProposalFresh, ToldIsRecorded, ToldIsOver
<1> QED
    BY <1>1, <1>2, <1>3, <1>4 DEF AuthoringInv

----------------------------------------------------------------------------
(* Drafts.                                                                 *)

\* WriteDraft appends: every version stays where it is.
LEMMA WriteAppends ==
    ASSUME DraftInv, NEW k \in MutationKeys, NEW row \in DraftRows, WriteDraft(k, row),
           row.revision = Len(versions[k[1]])
    PROVE  /\ versions' \in [Drafts -> Seq(Bodies)]
           /\ \A d \in Drafts : /\ Len(versions[d]) =< Len(versions'[d])
                                /\ \A i \in 1 .. Len(versions[d]) : versions'[d][i] = versions[d][i]
           /\ Len(versions'[k[1]]) = row.revision + 1
           /\ versions'[k[1]][row.revision + 1] = row.body
           /\ \A d \in Drafts : d # k[1] => versions'[d] = versions[d]
<1>1. k[1] \in Drafts /\ row.body \in Bodies /\ row.revision \in Nat
    BY DEF MutationKeys, DraftRows, Revisions
<1>2. versions' = [versions EXCEPT ![k[1]] = Append(@, row.body)]
    BY DEF WriteDraft
<1>3. versions \in [Drafts -> Seq(Bodies)]
    BY DEF DraftInv, DraftTypes
<1> QED
    BY <1>1, <1>2, <1>3

\* A new version with its receipt keeps lineage and receipts, and what was served.
LEMMA WriteKeepsDrafts ==
    ASSUME DraftInv, NEW k \in MutationKeys, NEW row \in DraftRows, WriteDraft(k, row),
           row.revision = Len(versions[k[1]]), receipts[k] = Unwritten
    PROVE  DraftInv' /\ \A d \in Drafts : \A r : OneOf(r, versions[d]) => OneOf(r, versions'[d])
<1>1. k[1] \in Drafts /\ row # Unwritten /\ row.revision \in Nat
    BY AuthoringAssumption DEF MutationKeys, DraftRows, Revisions
<1>2. /\ drafts' = [drafts EXCEPT ![k[1]] = row]
      /\ receipts' = [receipts EXCEPT ![k] = row]
      /\ acknowledged' = acknowledged \cup {<<k, row>>}
    BY DEF WriteDraft
<1>3. ASSUME NEW d \in Drafts, NEW r, OneOf(r, versions[d]) PROVE OneOf(r, versions'[d])
  <2>1. r.revision \in Nat /\ Len(versions[d]) \in Nat
      BY <1>3 DEF OneOf, DraftRows, Revisions, DraftInv, DraftTypes
  <2>2. r.revision + 1 \in 1 .. Len(versions[d])
      BY <2>1, <1>3 DEF OneOf
  <2>3. Len(versions'[d]) \in Nat
      BY WriteAppends
  <2> QED
      BY <2>1, <2>2, <2>3, <1>3, WriteAppends DEF OneOf
<1>4. OneOf(row, versions'[k[1]])
    BY <1>1, WriteAppends DEF OneOf
<1>5. DraftTypes'
    BY <1>1, <1>2, WriteAppends DEF DraftInv, DraftTypes
<1>6. Lineage'
    BY <1>1, <1>2, <1>3, <1>4, WriteAppends DEF DraftInv, DraftTypes, Lineage
<1>7. ReceiptsOwn'
  <2>1. \A l \in MutationKeys : receipts'[l] # Unwritten => OneOf(receipts'[l], versions'[l[1]])
      BY <1>2, <1>3, <1>4 DEF DraftInv, DraftTypes, ReceiptsOwn, MutationKeys
  <2>2. ASSUME NEW l \in MutationKeys, l # k, l[1] = k[1], receipts'[l] # Unwritten
        PROVE receipts'[l].revision # row.revision
      BY <2>2, <1>1, <1>2 DEF DraftInv, DraftTypes, ReceiptsOwn, OneOf, DraftRows, Revisions
  <2>3. \A l \in MutationKeys : receipts'[l] = IF l = k THEN row ELSE receipts[l]
      BY <1>2 DEF DraftInv, DraftTypes
  <2>4. ASSUME NEW l \in MutationKeys, NEW n \in MutationKeys,
               receipts'[l] # Unwritten, receipts'[n] # Unwritten, l[1] = n[1],
               receipts'[l].revision = receipts'[n].revision
        PROVE l = n
      BY <2>2, <2>3, <2>4 DEF DraftInv, ReceiptsOwn
  <2> QED
      BY <2>1, <2>4 DEF ReceiptsOwn
<1>8. AcksReceipted'
  <2> SUFFICES ASSUME NEW s \in acknowledged'
               PROVE s \in MutationKeys \X DraftRows /\ receipts'[s[1]] = s[2]
      BY DEF AcksReceipted
  <2>1. CASE s = <<k, row>>
      BY <2>1, <1>2 DEF DraftInv, DraftTypes
  <2>2. CASE s \in acknowledged
    <3>1. s \in MutationKeys \X DraftRows /\ receipts[s[1]] = s[2]
        BY <2>2 DEF DraftInv, AcksReceipted
    <3>2. s[1] # k
        BY <3>1, AuthoringAssumption
    <3> QED
        BY <3>1, <3>2, <1>2 DEF DraftInv, DraftTypes
  <2> QED
      BY <2>1, <2>2, <1>2
<1> QED
    BY <1>3, <1>5, <1>6, <1>7, <1>8 DEF DraftInv

\* Every version stays where it is.
VersionsGrow ==
    \A d \in Drafts :
        /\ Len(versions[d]) =< Len(versions'[d])
        /\ \A i \in 1 .. Len(versions[d]) : versions'[d][i] = versions[d][i]

\* A step that leaves the versions alone.
LEMMA SameVersionsGrow == ASSUME UNCHANGED versions, DraftInv PROVE VersionsGrow
<1>1. \A d \in Drafts : Len(versions[d]) \in Nat
    BY DEF DraftInv, DraftTypes
<1> QED
    BY <1>1 DEF VersionsGrow

\* What was served stays a version.
LEMMA GrowthKeepsServed ==
    ASSUME DraftInv, DraftInv', VersionsGrow, NEW d \in Drafts, NEW row, OneOf(row, versions[d])
    PROVE  OneOf(row, versions'[d])
<1>1. row.revision \in Nat /\ Len(versions[d]) \in Nat /\ Len(versions'[d]) \in Nat
    BY DEF OneOf, DraftRows, Revisions, DraftInv, DraftTypes
<1>2. row.revision + 1 \in 1 .. Len(versions[d])
    BY <1>1 DEF OneOf
<1> QED
    BY <1>1, <1>2 DEF OneOf, VersionsGrow

\* Drafts change by appending a version only: create_draft and save_draft.
LEMMA DraftsStep ==
    ASSUME DraftInv, [AuthoringNext]_authoringVars
    PROVE  DraftInv' /\ VersionsGrow
<1>1. ASSUME NEW k \in MutationKeys, NEW b \in Bodies, CreateDraft(k, b)
      PROVE  DraftInv' /\ VersionsGrow
  <2> DEFINE row == [revision |-> 0, body |-> b]
  <2>1. k[1] \in Drafts /\ row \in DraftRows
      BY AuthoringAssumption DEF MutationKeys, DraftRows, Revisions
  <2>2. Len(versions[k[1]]) = 0
      BY <1>1, <2>1 DEF CreateDraft, DraftInv, Lineage
  <2>3. receipts[k] = Unwritten
      BY <2>1, <2>2 DEF DraftInv, ReceiptsOwn, OneOf, DraftRows, Revisions
  <2>4. WriteDraft(k, row)
      BY <1>1 DEF CreateDraft
  <2>5. row.revision = Len(versions[k[1]])
      BY <2>2
  <2> HIDE DEF row
  <2> QED
      BY <2>1, <2>3, <2>4, <2>5, WriteKeepsDrafts, WriteAppends DEF VersionsGrow
<1>2. ASSUME NEW k \in MutationKeys, NEW b \in Bodies, SaveDraft(k, b)
      PROVE  DraftInv' /\ VersionsGrow
  <2>1. CASE UNCHANGED <<drafts, receipts, versions>> /\ SaveReplays(k, b)
                /\ acknowledged' = acknowledged \cup {<<k, receipts[k]>>}
    <3>1. DraftTypes' /\ Lineage' /\ ReceiptsOwn'
        BY <2>1 DEF DraftInv, DraftTypes, Lineage, ReceiptsOwn
    <3>2. receipts[k] \in DraftRows
        BY <2>1 DEF SaveReplays, DraftInv, DraftTypes
    <3>3. AcksReceipted'
        BY <2>1, <3>2 DEF DraftInv, AcksReceipted
    <3> QED
        BY <2>1, <3>1, <3>3, SameVersionsGrow DEF DraftInv
  <2>2. CASE /\ receipts[k] = Unwritten
             /\ drafts[k[1]].revision < MaxRevision
             /\ WriteDraft(k, [revision |-> drafts[k[1]].revision + 1, body |-> b])
    <3> DEFINE row == [revision |-> drafts[k[1]].revision + 1, body |-> b]
    <3>1. k[1] \in Drafts /\ drafts[k[1]] # Unwritten
        BY <1>2 DEF MutationKeys, SaveDraft
    <3>2. drafts[k[1]] \in DraftRows
        BY <3>1 DEF DraftInv, DraftTypes
    <3>3. row \in DraftRows
        BY <2>2, <3>2, AuthoringAssumption DEF DraftRows, Revisions
    <3>4. row.revision = Len(versions[k[1]])
        BY <3>1 DEF DraftInv, Lineage
    <3>5. WriteDraft(k, row)
        BY <2>2
    <3> HIDE DEF row
    <3> QED
        BY <2>2, <3>3, <3>4, <3>5, WriteKeepsDrafts, WriteAppends DEF VersionsGrow
  <2> QED
      BY <1>2, <2>1, <2>2 DEF SaveDraft, SaveApplies
<1>3. CASE UNCHANGED <<drafts, receipts, versions, acknowledged>>
  <2>1. DraftInv'
      BY <1>3 DEF DraftInv, DraftTypes, Lineage, ReceiptsOwn, AcksReceipted
  <2> QED
      BY <1>3, <2>1, SameVersionsGrow
<1> QED
    BY <1>1, <1>2, <1>3
       DEF AuthoringNext, authoringVars, ReadForPublication, AdmitBase, AdmitCandidate, PublishDraft,
           BeginOperation, ReplayOperation, ProviderEnds, RefuseCandidate, ReadAgain, Propose,
           RestartService

----------------------------------------------------------------------------
(* Handlers and publications.                                              *)

\* A handler goes from one of its states to another.
LEMMA HandlersStep ==
    ASSUME AuthoringInv, [AuthoringNext]_authoringVars
    PROVE  HandlersTyped'
<1> USE DEF AuthoringInv, HandlersTyped
<1>1. handler \in [Authors -> HandlerStates]
    OBVIOUS
<1>2. NoRequest \in HandlerStates
    BY DEF HandlerStates
<1>3. CASE \E a \in Authors : handler' = [handler EXCEPT ![a] = NoRequest]
    BY <1>1, <1>2, <1>3
<1>4. ASSUME NEW a \in Authors, NEW d \in Drafts, ReadForPublication(a, d) PROVE HandlersTyped'
  <2>1. [at |-> "publishing", draft |-> d, expected |-> drafts[d]] \in HandlerStates
      BY <1>4 DEF ReadForPublication, HandlerStates, PublishRequests, DraftInv, DraftTypes
  <2> QED
      BY <1>1, <1>4, <2>1 DEF ReadForPublication
<1>5. ASSUME NEW a \in Authors, NEW k \in OperationIds, AdmitBase(a, k) PROVE HandlersTyped'
  <2>1. [at |-> "admitted", key |-> k, base |-> drafts[k[1]]] \in HandlerStates
      BY <1>5 DEF AdmitBase, HandlerStates, AskRequests, OperationIds, DraftInv, DraftTypes
  <2> QED
      BY <1>1, <1>5, <2>1 DEF AdmitBase
<1>6. ASSUME NEW a \in Authors, handler[a].at = "admitted"
      PROVE  [handler[a] EXCEPT !.at = "asking"] \in HandlerStates
  <2>1. handler[a] \in AskRequests
      BY <1>1, <1>6 DEF HandlerStates, NoRequest, PublishRequests, AskRequests, SealRequests
  <2> QED
      BY <2>1 DEF HandlerStates, AskRequests
<1>7. ASSUME NEW a \in Authors, BeginOperation(a) PROVE HandlersTyped'
    BY <1>1, <1>6, <1>7 DEF BeginOperation
<1>8. ASSUME NEW a \in Authors, NEW x \in Documents, AdmitCandidate(a, x) PROVE HandlersTyped'
  <2>1. handler[a] \in AskRequests
      BY <1>1, <1>8 DEF AdmitCandidate, HandlerStates, NoRequest, PublishRequests, AskRequests, SealRequests
  <2>2. [at |-> "generated", key |-> handler[a].key, base |-> handler[a].base, proposal |-> x]
            \in HandlerStates
      BY <1>8, <2>1 DEF AdmitCandidate, HandlerStates, AskRequests, SealRequests
  <2> QED
      BY <1>1, <1>8, <2>2 DEF AdmitCandidate
<1>9. ASSUME NEW a \in Authors, ReadAgain(a), handler' = [handler EXCEPT ![a].at = "sealed"]
      PROVE  HandlersTyped'
  <2>1. handler[a] \in SealRequests
      BY <1>1, <1>9 DEF ReadAgain, HandlerStates, NoRequest, PublishRequests, AskRequests, SealRequests
  <2>2. [handler[a] EXCEPT !.at = "sealed"] \in HandlerStates
      BY <2>1 DEF HandlerStates, SealRequests
  <2> QED
      BY <1>1, <1>9, <2>2
<1>10. CASE UNCHANGED handler
    BY <1>10
<1>11. CASE RestartService
    BY <1>2, <1>11 DEF RestartService
<1>12. CASE \E k \in MutationKeys, b \in Bodies : CreateDraft(k, b) \/ SaveDraft(k, b)
    BY <1>12, <1>10 DEF CreateDraft, SaveDraft
<1>13. ASSUME NEW a \in Authors,
              \/ PublishDraft(a) \/ ReplayOperation(a) \/ ProviderEnds(a) \/ RefuseCandidate(a)
              \/ Propose(a)
       PROVE  HandlersTyped'
    BY <1>3, <1>13 DEF PublishDraft, ReplayOperation, ProviderEnds, RefuseCandidate, Propose, EndOperation
<1>14. ASSUME NEW a \in Authors, ReadAgain(a) PROVE HandlersTyped'
    BY <1>3, <1>9, <1>14 DEF ReadAgain, EndOperation
<1> QED
    BY <1>4, <1>5, <1>7, <1>8, <1>10, <1>11, <1>12, <1>13, <1>14 DEF AuthoringNext, authoringVars

\* What publish_draft writes is the document that was validated.
LEMMA PublicationsStep ==
    ASSUME AuthoringInv, DraftInv', VersionsGrow, [AuthoringNext]_authoringVars
    PROVE  PublicationsServed'
<1> USE DEF AuthoringInv
<1>1. ASSUME NEW x \in Documents, publications[x] # Unwritten
      PROVE  /\ publications[x] \in [draft: Drafts, revision: Revisions]
             /\ publications[x].revision < Len(versions'[publications[x].draft])
             /\ versions'[publications[x].draft][publications[x].revision + 1].document = x
  <2>1. publications[x] \in [draft: Drafts, revision: Revisions]
      BY <1>1 DEF PublicationsServed
  <2> DEFINE d == publications[x].draft
             r == publications[x].revision
  <2>2. d \in Drafts /\ r \in Nat /\ Len(versions[d]) \in Nat /\ Len(versions'[d]) \in Nat
      BY <2>1 DEF Revisions, DraftInv, DraftTypes
  <2>3. r < Len(versions[d]) /\ versions[d][r + 1].document = x
      BY <1>1 DEF PublicationsServed
  <2>4. r + 1 \in 1 .. Len(versions[d])
      BY <2>2, <2>3
  <2> QED
      BY <2>1, <2>2, <2>3, <2>4 DEF VersionsGrow
<1>2. CASE UNCHANGED publications
    BY <1>1, <1>2 DEF PublicationsServed
<1>3. ASSUME NEW a \in Authors, PublishDraft(a), publications' # publications
      PROVE  PublicationsServed'
  <2> DEFINE d == handler[a].draft
             x == drafts[d].body.document
  <2>1. handler[a] \in PublishRequests
      BY <1>3 DEF PublishDraft, HandlersTyped, HandlerStates, NoRequest, PublishRequests, AskRequests,
                  SealRequests
  <2>2. drafts[d] = handler[a].expected /\ d \in Drafts
      BY <1>3, <2>1 DEF PublishDraft, StillServed, PublishRequests
  <2>3. drafts[d] \in DraftRows /\ x \in Compiles
      BY <2>1, <2>2 DEF PublishRequests
  <2>4. x \in Documents /\ drafts[d] # Unwritten
      BY <2>3, AuthoringAssumption
  <2>5. publications' = [publications EXCEPT ![x] = [draft |-> d, revision |-> drafts[d].revision]]
      BY <1>3 DEF PublishDraft
  <2>6. OneOf(drafts[d], versions'[d])
    <3>1. versions' = versions
        BY <1>3 DEF PublishDraft
    <3> QED
        BY <2>2, <2>4, <3>1 DEF DraftInv, Lineage
  <2>7. [draft |-> d, revision |-> drafts[d].revision] \in [draft: Drafts, revision: Revisions]
      BY <2>2, <2>3 DEF DraftRows
  <2>8. /\ drafts[d].revision < Len(versions'[d])
        /\ versions'[d][drafts[d].revision + 1].document = x
      BY <2>6 DEF OneOf
  <2> HIDE DEF d, x
  <2> QED
      BY <1>1, <2>3, <2>4, <2>5, <2>7, <2>8 DEF PublicationsServed
<1> QED
    BY <1>2, <1>3
       DEF AuthoringNext, authoringVars, CreateDraft, SaveDraft, ReadForPublication, AdmitBase,
           AdmitCandidate, BeginOperation, ReplayOperation, ProviderEnds, RefuseCandidate, ReadAgain,
           Propose, RestartService

----------------------------------------------------------------------------
(* Proposals.                                                              *)

\* A handler that has admitted a base has a key and a base.
LEMMA KeysTyped ==
    ASSUME HandlersTyped, NEW a \in Authors, handler[a].at \in {"admitted", "asking", "generated", "sealed"}
    PROVE  /\ handler[a].key \in OperationIds /\ handler[a].key[1] \in Drafts
           /\ handler[a].base \in DraftRows
           /\ handler[a].at \in {"generated", "sealed"} => handler[a].proposal \in Compiles
<1>1. handler[a] \in AskRequests \cup SealRequests
    BY DEF HandlersTyped, HandlerStates, NoRequest, PublishRequests, AskRequests, SealRequests
<1> QED
    BY <1>1 DEF AskRequests, SealRequests, OperationIds

\* A step that leaves the operations alone, and whose handlers stay, go or admit a base.
LEMMA QuietStep ==
    ASSUME AuthoringInv, DraftInv', VersionsGrow,
           UNCHANGED <<operations, contacts, answered, servedBase>>,
           \A b \in Authors : \/ handler'[b] = handler[b]
                              \/ handler'[b].at \in {"free", "publishing"}
                              \/ /\ handler'[b].at = "admitted"
                                 /\ OneOf(handler'[b].base, versions'[handler'[b].key[1]])
    PROVE  OperationInv'
<1> USE DEF AuthoringInv, OperationInv
<1>1. OperationTypes' /\ ContactedOnce' /\ ProposalFresh' /\ ToldIsRecorded'
    BY DEF OperationTypes, ContactedOnce, ProposalFresh, ToldIsRecorded
<1>2. \A b \in Authors : Owns(b)' => Owns(b) /\ handler'[b] = handler[b]
    BY DEF Owns
<1>3. OneOwner' /\ ToldIsOver'
    BY <1>2 DEF OneOwner, ToldIsOver
<1>4. BasesServed'
  <2> SUFFICES ASSUME NEW b \in Authors
               PROVE  /\ handler'[b].at \in {"admitted", "asking", "generated", "sealed"} =>
                            OneOf(handler'[b].base, versions'[handler'[b].key[1]])
                      /\ handler'[b].at = "generated" =>
                            /\ OneOf(servedBase[handler'[b].key], versions'[handler'[b].key[1]])
                            /\ handler'[b].base.revision =< servedBase[handler'[b].key].revision
                      /\ handler'[b].at = "sealed" => servedBase[handler'[b].key] = handler'[b].base
      BY DEF BasesServed
  <2>1. CASE handler'[b] # handler[b]
      BY <2>1
  <2>2. CASE handler'[b] = handler[b] /\ handler[b].at \in {"admitted", "asking", "generated", "sealed"}
    <3>1. handler[b].key[1] \in Drafts
        BY <2>2, KeysTyped
    <3>2. OneOf(handler[b].base, versions'[handler[b].key[1]])
        BY <2>2, <3>1, GrowthKeepsServed DEF BasesServed
    <3>3. handler[b].at = "generated" => OneOf(servedBase[handler[b].key], versions'[handler[b].key[1]])
        BY <3>1, GrowthKeepsServed DEF BasesServed
    <3> QED
        BY <2>2, <3>2, <3>3 DEF BasesServed
  <2> QED
      BY <2>1, <2>2
<1> QED
    BY <1>1, <1>3, <1>4

\* The outcome of an operation is told, and recorded unless it is a refusal.
LEMMA OutcomeStep ==
    ASSUME AuthoringInv, DraftInv', UNCHANGED <<versions, contacts, servedBase>>,
           NEW a \in Authors, Owns(a),
           handler' = [handler EXCEPT ![a] = NoRequest],
           NEW state \in TerminalStates, NEW proposal \in Documents \cup {Unwritten},
           \/ operations' = [operations EXCEPT ![handler[a].key] = OutcomeRow(@, state, proposal)]
           \/ state = "refused" /\ operations' = operations,
           state = "proposed" => handler[a].at = "sealed" /\ proposal = handler[a].proposal,
           TellClient(handler[a].key, state, proposal)
    PROVE  OperationInv'
<1> USE DEF AuthoringInv, OperationInv
<1> DEFINE k == handler[a].key
           told == [key |-> k, state |-> state, proposal |-> proposal]
<1>1. k \in OperationIds /\ (handler[a].at = "sealed" => handler[a].proposal \in Compiles)
    BY KeysTyped DEF Owns
<1>2. /\ operations[k] \in OperationRows
      /\ operations[k].state = "pending" /\ operations[k].base = handler[a].base
    BY <1>1 DEF OneOwner, OperationTypes
<1>3. /\ operations' \in [OperationIds -> OperationRows \cup {Unwritten}]
      /\ \A l \in OperationIds : l # k => operations'[l] = operations[l]
      /\ operations'[k] \in OperationRows /\ operations'[k].base = operations[k].base
      /\ \/ operations'[k].state = state /\ operations'[k].proposal = proposal
         \/ state = "refused" /\ operations'[k] = operations[k]
  <2> DEFINE row == [operations[k] EXCEPT !.state = state, !.proposal = proposal]
  <2>1. OutcomeRow(operations[k], state, proposal) = row
      BY <1>2 DEF OutcomeRow
  <2>2. row \in OperationRows /\ row.base = operations[k].base /\ row.state = state /\ row.proposal = proposal
      BY <1>2 DEF OperationRows
  <2>3. CASE operations' = [operations EXCEPT ![k] = row]
    <3> HIDE DEF row, k
    <3> QED
        BY <1>1, <2>2, <2>3 DEF OperationTypes
  <2>4. CASE operations' = operations /\ state = "refused"
      BY <1>1, <1>2, <2>4 DEF OperationTypes
  <2> QED
      BY <2>1, <2>3, <2>4
<1>4. \A b \in Authors : Owns(b)' => b # a /\ Owns(b) /\ handler'[b] = handler[b] /\ handler[b].key # k
    BY DEF Owns, NoRequest, HandlersTyped, OneOwner
<1>5. operations'[k] # Unwritten
    BY <1>3, AuthoringAssumption
<1>6. /\ answered' = answered \cup {told}
      /\ told \in [key: OperationIds, state: TerminalStates, proposal: Documents \cup {Unwritten}]
    BY <1>1 DEF TellClient
<1>7. OperationTypes'
    BY <1>3, <1>6 DEF OperationTypes
<1>8. BasesServed'
    BY DEF BasesServed, NoRequest, HandlersTyped
<1>9. OneOwner'
  <2>1. \A b \in Authors : Owns(b)' => handler'[b].key \in OperationIds
      BY <1>4, KeysTyped DEF Owns
  <2> QED
      BY <1>3, <1>4, <2>1 DEF OneOwner
<1>10. ContactedOnce'
    BY <1>2, <1>3, <1>5, AuthoringAssumption DEF ContactedOnce, OperationTypes
<1>11. ProposalFresh'
  <2>1. state = "proposed" => handler[a].base = servedBase[k] /\ proposal \in Compiles
      BY <1>1 DEF BasesServed
  <2>2. operations'[k].state = "proposed" =>
            operations'[k].base = servedBase[k] /\ operations'[k].proposal \in Compiles
      BY <1>2, <1>3, <2>1
  <2> QED
      BY <1>3, <2>2 DEF ProposalFresh
<1>12. ASSUME NEW t \in answered PROVE t.key \in OperationIds /\ t.key # k
    BY <1>12 DEF OperationTypes, ToldIsOver
<1>13. told.key = k /\ told.state = state /\ told.proposal = proposal
    OBVIOUS
<1> HIDE DEF told, k
<1>14. ToldIsRecorded'
    BY <1>2, <1>3, <1>6, <1>12, <1>13 DEF ToldIsRecorded
<1>15. ToldIsOver'
  <2> SUFFICES ASSUME NEW t \in answered'
               PROVE /\ operations'[t.key] # Unwritten
                     /\ \A b \in Authors : Owns(b)' => handler'[b].key # t.key
      BY DEF ToldIsOver
  <2>1. CASE t = told
      BY <2>1, <1>4, <1>5, <1>13
  <2>2. CASE t \in answered
      BY <2>2, <1>3, <1>4, <1>12 DEF ToldIsOver
  <2> QED
      BY <2>1, <2>2, <1>6
<1> QED
    BY <1>7, <1>8, <1>9, <1>10, <1>11, <1>14, <1>15

\* The steps of a proposal, and of everybody else, keep the journal sound.
LEMMA OperationsStep ==
    ASSUME AuthoringInv, DraftInv', VersionsGrow, [AuthoringNext]_authoringVars
    PROVE  OperationInv'
<1> USE DEF AuthoringInv, OperationInv
<1>1. CASE UNCHANGED <<operations, contacts, answered, servedBase, handler>>
    BY <1>1, QuietStep
<1>2. ASSUME NEW a \in Authors, NEW d \in Drafts, ReadForPublication(a, d) PROVE OperationInv'
    BY <1>2, QuietStep DEF ReadForPublication, HandlersTyped
<1>3. ASSUME NEW a \in Authors, PublishDraft(a) PROVE OperationInv'
    BY <1>3, QuietStep DEF PublishDraft, HandlersTyped, NoRequest
<1>4. CASE RestartService
    BY <1>4, QuietStep DEF RestartService, NoRequest
<1>5. ASSUME NEW a \in Authors, NEW k \in OperationIds, AdmitBase(a, k) PROVE OperationInv'
  <2>1. OneOf(drafts[k[1]], versions'[k[1]])
      BY <1>5 DEF AdmitBase, DraftInv, Lineage, OperationIds
  <2>2. handler' = [handler EXCEPT ![a] = [at |-> "admitted", key |-> k, base |-> drafts[k[1]]]]
      BY <1>5 DEF AdmitBase
  <2>3. handler'[a].at = "admitted" /\ handler'[a].key = k /\ handler'[a].base = drafts[k[1]]
      BY <2>2 DEF HandlersTyped
  <2>4. \A b \in Authors : b # a => handler'[b] = handler[b]
      BY <2>2 DEF HandlersTyped
  <2> QED
      BY <1>5, <2>1, <2>3, <2>4, QuietStep DEF AdmitBase
<1>6. ASSUME NEW a \in Authors, BeginOperation(a) PROVE OperationInv'
  <2> DEFINE k == handler[a].key
             row == [base |-> handler[a].base, state |-> "pending", proposal |-> Unwritten]
  <2>1. /\ handler[a].at = "admitted" /\ operations[k] = Unwritten
        /\ operations' = [operations EXCEPT ![k] = row]
        /\ contacts' = [contacts EXCEPT ![k] = @ + 1]
        /\ UNCHANGED <<answered, servedBase, versions>>
      BY <1>6 DEF BeginOperation, OperationStarts, OperationRow, OperationId
  <2>2. k \in OperationIds /\ handler[a].base \in DraftRows
      BY <2>1, KeysTyped
  <2>3. row \in OperationRows /\ row # Unwritten
      BY <2>2, AuthoringAssumption DEF OperationRows
  <2>4. /\ handler'[a].at = "asking" /\ handler'[a].key = k /\ handler'[a].base = handler[a].base
        /\ \A b \in Authors : b # a => handler'[b] = handler[b]
    <3>1. handler[a] \in AskRequests
        BY <2>1 DEF HandlersTyped, HandlerStates, NoRequest, PublishRequests, AskRequests, SealRequests
    <3>2. handler' = [handler EXCEPT ![a].at = "asking"]
        BY <1>6 DEF BeginOperation
    <3> QED
        BY <3>1, <3>2 DEF HandlersTyped, AskRequests
  <2>5. operations'[k] = row /\ \A l \in OperationIds : l # k => operations'[l] = operations[l]
      BY <2>1, <2>2 DEF OperationTypes
  <2>6. OperationTypes'
      BY <2>1, <2>2, <2>3 DEF OperationTypes
  <2>7. ContactedOnce'
      BY <2>1, <2>2, <2>3, <2>5 DEF ContactedOnce, OperationTypes
  <2>8. row.state = "pending" /\ row.base = handler[a].base
      OBVIOUS
  <2>9. ASSUME NEW b \in Authors, Owns(b), b # a PROVE handler[b].key \in OperationIds /\ handler[b].key # k
      BY <2>9, <2>1, KeysTyped DEF Owns, OneOwner
  <2> HIDE DEF k, row
  <2>10. BasesServed'
      BY <2>1, <2>4 DEF BasesServed, k
  <2>11. OneOwner'
    <3>1. \A b \in Authors : Owns(b)' => b = a \/ (Owns(b) /\ handler'[b] = handler[b])
        BY <2>4 DEF Owns
    <3> QED
        BY <2>3, <2>4, <2>5, <2>8, <2>9, <3>1 DEF OneOwner
  <2>12. ProposalFresh'
      BY <2>1, <2>5, <2>8 DEF ProposalFresh
  <2>13. ASSUME NEW t \in answered PROVE t.key \in OperationIds /\ t.key # k
      BY <2>13, <2>1 DEF OperationTypes, ToldIsOver
  <2>14. ToldIsRecorded'
      BY <2>1, <2>5, <2>13 DEF ToldIsRecorded
  <2>15. ToldIsOver'
      BY <2>1, <2>4, <2>5, <2>13 DEF ToldIsOver, Owns
  <2> QED
      BY <2>6, <2>7, <2>10, <2>11, <2>12, <2>14, <2>15
<1>7. ASSUME NEW a \in Authors, ReplayOperation(a) PROVE OperationInv'
  <2> DEFINE k == handler[a].key
  <2>1. /\ handler[a].at = "admitted" /\ handler' = [handler EXCEPT ![a] = NoRequest]
        /\ UNCHANGED <<operations, contacts, servedBase, versions>>
      BY <1>7 DEF ReplayOperation
  <2>2. CASE UNCHANGED answered
      BY <2>1, <2>2, QuietStep DEF HandlersTyped, NoRequest
  <2>3. CASE /\ operations[k] # Unwritten /\ operations[k].state \in TerminalStates
             /\ answered' = answered \cup
                  {[key |-> k, state |-> operations[k].state, proposal |-> operations[k].proposal]}
    <3>1. k \in OperationIds /\ operations[k] \in OperationRows
        BY <2>1, <2>3, KeysTyped DEF OperationTypes
    <3>2. OperationTypes'
        BY <2>1, <2>3, <3>1 DEF OperationTypes, OperationRows
    <3>3. \A b \in Authors : handler'[b] = handler[b] \/ handler'[b].at = "free"
        BY <2>1 DEF HandlersTyped, NoRequest
    <3>4. BasesServed' /\ OneOwner' /\ ContactedOnce' /\ ProposalFresh'
        BY <2>1, <3>3 DEF BasesServed, OneOwner, Owns, ContactedOnce, ProposalFresh
    <3>5. ToldIsRecorded'
        BY <2>1, <2>3 DEF ToldIsRecorded
    <3>6. \A b \in Authors : Owns(b) => handler[b].key # k
        BY <2>3 DEF OneOwner, TerminalStates
    <3>7. ToldIsOver'
        BY <2>1, <2>3, <3>3, <3>6 DEF ToldIsOver, Owns
    <3> QED
        BY <3>2, <3>4, <3>5, <3>7
  <2> QED
      BY <1>7, <2>2, <2>3 DEF ReplayOperation, TellClient, OperationRow, OperationId
<1>8. ASSUME NEW a \in Authors, Owns(a), NEW state \in TerminalStates,
             NEW proposal \in Documents \cup {Unwritten}, EndOperation(a, state, proposal),
             state = "proposed" => handler[a].at = "sealed" /\ proposal = handler[a].proposal,
             UNCHANGED <<versions, contacts, servedBase>>
      PROVE  OperationInv'
  <2>1. handler' = [handler EXCEPT ![a] = NoRequest]
      BY <1>8 DEF EndOperation
  <2>2. CASE UNCHANGED <<operations, answered>>
      BY <1>8, <2>1, <2>2, QuietStep DEF HandlersTyped, NoRequest
  <2>3. CASE CompleteOperation(a, state, proposal) /\ TellClient(handler[a].key, state, proposal)
      BY <1>8, <2>1, <2>3, OutcomeStep DEF CompleteOperation, OperationId
  <2> QED
      BY <1>8, <2>2, <2>3 DEF EndOperation, OperationId
<1>9. ASSUME NEW a \in Authors, ProviderEnds(a) PROVE OperationInv'
    BY <1>8, <1>9 DEF ProviderEnds, Owns, TerminalStates
<1>10. ASSUME NEW a \in Authors, RefuseCandidate(a) PROVE OperationInv'
  <2>1. Owns(a) /\ "refused" \in TerminalStates /\ Unwritten \in Documents \cup {Unwritten}
      BY <1>10 DEF RefuseCandidate, Owns, TerminalStates
  <2>2. \/ operations' = [operations EXCEPT ![handler[a].key] = OutcomeRow(@, "refused", Unwritten)]
        \/ operations' = operations
      BY <1>10 DEF RefuseCandidate, CompleteOperation, OperationId
  <2>3. /\ handler' = [handler EXCEPT ![a] = NoRequest]
        /\ UNCHANGED <<versions, contacts, servedBase>>
        /\ TellClient(handler[a].key, "refused", Unwritten)
      BY <1>10 DEF RefuseCandidate, OperationId
  <2> QED
      BY <2>1, <2>2, <2>3, OutcomeStep
<1>11. ASSUME NEW a \in Authors, NEW x \in Documents, AdmitCandidate(a, x) PROVE OperationInv'
  <2> DEFINE k == handler[a].key
  <2>1. /\ handler[a].at = "asking"
        /\ servedBase' = [servedBase EXCEPT ![k] = drafts[k[1]]]
        /\ handler' = [handler EXCEPT ![a] =
              [at |-> "generated", key |-> k, base |-> handler[a].base, proposal |-> x]]
        /\ UNCHANGED <<operations, contacts, answered, versions>>
      BY <1>11 DEF AdmitCandidate, OperationId, HandlersTyped
  <2>2. k \in OperationIds /\ k[1] \in Drafts /\ Owns(a)
      BY <2>1, KeysTyped DEF Owns
  <2>3. /\ handler'[a].at = "generated" /\ handler'[a].key = k /\ handler'[a].base = handler[a].base
        /\ \A b \in Authors : b # a => handler'[b] = handler[b]
      BY <2>1 DEF HandlersTyped
  <2>4. OneOf(handler[a].base, versions[k[1]])
      BY <2>1 DEF BasesServed
  <2>5. /\ drafts[k[1]] \in DraftRows /\ OneOf(drafts[k[1]], versions[k[1]])
        /\ handler[a].base.revision =< drafts[k[1]].revision
    <3>1. drafts[k[1]] # Unwritten
        BY <2>2, <2>4 DEF DraftInv, Lineage, OneOf, DraftRows, Revisions
    <3>2. OneOf(drafts[k[1]], versions[k[1]]) /\ Len(versions[k[1]]) = drafts[k[1]].revision + 1
        BY <2>2, <3>1 DEF DraftInv, Lineage
    <3> QED
        BY <2>4, <3>2 DEF OneOf, DraftRows, Revisions
  <2>6. /\ servedBase'[k] = drafts[k[1]]
        /\ \A l \in OperationIds : l # k => servedBase'[l] = servedBase[l]
        /\ servedBase' \in [OperationIds -> DraftRows \cup {Unwritten}]
      BY <2>1, <2>2, <2>5 DEF OperationTypes
  <2>7. \A b \in Authors : Owns(b)' <=> Owns(b)
      BY <2>1, <2>3 DEF Owns
  <2>8. OperationTypes' /\ ContactedOnce' /\ ToldIsRecorded'
      BY <2>1, <2>6 DEF OperationTypes, ContactedOnce, ToldIsRecorded
  <2>9. ASSUME NEW b \in Authors, b # a, handler[b].at \in {"generated", "sealed"}
        PROVE handler[b].key \in OperationIds /\ handler[b].key # k
      BY <2>2, <2>9, KeysTyped DEF OneOwner, Owns
  <2>10. operations[k].state = "pending"
      BY <2>2 DEF OneOwner
  <2> HIDE DEF k
  <2>11. BasesServed'
    <3> SUFFICES ASSUME NEW b \in Authors
                 PROVE  /\ handler'[b].at \in {"admitted", "asking", "generated", "sealed"} =>
                              OneOf(handler'[b].base, versions[handler'[b].key[1]])
                        /\ handler'[b].at = "generated" =>
                              /\ OneOf(servedBase'[handler'[b].key], versions[handler'[b].key[1]])
                              /\ handler'[b].base.revision =< servedBase'[handler'[b].key].revision
                        /\ handler'[b].at = "sealed" => servedBase'[handler'[b].key] = handler'[b].base
        BY <2>1 DEF BasesServed
    <3>1. CASE b = a
        BY <3>1, <2>3, <2>4, <2>5, <2>6
    <3>2. CASE b # a
        BY <3>2, <2>3, <2>6, <2>9 DEF BasesServed
    <3> QED
        BY <3>1, <3>2
  <2>12. OneOwner' /\ ToldIsOver'
    <3>1. \A b \in Authors : handler'[b].key = handler[b].key /\ handler'[b].base = handler[b].base
        BY <2>3 DEF k
    <3> QED
        BY <2>1, <2>7, <3>1 DEF OneOwner, ToldIsOver
  <2>13. ProposalFresh'
      BY <2>1, <2>6, <2>10 DEF ProposalFresh
  <2> QED
      BY <2>8, <2>11, <2>12, <2>13
<1>12. ASSUME NEW a \in Authors, ReadAgain(a) PROVE OperationInv'
  <2> DEFINE k == handler[a].key
  <2>1. handler[a].at = "generated" /\ UNCHANGED <<drafts, versions, contacts, servedBase>>
      BY <1>12 DEF ReadAgain
  <2>2. CASE EndOperation(a, "refused", Unwritten)
      BY <1>8, <2>1, <2>2 DEF Owns, TerminalStates
  <2>3. CASE /\ drafts[k[1]] = handler[a].base
             /\ handler' = [handler EXCEPT ![a].at = "sealed"]
             /\ UNCHANGED <<operations, answered>>
    <3>1. k \in OperationIds /\ k[1] \in Drafts /\ handler[a].base \in DraftRows
        BY <2>1, KeysTyped
    <3>2. /\ OneOf(servedBase[k], versions[k[1]]) /\ OneOf(handler[a].base, versions[k[1]])
          /\ handler[a].base.revision =< servedBase[k].revision
        BY <2>1 DEF BasesServed
    <3>3. Len(versions[k[1]]) = handler[a].base.revision + 1
        BY <2>3, <3>1, AuthoringAssumption DEF DraftInv, Lineage
    <3>4. servedBase[k].revision = handler[a].base.revision
        BY <3>2, <3>3 DEF OneOf, DraftRows, Revisions
    <3>5. servedBase[k] = handler[a].base
        BY <3>2, <3>4 DEF OneOf, DraftRows
    <3>6. /\ handler'[a].at = "sealed" /\ handler'[a].key = k /\ handler'[a].base = handler[a].base
          /\ \A b \in Authors : b # a => handler'[b] = handler[b]
      <4>1. handler[a] \in SealRequests
          BY <2>1 DEF HandlersTyped, HandlerStates, NoRequest, PublishRequests, AskRequests, SealRequests
      <4> QED
          BY <2>3, <4>1 DEF HandlersTyped, SealRequests
    <3>7. \A b \in Authors : /\ Owns(b)' <=> Owns(b)
                             /\ handler'[b].key = handler[b].key /\ handler'[b].base = handler[b].base
        BY <2>1, <3>6 DEF Owns
    <3>8. OperationTypes' /\ ContactedOnce' /\ ProposalFresh' /\ ToldIsRecorded'
        BY <2>1, <2>3 DEF OperationTypes, ContactedOnce, ProposalFresh, ToldIsRecorded
    <3>9. OneOwner' /\ ToldIsOver'
        BY <2>3, <3>7 DEF OneOwner, ToldIsOver
    <3>10. BasesServed'
        BY <2>1, <3>2, <3>5, <3>6 DEF BasesServed
    <3> QED
        BY <3>8, <3>9, <3>10
  <2> QED
      BY <1>12, <2>2, <2>3 DEF ReadAgain, BaseServed, OperationId
<1>13. ASSUME NEW a \in Authors, Propose(a) PROVE OperationInv'
  <2>1. handler[a].proposal \in Documents
      BY <1>13, KeysTyped, AuthoringAssumption DEF Propose
  <2> QED
      BY <1>8, <1>13, <2>1 DEF Propose, Owns, TerminalStates
<1>14. CASE \E k \in MutationKeys, b \in Bodies : CreateDraft(k, b) \/ SaveDraft(k, b)
    BY <1>1, <1>14 DEF CreateDraft, SaveDraft
<1> QED
    BY <1>1, <1>2, <1>3, <1>4, <1>5, <1>6, <1>7, <1>9, <1>10, <1>11, <1>12, <1>13, <1>14
       DEF AuthoringNext, authoringVars

----------------------------------------------------------------------------
\* The inductive invariant of authoring, whatever clients, the provider, the database and
\* restarts do between the steps of a handler (service_authoring*.rs): versions are only
\* appended to and receipts name them, every base was served, and a pending operation has at
\* most one handler.
THEOREM AuthoringInvariant == AuthoringSpec => []AuthoringInv
<1>1. AuthoringInv /\ [AuthoringNext]_authoringVars => AuthoringInv'
  <2> SUFFICES ASSUME AuthoringInv, [AuthoringNext]_authoringVars PROVE AuthoringInv'
      OBVIOUS
  <2>1. DraftInv' /\ VersionsGrow
      BY DraftsStep DEF AuthoringInv
  <2> QED
      BY <2>1, HandlersStep, PublicationsStep, OperationsStep DEF AuthoringInv
<1> QED
    BY <1>1, InitInv, PTL DEF AuthoringSpec

\* Drafts, publications and proposals stay sound (AuthoringSound): a mutation is applied once,
\* only validated documents are published, the provider is contacted once for an identity, a
\* proposal is for the draft that was served when it was generated, and what a client was told
\* stays recorded.
THEOREM AuthoringStaysSound == AuthoringSpec => []AuthoringSound
BY AuthoringInvariant, InvImpliesSound, PTL
=============================================================================
