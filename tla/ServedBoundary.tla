--------------------------- MODULE ServedBoundary ---------------------------
(***************************************************************************)
(* The managed decision of a served workflow session, from the attempt the *)
(* Decide node holds (node_decision.rs) through the recorded release of    *)
(* the approved bytes (session_boundary.rs) to the decision that is        *)
(* consumed.  A process of the service serves the one run it is configured *)
(* with; the ledger of receipts may be a file that outlives it.            *)
(*                                                                         *)
(* A receipt is its dispatch identity, which is the digest of the          *)
(* execution number: the number itself here.  The one-shot controller that *)
(* a decision drafts, commits and resumes is in PreparedDispatch.          *)
(***************************************************************************)
EXTENDS Naturals, FiniteSets

CONSTANTS
    ServedRuns,         \* the runs of one deployment
    MaxProviderCalls,   \* limits.max_provider_calls of a workflow
    Absent

VARIABLES
    attached,   \* the deployment names a ledger file
    file,       \* the receipts in that file
    served,     \* runs whose session was opened
    session,    \* of the process that is up, or Absent
    reached,    \* outside: run -> execution number -> exchanges with the provider
    consumed    \* outside: run -> executions whose decision the run acted on

boundaryVars == <<attached, file, served, session, reached, consumed>>

Executions == 1..MaxProviderCalls

\* What write_prepared came to, once the bytes are prepared.
Releases == {"refused", "not_started", "decided", "unrecorded", "failed"}

Points == {"idle", "fences", "release", "retain", "decided", "recorded", "unresolved", "faulted"}
Sessions == [run: ServedRuns, at: Points, calls: 0..MaxProviderCalls,
             held: Executions \cup {Absent}, receipts: SUBSET Executions,
             release: Releases \cup {Absent}]

ASSUME BoundaryAssumption ==
    /\ MaxProviderCalls \in Nat
    /\ Absent \notin Executions /\ Absent \notin Sessions

BoundaryInit ==
    /\ attached \in BOOLEAN
    /\ file = {} /\ served = {} /\ session = Absent
    /\ reached = [r \in ServedRuns |-> [e \in Executions |-> 0]]
    /\ consumed = [r \in ServedRuns |-> {}]

At(point) == session # Absent /\ session.at = point
MovesTo(point) == session' = [session EXCEPT !.at = point]

\* open_admitted and launch: the receipts of the file are reloaded, and a run is opened
\* once.  A file that cannot be read refuses the session and changes nothing.
OpenSession(r) ==
    /\ session = Absent /\ r \notin served
    /\ served' = served \cup {r}
    /\ session' = [run |-> r, at |-> "idle", calls |-> 0, held |-> Absent, receipts |-> file,
                   release |-> Absent]
    /\ UNCHANGED <<attached, file, reached, consumed>>

\* decide_with_held_attempt: the attempt is held before the session is asked.
HoldDecision ==
    /\ At("idle") /\ session.held = Absent /\ session.calls < MaxProviderCalls
    /\ session' = [session EXCEPT !.at = "fences", !.held = session.calls + 1]
    /\ UNCHANGED <<attached, file, served, reached, consumed>>

\* fail_decision_attempt: only a refusal in front of the write releases the attempt.
Refuse == session' = [session EXCEPT !.at = "idle", !.held = Absent]
Unresolve == MovesTo("unresolved")

\* decide_with_managed_context up to the release: a fence refuses, the receipt of the
\* identity is found, or the approval is held and handed to the port.
Fences ==
    /\ At("fences")
    /\ \/ Refuse
       \/ session.held \in session.receipts /\ MovesTo("recorded")
       \/ session.held \notin session.receipts /\ MovesTo("release")
    /\ UNCHANGED <<attached, file, served, reached, consumed>>

\* Mutant of CleanRelease: any error the provider reports counts as a refusal.
CleanReleaseAny(release) == release \in {"refused", "not_started", "failed"}

\* release_error and decision_provider_error: the class of a release that gave no decision.
CleanRelease(release) == release \in {"refused", "not_started"}

\* write_prepared: the sink records the bytes, the provider is asked, the sink records
\* the completion; the receipt is kept unless the release is clean.
Release(release) ==
    /\ At("release")
    /\ \/ /\ release \in {"decided", "unrecorded", "failed"}
          /\ reached' = [reached EXCEPT ![session.run][session.held] = @ + 1]
       \/ release \in {"refused", "not_started", "failed"} /\ UNCHANGED reached
    /\ IF CleanRelease(release) THEN Refuse
       ELSE session' = [session EXCEPT !.at = "retain", !.release = release]
    /\ UNCHANGED <<attached, file, served, consumed>>

\* retain_receipt: the receipts of this session replace the file.  A save can fail on
\* either side of the rename, and the outcome is unresolved then.
Retain(saved, renamed) ==
    /\ At("retain") /\ (saved => renamed) /\ (~attached => saved)
    /\ LET receipts == session.receipts \cup {session.held} IN
       /\ file' = IF attached /\ renamed THEN receipts ELSE file
       /\ session' = [session EXCEPT
              !.at = IF saved /\ session.release = "decided" THEN "decided" ELSE "unresolved",
              !.receipts = receipts]
    /\ UNCHANGED <<attached, served, reached, consumed>>

\* The observation, the policy and the render source are read again, and the decision is
\* consumed; one that names no legal action fails the run with its attempt held.
Consume ==
    /\ At("decided")
    /\ \/ Unresolve /\ UNCHANGED consumed
       \/ /\ session' = [session EXCEPT !.at = "idle", !.calls = @ + 1, !.held = Absent]
          /\ consumed' = [consumed EXCEPT ![session.run] = @ \cup {session.held}]
       \/ /\ session' = [session EXCEPT !.at = "faulted", !.calls = @ + 1]
          /\ UNCHANGED consumed
    /\ UNCHANGED <<attached, file, served, reached>>

\* The process is stopped or dies, wherever it is.
EndProcess ==
    /\ session # Absent /\ session' = Absent
    /\ UNCHANGED <<attached, file, served, reached, consumed>>

BoundaryNext ==
    \/ \E r \in ServedRuns : OpenSession(r)
    \/ HoldDecision \/ Fences \/ Consume \/ EndProcess
    \/ \E release \in Releases : Release(release)
    \/ \E saved, renamed \in BOOLEAN : Retain(saved, renamed)

BoundarySpec == BoundaryInit /\ [][BoundaryNext]_boundaryVars

----------------------------------------------------------------------------
(* Properties.                                                             *)

BoundaryTypeOK ==
    /\ attached \in BOOLEAN /\ file \subseteq Executions /\ served \subseteq ServedRuns
    /\ session \in Sessions \cup {Absent}
    /\ session # Absent => session.run \in served
    /\ reached \in [ServedRuns -> [Executions -> Nat]]
    /\ consumed \in [ServedRuns -> SUBSET Executions]

\* "A lost reply, an operator re-issued step or a restart cannot become a second paid
\* exchange": a run reaches the provider at most once per execution number, although a
\* clean refusal gives the number out again.
ReachedOnce == \A r \in ServedRuns, e \in Executions : reached[r][e] <= 1

\* An exchange that may have happened leaves the attempt held until its receipt is in the
\* session's ledger, and a decision the run acted on has its receipt in the file.
ReceiptsComplete ==
    /\ session # Absent => \A e \in Executions \ {session.held} :
           reached[session.run][e] > 0 => e \in session.receipts
    /\ attached => \A r \in ServedRuns : consumed[r] \subseteq file

\* No decision is paid for twice, and no receipt is lost, whatever fails and wherever the
\* process ends.
BoundarySound == BoundaryTypeOK /\ ReachedOnce /\ ReceiptsComplete

\* "Receipts of the approvals this run already wrote" (production.rs): an approval that is
\* refused as already recorded was written by the run that is refused.
ApprovalsOwned == At("recorded") => reached[session.run][session.held] > 0
=============================================================================
