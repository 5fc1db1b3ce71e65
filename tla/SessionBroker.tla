--------------------------- MODULE SessionBroker ---------------------------
(***************************************************************************)
(* The provider session broker, provider_session/broker*.rs: bindings to   *)
(* native sessions, native operations, prepared turns, compaction jobs,    *)
(* forks, retirements, owner changes and the restore of its snapshot.      *)
(*                                                                         *)
(* Every operation runs under the caller's owner token and is one action.  *)
(* A call refused by the code changes nothing and is no step; so is a call *)
(* whose idempotency key is already used.  Identifiers are positions in    *)
(* sequences; threads, digests and evidence are members of small sets.     *)
(***************************************************************************)
EXTENDS Naturals, Sequences, FiniteSets

CONSTANTS
    Profiles,  \* the configurations a broker may be created with, see below
    Nothing

VARIABLES
    profile,     \* capabilities and policy, fixed when the broker is created
    owner,       \* owner_epoch
    revocation,  \* revocation_epoch
    bindings,    \* with items, the length of the binding's history
    ops,         \* native operations, in the order of their ids
    prepared,    \* prepared turns; items is the history the preview showed
    jobs,        \* compaction jobs
    forks,       \* fork plans
    inflight,    \* inflight_turn
    restarts

brokerVars == <<profile, owner, revocation, bindings, ops, prepared, jobs, forks, inflight, restarts>>

Methods == profile.methods    \* capabilities.enabled_methods
OneShot == profile.oneShot    \* the profile is sts2-exo-lifecycle-v2
Sources == profile.sources    \* dependency ids
Purposes == profile.purposes  \* of the candidates created, among executable and evaluation
NativeThreads == profile.threads    \* native threads, continuity digests and evidence references
Digests == profile.digests
Refs == profile.refs
MaxBindings == profile.bindings      \* effective limits
MaxOps == profile.ops
MaxPrepared == profile.prepared
MaxJobs == profile.jobs
MaxCandidates == profile.candidates
MaxItems == profile.items            \* max_session_items, max_completed_turns
MaxOwner == profile.owner            \* bounds on the epochs
MaxRevocation == profile.revocation
MaxSession == profile.session
MaxHistory == profile.history
MaxRestarts == profile.restarts      \* bounds on the environment
MayExpire == profile.mayExpire

ASSUME BrokerAssumption ==
    \A p \in Profiles :
        /\ p.oneShot \in BOOLEAN /\ p.mayExpire \in BOOLEAN
        /\ p.oneShot => "thread/start" \notin p.methods
        /\ {p.bindings, p.ops, p.prepared, p.jobs, p.candidates, p.items} \subseteq Nat
        /\ {p.revocation, p.history, p.restarts} \subseteq Nat
        /\ {p.owner, p.session} \subseteq Nat \ {0}

Candidate(purpose) ==
    [state |-> "candidate", purpose |-> purpose, owner |-> 1, session |-> 1, history |-> 0,
     compaction |-> 0, deps |-> {}, continuity |-> Nothing, thread |-> Nothing, items |-> 0,
     capability |-> FALSE, expired |-> FALSE]

BrokerInit ==
    /\ profile \in Profiles
    /\ owner = 1 /\ revocation = 0 /\ restarts = 0
    /\ bindings = <<>> /\ ops = <<>> /\ prepared = <<>> /\ jobs = <<>> /\ forks = <<>>
    /\ inflight = Nothing

BindingIds == DOMAIN bindings
Done(b) == bindings[b].state \in {"retired", "closed"}
Fenced(b) == Done(b) \/ bindings[b].state = "quarantined"
Live(b) == ~bindings[b].expired

Executable(b) ==
    /\ bindings[b].purpose = "executable"
    /\ bindings[b].state \in {"active", "one_shot_pending"}
    /\ bindings[b].capability

\* Mutant: a late result reaches a quarantined binding.
CompletionQuarantined(b) == Live(b) /\ ~Done(b)

\* ensure_binding_completion_allowed: a late native result may still be applied to b.
CompletionAllowed(b) == Live(b) /\ ~Fenced(b)

OpOpen == {"intent", "sent", "acknowledged"}
JobOpen == {"planned", "sent", "acknowledged"}

NewOp(kind, b, state) == [kind |-> kind, binding |-> b, state |-> state, owner |-> owner, evidence |-> Nothing]

HasRoom == Len(ops) < MaxOps

\* Candidates and evaluation bindings, whatever became of these, count against the limit.
CandidateRoom ==
    Cardinality({b \in BindingIds : bindings[b].state = "candidate" \/ bindings[b].purpose = "evaluation"})
        < MaxCandidates

----------------------------------------------------------------------------
(* Candidates and reconnection.                                            *)

CreateCandidate(purpose) ==
    /\ "thread/start" \in Methods
    /\ CandidateRoom /\ HasRoom /\ Len(bindings) < MaxBindings
    /\ bindings' = Append(bindings, Candidate(purpose))
    /\ ops' = Append(ops, NewOp("create", Len(bindings) + 1, "intent"))
    /\ UNCHANGED <<owner, revocation, prepared, jobs, forks, inflight, restarts>>

CompleteCandidate(o, thread) ==
    LET b == ops[o].binding IN
    /\ "thread/start" \in Methods
    /\ ops[o].kind = "create" /\ ops[o].state = "intent" /\ ops[o].owner = owner
    /\ CompletionAllowed(b)
    /\ bindings[b].state = "candidate"
    /\ bindings' = [bindings EXCEPT ![b].state = "held", ![b].thread = thread]
    /\ ops' = [ops EXCEPT ![o].state = "completed"]
    /\ UNCHANGED <<owner, revocation, prepared, jobs, forks, inflight, restarts>>

Reconnect(b) ==
    /\ "thread/read" \in Methods
    /\ Live(b) /\ HasRoom
    /\ bindings[b].state \in {"held", "active", "recovering"}
    /\ ops' = Append(ops, NewOp("reconnect", b, "intent"))
    /\ bindings' = [bindings EXCEPT ![b].state = "recovering", ![b].capability = FALSE, ![b].owner = owner]
    /\ UNCHANGED <<owner, revocation, prepared, jobs, forks, inflight, restarts>>

Reconnected(binding, continuity) ==
    [binding EXCEPT !.state = "held", !.session = @ + 1, !.owner = owner, !.continuity = continuity]

CompleteReconnect(o, continuity) ==
    LET b == ops[o].binding IN
    /\ ops[o].kind = "reconnect" /\ ops[o].state = "intent" /\ ops[o].owner = owner
    /\ CompletionAllowed(b)
    /\ bindings[b].state \in {"held", "active", "recovering"}
    /\ bindings[b].session < MaxSession
    /\ bindings' = [bindings EXCEPT ![b] = Reconnected(@, continuity)]
    /\ ops' = [ops EXCEPT ![o].state = "completed"]
    /\ UNCHANGED <<owner, revocation, prepared, jobs, forks, inflight, restarts>>

\* The served read: it replaces the recorded history.
RefreshHistory(b, items) ==
    /\ "thread/read" \in Methods
    /\ Live(b) /\ ~Fenced(b) /\ bindings[b].state # "candidate"
    /\ HasRoom /\ bindings[b].history < MaxHistory
    /\ ops' = Append(ops, NewOp("refresh", b, "completed"))
    /\ bindings' = [bindings EXCEPT ![b].items = items, ![b].history = @ + 1]
    /\ UNCHANGED <<owner, revocation, prepared, jobs, forks, inflight, restarts>>

AdmitOneShotBinding ==
    /\ OneShot /\ "turn/start" \in Methods
    /\ Len(bindings) < MaxBindings
    /\ \A b \in BindingIds : ~Executable(b)
    /\ bindings' = Append(bindings,
          [Candidate("executable") EXCEPT !.state = "one_shot_pending", !.capability = TRUE, !.owner = owner])
    /\ UNCHANGED <<owner, revocation, ops, prepared, jobs, forks, inflight, restarts>>

----------------------------------------------------------------------------
(* Turns.                                                                  *)

PrepareTurn(b) ==
    /\ "turn/start" \in Methods
    /\ Live(b) /\ bindings[b].state \in {"held", "one_shot_pending"}
    /\ Len(prepared) < MaxPrepared
    /\ prepared' = Append(prepared,
          [binding |-> b, owner |-> bindings[b].owner, auth |-> owner, session |-> bindings[b].session,
           history |-> bindings[b].history, compaction |-> bindings[b].compaction,
           revocation |-> revocation, continuity |-> bindings[b].continuity,
           deps |-> bindings[b].deps, items |-> bindings[b].items])
    /\ UNCHANGED <<owner, revocation, bindings, ops, jobs, forks, inflight, restarts>>

\* Mutant: another binding may hold the game.
AloneUnchecked(b) == b \in BindingIds

\* No other binding may dispatch.
Alone(b) == \A c \in BindingIds \ {b} : ~Executable(c)

ExplicitResume(b) ==
    /\ "turn/start" \in Methods
    /\ Live(b) /\ Alone(b) /\ ~Executable(b)
    /\ bindings[b].state = "held" /\ bindings[b].purpose # "evaluation"
    /\ bindings' = [bindings EXCEPT ![b].state = "active", ![b].capability = TRUE]
    /\ UNCHANGED <<owner, revocation, ops, prepared, jobs, forks, inflight, restarts>>

\* The epochs the approval saw are the epochs of now.
Current(p) ==
    LET turn == prepared[p]
        binding == bindings[turn.binding] IN
    /\ turn.owner = owner /\ turn.auth = owner
    /\ turn.session = binding.session
    /\ turn.history = binding.history
    /\ turn.compaction = binding.compaction
    /\ turn.revocation = revocation
    /\ turn.continuity = binding.continuity
    /\ turn.deps = binding.deps

TurnAdmissible(p) ==
    LET b == prepared[p].binding IN
    /\ Live(b)
    /\ bindings[b].state = (IF OneShot THEN "one_shot_pending" ELSE "active")
    /\ bindings[b].capability
    /\ Current(p)

AdmitTurn(p) ==
    /\ "turn/start" \in Methods
    /\ TurnAdmissible(p) /\ inflight = Nothing /\ HasRoom
    /\ ops' = Append(ops, NewOp("turn", prepared[p].binding, "intent"))
    /\ inflight' = Len(ops) + 1
    /\ UNCHANGED <<owner, revocation, bindings, prepared, jobs, forks, restarts>>

\* A turn of this owner whose binding still takes results.
Answerable(o) ==
    /\ ops[o].kind = "turn" /\ ops[o].owner = owner
    /\ CompletionAllowed(ops[o].binding)

MarkSent(o) ==
    /\ Answerable(o) /\ ops[o].state = "intent"
    /\ ops' = [ops EXCEPT ![o].state = "sent"]
    /\ UNCHANGED <<owner, revocation, bindings, prepared, jobs, forks, inflight, restarts>>

Acknowledge(o, ref) ==
    /\ Answerable(o) /\ ops[o].state \in {"sent", "acknowledged"}
    /\ ops' = [ops EXCEPT ![o].state = "acknowledged", ![o].evidence = ref]
    /\ UNCHANGED <<owner, revocation, bindings, prepared, jobs, forks, inflight, restarts>>

TurnDone(binding) ==
    IF binding.state = "one_shot_pending"
    THEN [binding EXCEPT !.state = "one_shot_completed", !.capability = FALSE, !.items = @ + 1]
    ELSE [binding EXCEPT !.items = @ + 1]

CompleteTurn(o, ref) ==
    /\ Answerable(o) /\ ops[o].state \in {"sent", "acknowledged"}
    /\ bindings[ops[o].binding].items < MaxItems
    /\ ops' = [ops EXCEPT ![o].state = "completed", ![o].evidence = ref]
    /\ bindings' = [bindings EXCEPT ![ops[o].binding] = TurnDone(@)]
    /\ inflight' = Nothing
    /\ UNCHANGED <<owner, revocation, prepared, jobs, forks, restarts>>

Quarantine(o, ref) ==
    LET b == ops[o].binding IN
    /\ ops' = [ops EXCEPT ![o].state = "quarantined", ![o].evidence = ref]
    /\ bindings' = IF Done(b) THEN bindings
                   ELSE [bindings EXCEPT ![b].state = "quarantined", ![b].capability = FALSE]
    /\ inflight' = Nothing
    /\ UNCHANGED <<owner, revocation, prepared, jobs, forks, restarts>>

\* complete_turn of a completed turn: other evidence quarantines it.
ConflictingCompletion(o, ref) ==
    /\ ops[o].kind = "turn" /\ ops[o].state = "completed" /\ ops[o].evidence # ref
    /\ Live(ops[o].binding)
    /\ Quarantine(o, ref)

QuarantineOperation(o, ref) ==
    /\ ops[o].state \in {"completed", "unknown", "intent"}
    /\ Quarantine(o, ref)

\* The binding of an attempt of unknown outcome.
Recovering(b) ==
    IF Fenced(b) THEN bindings
    ELSE [bindings EXCEPT ![b].state = "recovering", ![b].capability = FALSE]

\* mark_unknown takes an operation of any kind and of any owner.
MarkUnknown(o) ==
    /\ ops[o].state \in OpOpen
    /\ ops' = [ops EXCEPT ![o].state = "unknown"]
    /\ bindings' = Recovering(ops[o].binding)
    /\ inflight' = Nothing
    /\ UNCHANGED <<owner, revocation, prepared, jobs, forks, restarts>>

Interrupt(o) ==
    /\ "turn/interrupt" \in Methods
    /\ ops[o].kind = "turn" /\ ops[o].owner = owner /\ ops[o].state \in OpOpen
    /\ ops' = [ops EXCEPT ![o].state = IF @ = "intent" THEN "cancelled" ELSE "unknown"]
    /\ bindings' = IF ops[o].state = "intent" THEN bindings ELSE Recovering(ops[o].binding)
    /\ inflight' = Nothing
    /\ UNCHANGED <<owner, revocation, prepared, jobs, forks, restarts>>

\* Only the turn in flight is marked, and only if it is a turn of b.
Transformed(b, ref) ==
    IF inflight # Nothing /\ ops[inflight].binding = b /\ ops[inflight].state \in OpOpen
    THEN [ops EXCEPT ![inflight].state = "unknown", ![inflight].evidence = ref]
    ELSE ops

FenceAutomaticTransform(b, ref) ==
    /\ CompletionAllowed(b) /\ bindings[b].history < MaxHistory
    /\ ops' = Transformed(b, ref)
    /\ inflight' = Nothing
    /\ bindings' = [bindings EXCEPT ![b].state = "recovering", ![b].capability = FALSE, ![b].history = @ + 1]
    /\ UNCHANGED <<owner, revocation, prepared, jobs, forks, restarts>>

----------------------------------------------------------------------------
(* Compaction jobs and forks.                                              *)

MaintenanceRoom == Len(jobs) + Len(forks) < MaxJobs

PlanCompaction(b) ==
    /\ "thread/compact/start" \in Methods
    /\ Live(b) /\ bindings[b].state = "held" /\ MaintenanceRoom
    /\ \A j \in DOMAIN jobs : jobs[j].binding = b => jobs[j].state \in {"cancelled", "failed", "unknown"}
    /\ jobs' = Append(jobs, [binding |-> b, state |-> "planned", history |-> bindings[b].history,
                             continuity |-> bindings[b].continuity])
    /\ UNCHANGED <<owner, revocation, bindings, ops, prepared, forks, inflight, restarts>>

\* send_compaction and acknowledge_compaction.
AdvanceCompaction(j, from, to) ==
    /\ CompletionAllowed(jobs[j].binding) /\ jobs[j].state = from
    /\ jobs' = [jobs EXCEPT ![j].state = to]
    /\ UNCHANGED <<owner, revocation, bindings, ops, prepared, forks, inflight, restarts>>

SourceUnchanged(j) ==
    /\ bindings[jobs[j].binding].history = jobs[j].history
    /\ bindings[jobs[j].binding].continuity = jobs[j].continuity

CompleteCompaction(j) ==
    LET b == jobs[j].binding IN
    /\ CompletionAllowed(b) /\ jobs[j].state = "acknowledged"
    /\ bindings[b].history < MaxHistory
    /\ IF SourceUnchanged(j)
       THEN /\ bindings' = [bindings EXCEPT ![b].history = @ + 1, ![b].compaction = @ + 1,
                                            ![b].state = "held", ![b].capability = FALSE]
            /\ jobs' = [jobs EXCEPT ![j].state = "completed"]
       ELSE /\ jobs' = [jobs EXCEPT ![j].state = "failed"]
            /\ UNCHANGED bindings
    /\ UNCHANGED <<owner, revocation, ops, prepared, forks, inflight, restarts>>

CancelCompaction(j) ==
    LET b == jobs[j].binding IN
    /\ CompletionAllowed(b) /\ jobs[j].state \in JobOpen
    /\ jobs' = [jobs EXCEPT ![j].state = IF @ = "acknowledged" THEN "unknown" ELSE "cancelled"]
    /\ bindings' = IF jobs[j].state = "acknowledged" THEN Recovering(b) ELSE bindings
    /\ UNCHANGED <<owner, revocation, ops, prepared, forks, inflight, restarts>>

PlanFork(b, added) ==
    /\ Methods \cap {"thread/fork", "thread/start"} # {}
    /\ Live(b) /\ bindings[b].state \in {"held", "active"}
    /\ MaintenanceRoom /\ CandidateRoom /\ Len(bindings) < MaxBindings
    /\ bindings' = Append(bindings, [Candidate("evaluation") EXCEPT !.deps = bindings[b].deps \cup added])
    /\ forks' = Append(forks, [source |-> b, target |-> Len(bindings) + 1,
                               history |-> bindings[b].history, continuity |-> bindings[b].continuity])
    /\ UNCHANGED <<owner, revocation, ops, prepared, jobs, inflight, restarts>>

\* A target already held takes only the thread it has; another one quarantines it.
ForkDone(target, thread) ==
    IF target.state = "held" /\ target.thread # thread
    THEN [target EXCEPT !.state = "quarantined", !.capability = FALSE]
    ELSE [target EXCEPT !.state = "held", !.thread = thread, !.capability = FALSE]

CompleteFork(f, thread) ==
    LET fork == forks[f] IN
    /\ Live(fork.source) /\ ~Done(fork.source) /\ ~Fenced(fork.target)
    /\ bindings[fork.source].history = fork.history
    /\ bindings[fork.source].continuity = fork.continuity
    /\ bindings' = [bindings EXCEPT ![fork.target] = ForkDone(@, thread)]
    /\ UNCHANGED <<owner, revocation, ops, prepared, jobs, forks, inflight, restarts>>

----------------------------------------------------------------------------
(* Dependencies, retirement, owners.                                       *)

SetDependencies(b, deps) ==
    /\ Live(b) /\ ~Done(b) /\ bindings[b].session < MaxSession
    /\ bindings' = [bindings EXCEPT ![b].deps = deps, ![b].session = @ + 1, ![b].capability = FALSE]
    /\ UNCHANGED <<owner, revocation, ops, prepared, jobs, forks, inflight, restarts>>

Retired(binding) == [binding EXCEPT !.state = "retired", !.capability = FALSE]

Retire(b) ==
    /\ ~Done(b) /\ revocation < MaxRevocation
    /\ bindings' = [bindings EXCEPT ![b] = Retired(@)]
    /\ revocation' = revocation + 1
    /\ UNCHANGED <<owner, ops, prepared, jobs, forks, inflight, restarts>>

\* Mutant: the revocation passes over evaluation bindings.
RevokeExecutables(sources) ==
    LET affected == {b \in BindingIds : /\ ~Done(b) /\ bindings[b].deps \cap sources # {}
                                        /\ bindings[b].purpose = "executable"} IN
    /\ revocation + 1 + Cardinality(affected) <= MaxRevocation
    /\ bindings' = [b \in BindingIds |-> IF b \in affected THEN Retired(bindings[b]) ELSE bindings[b]]
    /\ revocation' = revocation + 1 + Cardinality(affected)
    /\ UNCHANGED <<owner, ops, prepared, jobs, forks, inflight, restarts>>

RevokeSources(sources) ==
    LET affected == {b \in BindingIds : ~Done(b) /\ bindings[b].deps \cap sources # {}} IN
    /\ revocation + 1 + Cardinality(affected) <= MaxRevocation
    /\ bindings' = [b \in BindingIds |-> IF b \in affected THEN Retired(bindings[b]) ELSE bindings[b]]
    /\ revocation' = revocation + 1 + Cardinality(affected)
    /\ UNCHANGED <<owner, ops, prepared, jobs, forks, inflight, restarts>>

Cleanup(b) ==
    /\ bindings[b].state = "retired"
    /\ bindings' = [bindings EXCEPT ![b].state = "closed"]
    /\ UNCHANGED <<owner, revocation, ops, prepared, jobs, forks, inflight, restarts>>

\* fence_pending_maintenance.
FencedTargets(rows) ==
    [b \in DOMAIN rows |->
        IF rows[b].state = "candidate" /\ \E f \in DOMAIN forks : forks[f].target = b
        THEN [rows[b] EXCEPT !.state = "quarantined", !.capability = FALSE]
        ELSE rows[b]]

FencedJobs ==
    [j \in DOMAIN jobs |-> IF jobs[j].state \in JobOpen THEN [jobs[j] EXCEPT !.state = "unknown"] ELSE jobs[j]]

NextOwner == owner < MaxOwner /\ owner' = owner + 1

Replaced(b) ==
    IF Done(b) THEN bindings[b]
    ELSE [bindings[b] EXCEPT !.owner = owner + 1, !.capability = FALSE,
                             !.state = IF @ = "active" THEN "recovering" ELSE @]

ReplaceOwner ==
    /\ NextOwner
    /\ inflight' = Nothing
    /\ bindings' = FencedTargets([b \in BindingIds |-> Replaced(b)])
    /\ jobs' = FencedJobs
    /\ UNCHANGED <<revocation, ops, prepared, forks, restarts>>

Recovered(b) ==
    IF Done(b) THEN bindings[b]
    ELSE IF bindings[b].state \in {"active", "recovering"}
    THEN [bindings[b] EXCEPT !.owner = owner + 1, !.capability = FALSE, !.state = "recovering"]
    ELSE [bindings[b] EXCEPT !.owner = owner + 1]

Recover ==
    /\ NextOwner
    /\ inflight' = Nothing
    /\ bindings' = FencedTargets([b \in BindingIds |-> Recovered(b)])
    /\ jobs' = FencedJobs
    /\ UNCHANGED <<revocation, ops, prepared, forks, restarts>>

----------------------------------------------------------------------------
(* The snapshot and its restore in a new process.                          *)

\* SessionBinding::validate: only a binding that may dispatch has the capability.
Valid(b) ==
    bindings[b].capability =>
        bindings[b].purpose = "executable" /\ bindings[b].state \in {"active", "one_shot_pending"}

Restorable ==
    /\ \A b \in BindingIds : Valid(b) /\ Live(b)
    /\ Cardinality({b \in BindingIds : Executable(b)}) <= 1

Pending(o) == ops[o].state \in OpOpen \cup {"unknown"}

\* Tombstones first, then the turns of unknown outcome.
RestoredState(b) ==
    IF Done(b) THEN "retired"
    ELSE IF \/ bindings[b].state = "active"
            \/ \E o \in DOMAIN ops : ops[o].binding = b /\ ops[o].kind = "turn" /\ Pending(o)
         THEN "recovering" ELSE bindings[b].state

RestoredOp(o) ==
    IF ~Pending(o) THEN ops[o]
    ELSE IF Done(ops[o].binding) THEN [ops[o] EXCEPT !.state = "quarantined"]
    ELSE IF ops[o].kind = "turn" THEN [ops[o] EXCEPT !.state = "unknown"]
    ELSE ops[o]

Restart ==
    /\ restarts < MaxRestarts /\ restarts' = restarts + 1
    /\ Restorable
    /\ NextOwner
    /\ bindings' = FencedTargets([b \in BindingIds |->
          [bindings[b] EXCEPT !.owner = owner + 1, !.capability = FALSE, !.state = RestoredState(b)]])
    /\ ops' = [o \in DOMAIN ops |-> RestoredOp(o)]
    /\ jobs' = FencedJobs
    /\ prepared' = <<>> /\ inflight' = Nothing
    /\ UNCHANGED <<revocation, forks>>

Expire(b) ==
    /\ MayExpire /\ Live(b)
    /\ bindings' = [bindings EXCEPT ![b].expired = TRUE]
    /\ UNCHANGED <<owner, revocation, ops, prepared, jobs, forks, inflight, restarts>>

----------------------------------------------------------------------------
BindingStep(b) ==
    \/ Reconnect(b) \/ PrepareTurn(b) \/ ExplicitResume(b)
    \/ PlanCompaction(b) \/ Retire(b) \/ Cleanup(b) \/ Expire(b)
    \/ \E items \in 0..MaxItems : RefreshHistory(b, items)
    \/ \E deps \in SUBSET Sources : SetDependencies(b, deps) \/ PlanFork(b, deps)
    \/ \E ref \in Refs : FenceAutomaticTransform(b, ref)

OperationStep(o) ==
    \/ MarkSent(o) \/ MarkUnknown(o) \/ Interrupt(o)
    \/ \E thread \in NativeThreads : CompleteCandidate(o, thread)
    \/ \E continuity \in Digests : CompleteReconnect(o, continuity)
    \/ \E ref \in Refs :
         \/ Acknowledge(o, ref) \/ CompleteTurn(o, ref)
         \/ ConflictingCompletion(o, ref) \/ QuarantineOperation(o, ref)

JobStep(j) ==
    \/ AdvanceCompaction(j, "planned", "sent") \/ AdvanceCompaction(j, "sent", "acknowledged")
    \/ CompleteCompaction(j) \/ CancelCompaction(j)

BrokerStep ==
    \/ \E purpose \in Purposes : CreateCandidate(purpose)
    \/ AdmitOneShotBinding
    \/ \E b \in BindingIds : BindingStep(b)
    \/ \E o \in DOMAIN ops : OperationStep(o)
    \/ \E p \in DOMAIN prepared : AdmitTurn(p)
    \/ \E j \in DOMAIN jobs : JobStep(j)
    \/ \E f \in DOMAIN forks, thread \in NativeThreads : CompleteFork(f, thread)
    \/ \E sources \in (SUBSET Sources) \ {{}} : RevokeSources(sources)
    \/ ReplaceOwner \/ Recover \/ Restart

BrokerNext == BrokerStep /\ UNCHANGED profile

BrokerSpec == BrokerInit /\ [][BrokerNext]_brokerVars

----------------------------------------------------------------------------
(* Properties.                                                             *)

BindingStates ==
    {"candidate", "held", "active", "one_shot_pending", "one_shot_completed", "recovering",
     "quarantined", "retired", "closed"}

\* Types; and, as SessionBinding, every epoch of a binding is one the broker has given.
BrokerTypeOK ==
    /\ owner \in 1..MaxOwner /\ revocation \in 0..MaxRevocation /\ restarts \in 0..MaxRestarts
    /\ \A b \in BindingIds :
         /\ bindings[b].state \in BindingStates
         /\ bindings[b].owner \in 1..owner
         /\ bindings[b].session \in 1..MaxSession /\ bindings[b].history \in 0..MaxHistory
         /\ bindings[b].compaction \in 0..bindings[b].history
         /\ bindings[b].deps \subseteq Sources /\ bindings[b].items \in 0..MaxItems
    /\ \A o \in DOMAIN ops :
         /\ ops[o].binding \in BindingIds /\ ops[o].owner \in 1..owner
         /\ ops[o].state \in OpOpen \cup {"completed", "unknown", "cancelled", "quarantined"}
    /\ \A p \in DOMAIN prepared : prepared[p].binding \in BindingIds
    /\ \A j \in DOMAIN jobs : jobs[j].binding \in BindingIds
    /\ \A f \in DOMAIN forks : {forks[f].source, forks[f].target} \subseteq BindingIds
    /\ inflight \in {Nothing} \cup DOMAIN ops

\* At most one binding may dispatch into the game, through resumes, late reconnects,
\* forks, compactions, owner changes and restores.
OneExecutable == \A b, c \in BindingIds : Executable(b) /\ Executable(c) => b = c

\* A turn in flight is an open turn of the current owner: a stale entry would refuse every
\* later admission.
InflightOpen ==
    inflight # Nothing =>
        /\ ops[inflight].kind = "turn" /\ ops[inflight].owner = owner
        /\ ops[inflight].state \in OpOpen

\* No result, late or not, no owner change and no restore brings a retired binding back.
RetiredStaysRetired ==
    [][\A b \in BindingIds : Done(b) => Done(b)' /\ ~bindings'[b].capability]_brokerVars

\* In one process a quarantined binding leaves quarantine only by retirement.
QuarantineHolds ==
    [][restarts' = restarts =>
        \A b \in BindingIds : bindings[b].state = "quarantined" => Fenced(b)']_brokerVars

\* After an owner change what the former owner began cannot be used: no binding dispatches,
\* no prepared turn is admissible, no turn, reconnect or candidate can be completed, no
\* compaction is open, and a fork whose target is still a candidate is quarantined.  Two
\* things the code lets through are let through here.  `recover` leaves a pending one-shot
\* binding as it is, though its doc says that every binding is held.  And
\* fence_pending_maintenance passes over the target of a fork that
\* fence_automatic_transform made recovering, so that complete_fork still publishes it
\* under the next owner, which the comment there rules out.
OwnerChangeFences ==
    [][owner' # owner =>
        /\ \A b \in BindingIds : Executable(b)' => Recover /\ bindings[b].state = "one_shot_pending"
        /\ \A p \in DOMAIN prepared' : ~Current(p)'
        /\ \A o \in DOMAIN ops : ops'[o].owner # owner'
        /\ \A j \in DOMAIN jobs : jobs'[j].state \notin JobOpen
        /\ \A f \in DOMAIN forks :
             bindings[forks[f].target].state = "candidate"
               => bindings'[forks[f].target].state = "quarantined"]_brokerVars

\* A retirement or a revocation makes every turn prepared before it inadmissible, and a
\* revocation leaves no binding in use that depends on a revoked source, forks included.
RevocationFences ==
    [][/\ revocation' # revocation => \A p \in DOMAIN prepared : ~Current(p)'
       /\ \A s \in Sources : RevokeSources({s}) =>
            \A b \in BindingIds : s \in bindings[b].deps => Done(b)']_brokerVars

\* An attempt whose outcome was given up, or that belongs to a former owner, never
\* completes, and a completed one changes only into quarantine.
TurnOutcomesFinal ==
    [][\A o \in DOMAIN ops :
        /\ ops[o].kind = "turn" /\ (ops[o].state \notin OpOpen \/ ops[o].owner # owner)
              => ops'[o].state \in {ops[o].state, "unknown", "quarantined"}
        /\ ops[o].state \in {"cancelled", "quarantined"} => ops'[o].state = ops[o].state
        /\ ops[o].state = "completed" /\ ops'[o].state = "completed" => ops'[o] = ops[o]]_brokerVars

\* An evaluation fork never dispatches, and when a candidate is published its source is
\* neither retired nor changed since the fork was planned.
ForksEvaluate ==
    [][\A f \in DOMAIN forks :
        LET target == forks[f].target IN
        /\ ~bindings'[target].capability
        /\ bindings[target].state = "candidate" /\ bindings'[target].state = "held" =>
             /\ ~Done(forks[f].source)
             /\ bindings[forks[f].source].history = forks[f].history]_brokerVars

\* At most one binding may dispatch into the game, and the one turn in flight is an open
\* turn of the current owner; all of the broker's rows have their shape.
BindingsSound == BrokerTypeOK /\ OneExecutable /\ InflightOpen

\* Turns, reconnects and compactions begun under an earlier owner, and work under sources
\* that were revoked, never take effect afterwards, and no candidate is published from a
\* source that changed; of forks and one-shot bindings, what OwnerChangeFences says.
StaleWorkFenced == OwnerChangeFences /\ RevocationFences /\ ForksEvaluate

\* A late completion, reconnect or compaction brings back neither a retired binding nor,
\* within a process, a quarantined one, and no turn that was given up is completed.
LeftForGood == RetiredStaysRetired /\ QuarantineHolds /\ TurnOutcomesFinal

\* Late completions, changes of owner, revocations and restarts between the steps of a
\* binding: stale work is fenced as StaleWorkFenced says, and nothing that was given up
\* comes back.
BrokerStepsSound == StaleWorkFenced /\ LeftForGood
============================================================================
