-------------------------- MODULE BranchContinuation --------------------------
(***************************************************************************)
(* Runtime processes that continue a selected branch of the durable branch *)
(* store: bin/runtime_support/branch_continuation_runtime*.rs,             *)
(* continuation_owner*.rs and runtime_v3_branch_continuation.rs.  A        *)
(* process reconciles the branches at its start, admits the selected one,  *)
(* claims it and the owner of its destination, restores or replays the     *)
(* source there, publishes the boundary and plays; or it resumes a running *)
(* branch on the destination that still has it.                            *)
(*                                                                         *)
(* The gateway and the host behind it are external: a destination is the   *)
(* lease of an instance, numbered by its epoch, which stands for the whole *)
(* owner tuple.  The gateway gives an instance to one live process at a    *)
(* time and may hand a lease whose process died to the next one.           *)
(***************************************************************************)
EXTENDS BranchStore

CONSTANTS
    Processes,  \* runtime processes that may be alive at once
    Instances,  \* destinations of the gateway
    Worlds,     \* situations to begin with: the rows of the store, the starts of processes,
                \* the branches operators edit and the revision up to which they do
    MaxLeases   \* bound on the leases the gateway grants

ASSUME ContinuationAssumption ==
    /\ MaxLeases \in Nat
    /\ \A w \in Worlds :
         /\ w.starts \in Nat /\ w.edits \in Nat /\ w.edited \subseteq Branches
         /\ w.rows \in [Branches -> {NoBranch} \cup BranchRows]
         /\ \A b \in Branches :
              w.rows[b] # NoBranch /\ w.rows[b].status \in Evidenced => w.rows[b].assured

VARIABLES
    world,    \* one of Worlds
    proc,     \* each process: where it is and what it keeps in memory
    lock,     \* the processes that hold the flock of the store
    starts,
    claims,   \* branch_continuation_claims
    granted,  \* gateway: the owner recorded for the claim operation of a branch, 0 if none
    leases,   \* gateway: the lease of each instance, 0 if none
    epoch,    \* gateway: leases granted so far
    hosts,    \* host: the game behind each lease
    commits   \* host: the revision in the receipt of a branch's restore operation, 0 if none

gatewayVars == <<granted, leases, epoch, hosts, commits>>
continuationVars == <<storeVars, world, proc, lock, starts, claims, gatewayVars>>

\* memory is owner_claim.state as the process last read it, seen the state its owner
\* claim goes from, op the revision its operation ids are derived from.
Gone == [pc |-> "gone", b |-> NoBranch, resuming |-> FALSE, todo |-> {}, rev |-> 0, op |-> 0,
         memory |-> "none", seen |-> "none", lease |-> 0]

ContinuationInit ==
    /\ world \in Worlds /\ branches = world.rows
    /\ tombs = {} /\ collected = {} /\ branchOps = {}
    /\ proc = [p \in Processes |-> Gone]
    /\ lock = {} /\ starts = 0
    /\ claims = [b \in Branches |-> [state |-> "none", owner |-> 0]]
    /\ granted = [b \in Branches |-> 0]
    /\ leases = [i \in Instances |-> 0]
    /\ epoch = 0
    /\ hosts = [o \in 1..MaxLeases |-> "blank"]
    /\ commits = [b \in Branches |-> 0]

Row(p) == branches[proc[p].b]
Exact(p) == Row(p).strategy = "exact"
IsAt(p, pc) == proc[p].pc = pc
Go(p, pc) == proc' = [proc EXCEPT ![p].pc = pc]
Exit(p) == proc' = [proc EXCEPT ![p] = Gone] /\ lock' = lock \ {p}

\* A step of p that is one transaction of the store, with the id it derives for the
\* suffix; a row that is answered gives p its current revision.
Store(p, suffix, payload, can, row, next, else) ==
    LET id == <<proc[p].b, proc[p].op, suffix>>
        done == Outcome(id, payload, can) # "refused"
        to == IF done THEN next ELSE else
    IN  /\ Transact(id, payload, can, proc[p].b, row)
        /\ IF to = "gone" THEN Exit(p)
           ELSE /\ proc' = [proc EXCEPT ![p].pc = to,
                                        ![p].rev = IF done THEN branches'[proc[p].b].rev ELSE @]
                /\ UNCHANGED lock
        /\ UNCHANGED <<starts, claims, gatewayVars>>

StoreMove(p, suffix, status, next, else) ==
    Store(p, suffix, <<proc[p].rev, status>>, CanMove(proc[p].b, proc[p].rev, status),
          Moved(Row(p), status), next, else)

(***************************************************************************)
(* Start: reconcile_startup, then the admission of the selected branch.    *)
(***************************************************************************)
Start(p, b, resuming) ==
    /\ IsAt(p, "gone") /\ starts < world.starts
    /\ starts' = starts + 1
    /\ proc' = [proc EXCEPT ![p] =
           [Gone EXCEPT !.pc = "reconcile", !.b = b, !.resuming = resuming,
                        !.todo = {[b |-> r, rev |-> branches[r].rev, status |-> branches[r].status] :
                                      r \in {r \in Rows : branches[r].status \in HalfCreated}}]]
    /\ UNCHANGED <<storeVars, lock, claims, gatewayVars>>

Resolution(status) == IF status = "pending" THEN "archived" ELSE "failed"

\* The operation id of a reconciliation names the branch and not its revision.
ReconcileId(b) == <<b, "startup">>

Reconcile(p) ==
    \E x \in proc[p].todo :
        LET id == ReconcileId(x.b)
            payload == <<x.rev, Resolution(x.status)>>
            can == CanMove(x.b, x.rev, Resolution(x.status))
        IN  /\ IsAt(p, "reconcile")
            /\ Transact(id, payload, can, x.b, Moved(branches[x.b], Resolution(x.status)))
            /\ IF Outcome(id, payload, can) # "refused" /\ branches'[x.b].status \notin HalfCreated
               THEN proc' = [proc EXCEPT ![p].todo = @ \ {x}] /\ UNCHANGED lock
               ELSE Exit(p)
            /\ UNCHANGED <<starts, claims, gatewayVars>>

\* The artifacts of the branch name one source, and a pruned branch has none.
Resolvable(b) == b \in Rows \ tombs /\ Cardinality(branches[b].artifacts \cap Sources) = 1

Ready(p) == /\ Resolvable(proc[p].b)
            /\ Row(p).status = "ready" /\ Row(p).assured

\* The first restore that was claimed for the branch, in the order of its events.
FirstClaim(b) == CHOOSE r \in 0..MaxRevision :
    /\ Recorded(<<b, r, "claim-restore">>) # {}
    /\ \A q \in 0..MaxRevision : Recorded(<<b, q, "claim-restore">>) # {} => r <= q

\* A running branch, and for an exact one the one receipt of its restore.
Resumable(p) ==
    /\ Resolvable(proc[p].b)
    /\ Row(p).status = "running" /\ Row(p).assured
    /\ claims[proc[p].b].state \in {"boundary_verified", "resuming"}
    /\ Exact(p) =>
         /\ \E r \in 0..MaxRevision : Recorded(<<proc[p].b, r, "claim-restore">>) # {}
         /\ Row(p).artifacts \ Sources = {Receipt(FirstClaim(proc[p].b) + 1)}

StartupDone(p) == IsAt(p, "reconcile") /\ proc[p].todo = {}

Load(p) ==
    /\ StartupDone(p) /\ ~proc[p].resuming /\ Ready(p)
    /\ proc' = [proc EXCEPT ![p].pc = "prepare", ![p].rev = Row(p).rev, ![p].op = Row(p).rev]
    /\ UNCHANGED <<storeVars, lock, starts, claims, gatewayVars>>

\* Only a resume takes the lock.
LoadForResume(p) ==
    /\ StartupDone(p) /\ proc[p].resuming /\ lock = {} /\ Resumable(p)
    /\ lock' = {p}
    /\ proc' = [proc EXCEPT ![p].pc = "prepare", ![p].rev = Row(p).rev,
                            ![p].op = IF Exact(p) THEN FirstClaim(proc[p].b) ELSE Row(p).rev,
                            ![p].memory = claims[proc[p].b].state]
    /\ UNCHANGED <<storeVars, starts, claims, gatewayVars>>

\* A refused admission, or an artifact whose bytes cannot be read.
LoadRefused(p) ==
    /\ StartupDone(p) /\ Exit(p)
    /\ UNCHANGED <<storeVars, starts, claims, gatewayVars>>

(***************************************************************************)
(* The claims: of the branch in the store, and of the owner.               *)
(***************************************************************************)
PrepareOwnerClaim(p) ==
    LET b == proc[p].b
    IN  /\ IsAt(p, "prepare")
        /\ claims' = IF claims[b].state = "none" THEN [claims EXCEPT ![b].state = "prepared"] ELSE claims
        /\ proc' = [proc EXCEPT ![p].memory = claims'[b].state,
                                ![p].pc = IF proc[p].resuming THEN "claim_resume"
                                          ELSE IF Exact(p) THEN "check_ready" ELSE "allocate"]
        /\ UNCHANGED <<storeVars, lock, starts, gatewayVars>>

\* claim_exact_restore reads the status before it writes.
CheckReady(p) ==
    /\ IsAt(p, "check_ready")
    /\ IF Row(p).status = "ready" THEN Go(p, "claim_restore") /\ UNCHANGED lock ELSE Exit(p)
    /\ UNCHANGED <<storeVars, starts, claims, gatewayVars>>

ClaimExactRestore(p) ==
    IsAt(p, "claim_restore") /\ StoreMove(p, "claim-restore", "restoring", "allocate", "gone")

\* transition_continuation_claim
ClaimMove(b, from, to) ==
    /\ claims[b].state \in {from, to}
    /\ claims' = [claims EXCEPT ![b].state = to]

ClaimResume(p) ==
    /\ IsAt(p, "claim_resume")
    /\ \/ /\ proc[p].memory \in {"boundary_verified", "resuming"}
          /\ ClaimMove(proc[p].b, proc[p].memory, "resuming")
          /\ Go(p, "adopt") /\ UNCHANGED lock
       \/ /\ \/ proc[p].memory \notin {"boundary_verified", "resuming"}
             \/ claims[proc[p].b].state \notin {proc[p].memory, "resuming"}
          /\ UNCHANGED claims /\ Exit(p)
    /\ UNCHANGED <<storeVars, starts, gatewayVars>>

\* The gateway adopts a lease that is current, for the operation that claimed it.
AdoptCurrentOwner(p) ==
    LET c == claims[proc[p].b]
    IN  /\ IsAt(p, "adopt") /\ c.state = "resuming"
        /\ \E i \in Instances : leases[i] = c.owner
        /\ granted[proc[p].b] = c.owner
        /\ proc' = [proc EXCEPT ![p].pc = "playing", ![p].lease = c.owner]
        /\ UNCHANGED <<storeVars, lock, starts, claims, gatewayVars>>

\* Any other answer, an unresolved operation or no boundary in the execution store.
PreflightFails(p) ==
    /\ proc[p].pc \in {"adopt", "allocate"} /\ Go(p, "failing")
    /\ UNCHANGED <<storeVars, lock, starts, claims, gatewayVars>>

LeaseHeld(o) == \E p \in Processes : proc[p].lease = o

Allocate(p, i) ==
    /\ IsAt(p, "allocate")
    /\ \/ /\ leases[i] = 0 /\ epoch < MaxLeases
          /\ epoch' = epoch + 1 /\ leases' = [leases EXCEPT ![i] = epoch + 1]
       \/ /\ leases[i] # 0 /\ ~LeaseHeld(leases[i])
          /\ UNCHANGED <<epoch, leases>>
    /\ proc' = [proc EXCEPT ![p].pc = "owner", ![p].lease = leases'[i]]
    /\ UNCHANGED <<storeVars, lock, starts, claims, granted, hosts, commits>>

\* release_lease_inner, whose request may fail, and then mark_failed.
ReleaseAndFail(p) ==
    /\ proc' = [proc EXCEPT ![p].pc = "failing", ![p].lease = 0]
    /\ \/ leases' = [i \in Instances |-> IF leases[i] = proc[p].lease THEN 0 ELSE leases[i]]
       \/ UNCHANGED leases
    /\ UNCHANGED <<storeVars, lock, starts, epoch, hosts, commits>>

\* The owner that is current against the one that is durable.
SnapshotOwner(p) ==
    LET b == proc[p].b
    IN  /\ IsAt(p, "owner") /\ claims[b].owner = 0 /\ claims[b].state = "prepared"
        /\ claims' = [claims EXCEPT ![b] = [state |-> "owner_snapshotted", owner |-> proc[p].lease]]
        /\ proc' = [proc EXCEPT ![p].pc = "owner_claim", ![p].seen = "owner_snapshotted"]
        /\ UNCHANGED <<storeVars, lock, starts, gatewayVars>>

SameOwner(p) == claims[proc[p].b].owner = proc[p].lease

KnownOwner(p) ==
    /\ IsAt(p, "owner") /\ SameOwner(p)
    /\ claims[proc[p].b].state \in {"owner_snapshotted", "unknown"}
    /\ proc' = [proc EXCEPT ![p].pc = "owner_claim", ![p].seen = claims[proc[p].b].state]
    /\ UNCHANGED <<storeVars, lock, starts, claims, gatewayVars>>

Strategy(p) == IF Exact(p) THEN "restore" ELSE "replay_claim"

\* Mutant: an acknowledged claim is taken for the current owner's.
AcknowledgedAnyOwner(p) ==
    /\ IsAt(p, "owner") /\ claims[proc[p].b].state \in {"claimed", "boundary_verified"}
    /\ Go(p, Strategy(p))
    /\ UNCHANGED <<storeVars, lock, starts, claims, gatewayVars>>

\* A claim that was acknowledged needs only the lookup.
AcknowledgedOwner(p) ==
    /\ IsAt(p, "owner") /\ SameOwner(p)
    /\ claims[proc[p].b].state \in {"claimed", "boundary_verified"}
    /\ granted[proc[p].b] = proc[p].lease
    /\ Go(p, Strategy(p))
    /\ UNCHANGED <<storeVars, lock, starts, claims, gatewayVars>>

\* Another owner, a claim that is being resumed, or a gateway that cannot be read.
OwnerRefused(p) ==
    LET b == proc[p].b
    IN  /\ IsAt(p, "owner")
        /\ claims' = IF claims[b].owner \notin {0, proc[p].lease}
                        /\ claims[b].state \in {"claimed", "owner_snapshotted"}
                     THEN [claims EXCEPT ![b].state = "unknown"] ELSE claims
        /\ ReleaseAndFail(p) /\ UNCHANGED granted

\* Mutant: a claim that may have reached the gateway is recorded as acknowledged.
AssumesAcknowledged(p, reached, reply) ==
    /\ IsAt(p, "owner_claim")
    /\ granted' = IF reached /\ granted[proc[p].b] = 0
                  THEN [granted EXCEPT ![proc[p].b] = proc[p].lease] ELSE granted
    /\ Go(p, "record_claim")
    /\ UNCHANGED <<storeVars, lock, starts, claims, leases, epoch, hosts, commits>>

\* The claim request reaches the gateway or not, and so does its answer come back; an
\* answer that is lost is looked up.  What stays uncertain is recorded as unknown,
\* unless the lookup itself failed.
ClaimOwner(p, reached, reply) ==
    LET b == proc[p].b
    IN  /\ IsAt(p, "owner_claim")
        /\ granted' = IF reached /\ granted[b] = 0 THEN [granted EXCEPT ![b] = proc[p].lease] ELSE granted
        /\ \/ /\ reply = "acknowledged" /\ granted'[b] = proc[p].lease
              /\ Go(p, "record_claim")
              /\ UNCHANGED <<storeVars, lock, starts, claims, leases, epoch, hosts, commits>>
           \/ /\ reply = "uncertain"
              /\ claims' = IF claims[b].state = proc[p].seen
                           THEN [claims EXCEPT ![b].state = "unknown"] ELSE claims
              /\ ReleaseAndFail(p)
           \/ /\ reply = "unread" /\ UNCHANGED claims
              /\ ReleaseAndFail(p)

\* The owner_claim that SelectedBranchContinuation keeps is not read again.
RecordClaim(p) ==
    /\ IsAt(p, "record_claim")
    /\ \/ ClaimMove(proc[p].b, proc[p].seen, "claimed") /\ Go(p, Strategy(p))
          /\ UNCHANGED <<storeVars, lock, starts, gatewayVars>>
       \/ claims[proc[p].b].state \notin {proc[p].seen, "claimed"}
          /\ UNCHANGED <<claims, granted>> /\ ReleaseAndFail(p)

(***************************************************************************)
(* Exact restore: the host commits the operation once and answers the same *)
(* receipt to whoever begins it again.                                     *)
(***************************************************************************)
Commit(p) ==
    IF commits[proc[p].b] = 0
    THEN /\ commits' = [commits EXCEPT ![proc[p].b] = proc[p].rev]
         /\ hosts' = [hosts EXCEPT ![proc[p].lease] = "boundary"]
    ELSE UNCHANGED <<commits, hosts>>

\* Mutant: an answer that was lost counts as a restore.
RestoreAssumed(p) ==
    /\ IsAt(p, "restore") /\ (Commit(p) \/ UNCHANGED <<commits, hosts>>) /\ Go(p, "attach")
    /\ UNCHANGED <<storeVars, lock, starts, claims, granted, leases, epoch>>

Restore(p) ==
    /\ IsAt(p, "restore")
    /\ \/ Commit(p) /\ Go(p, "attach") /\ UNCHANGED <<storeVars, lock, starts, claims, granted, leases, epoch>>
       \/ (Commit(p) \/ UNCHANGED <<commits, hosts>>) /\ Go(p, "unknowing")
          /\ UNCHANGED <<storeVars, lock, starts, claims, granted, leases, epoch>>
       \/ Go(p, "failing") /\ UNCHANGED <<storeVars, lock, starts, claims, gatewayVars>>

\* Where the process goes when it cannot publish.
Unpublished(p) == IF Exact(p) THEN "unknowing" ELSE "failing"

CannotPublish(p) == Go(p, Unpublished(p)) /\ UNCHANGED <<storeVars, lock, starts, claims, gatewayVars>>

\* publish_exact_restore_receipt and publish_prefix_boundary read the status and then
\* write, one transaction after the other.
AttachReceipt(p) ==
    LET receipt == Receipt(commits[proc[p].b])
    IN  /\ IsAt(p, "attach")
        /\ IF Row(p).status = "restoring"
           THEN Store(p, "receipt-artifact", <<proc[p].rev, "receipt", commits[proc[p].b]>>,
                      CanAttach(proc[p].b, proc[p].rev, receipt), Attached(Row(p), receipt),
                      "assure", "unknowing")
           ELSE CannotPublish(p)

PublishAssurance(p) ==
    /\ IsAt(p, "assure")
    /\ IF Exact(p) \/ Row(p).status = "replaying"
       THEN Store(p, "assurance", <<proc[p].rev, "assured">>, CanAssure(proc[p].b, proc[p].rev),
                  Assured(Row(p), TRUE), "ready", Unpublished(p))
       ELSE CannotPublish(p)

PublishReady(p) ==
    /\ IsAt(p, "ready")
    /\ StoreMove(p, "ready", "ready", IF Exact(p) THEN "boundary" ELSE "run", Unpublished(p))

\* The boundary of an exact branch is recorded before it runs, of a prefix branch after;
\* gameplay is launched, or fails to, once both are done.
PublishBoundary(p) ==
    /\ IsAt(p, "boundary")
    /\ IF proc[p].memory = "claimed"
       THEN \/ ClaimMove(proc[p].b, "claimed", "boundary_verified")
               /\ Go(p, IF Exact(p) THEN "run" ELSE "playing")
            \/ claims[proc[p].b].state \notin {"claimed", "boundary_verified"}
               /\ UNCHANGED claims /\ Go(p, Unpublished(p))
       ELSE Go(p, IF Exact(p) THEN "run" ELSE "playing") /\ UNCHANGED claims
    /\ UNCHANGED <<storeVars, lock, starts, gatewayVars>>

PublishRunning(p) ==
    /\ IsAt(p, "run")
    /\ StoreMove(p, "running", "running", IF Exact(p) THEN "playing" ELSE "boundary", Unpublished(p))

(***************************************************************************)
(* Prefix replay.                                                          *)
(***************************************************************************)
ClaimPrefixReplay(p) ==
    IsAt(p, "replay_claim") /\ StoreMove(p, "claim", "replaying", "replay", "failing")

\* The recorded actions are dispatched again; a game that is not at its beginning
\* diverges from the recording.
Replay(p) ==
    /\ IsAt(p, "replay")
    /\ \/ /\ hosts[proc[p].lease] = "blank"
          /\ hosts' = [hosts EXCEPT ![proc[p].lease] = "boundary"] /\ Go(p, "assure")
          /\ UNCHANGED <<storeVars, lock, starts, claims, granted, leases, epoch, commits>>
       \/ /\ hosts' = [hosts EXCEPT ![proc[p].lease] = "played"] /\ Go(p, "failing")
          /\ UNCHANGED <<storeVars, lock, starts, claims, granted, leases, epoch, commits>>

(***************************************************************************)
(* Play, and the ends of a continuation.                                   *)
(***************************************************************************)
Play(p) ==
    /\ IsAt(p, "playing") /\ hosts[proc[p].lease] # "played"
    /\ hosts' = [hosts EXCEPT ![proc[p].lease] = "played"]
    /\ UNCHANGED <<storeVars, proc, lock, starts, claims, granted, leases, epoch, commits>>

\* A terminal game releases the lease and completes the branch.
GameOver(p) ==
    /\ IsAt(p, "playing")
    /\ proc' = [proc EXCEPT ![p].pc = "complete", ![p].lease = 0]
    /\ leases' = [i \in Instances |-> IF leases[i] = proc[p].lease THEN 0 ELSE leases[i]]
    /\ UNCHANGED <<storeVars, lock, starts, claims, granted, epoch, hosts, commits>>

Complete(p) == IsAt(p, "complete") /\ StoreMove(p, "complete", "completed", "gone", "gone")

\* The runner fails and cleans up, or the provider or the launch of gameplay does.
PlayFails(p) ==
    \/ proc[p].pc \in {"playing", "complete"} /\ UNCHANGED <<claims, granted>> /\ ReleaseAndFail(p)
    \/ /\ proc[p].pc \in {"playing", "replay_claim"} /\ Go(p, "failing")
       /\ UNCHANGED <<storeVars, lock, starts, claims, gatewayVars>>

MarkFailed(p) ==
    /\ IsAt(p, "failing")
    /\ CASE Row(p).status \in {"restoring", "replaying"} -> StoreMove(p, "failed", "failed", "gone", "gone")
         [] Row(p).status = "running" -> StoreMove(p, "failed", "unknown", "gone", "gone")
         [] OTHER -> Exit(p) /\ UNCHANGED <<storeVars, starts, claims, gatewayVars>>

\* Uncertain restores keep their lease.
MarkUnknown(p) ==
    /\ IsAt(p, "unknowing")
    /\ IF Row(p).status = "restoring" THEN StoreMove(p, "unknown", "unknown", "gone", "gone")
       ELSE Exit(p) /\ UNCHANGED <<storeVars, starts, claims, gatewayVars>>

Crash(p) ==
    /\ ~IsAt(p, "gone") /\ Exit(p)
    /\ UNCHANGED <<storeVars, starts, claims, gatewayVars>>

\* The lease of a process that is gone runs out.
Expire(i) ==
    /\ leases[i] # 0 /\ ~LeaseHeld(leases[i])
    /\ leases' = [leases EXCEPT ![i] = 0]
    /\ UNCHANGED <<storeVars, proc, lock, starts, claims, granted, epoch, hosts, commits>>

ProcessStep(p) ==
    \/ \E b \in Rows, resuming \in BOOLEAN : Start(p, b, resuming)
    \/ Reconcile(p) \/ Load(p) \/ LoadForResume(p) \/ LoadRefused(p)
    \/ PrepareOwnerClaim(p) \/ CheckReady(p) \/ ClaimExactRestore(p)
    \/ ClaimResume(p) \/ AdoptCurrentOwner(p) \/ PreflightFails(p)
    \/ \E i \in Instances : Allocate(p, i)
    \/ SnapshotOwner(p) \/ KnownOwner(p) \/ AcknowledgedOwner(p) \/ OwnerRefused(p)
    \/ \E reached \in BOOLEAN, reply \in {"acknowledged", "uncertain", "unread"} :
           ClaimOwner(p, reached, reply)
    \/ RecordClaim(p) \/ Restore(p) \/ AttachReceipt(p) \/ PublishAssurance(p)
    \/ PublishReady(p) \/ PublishBoundary(p) \/ PublishRunning(p)
    \/ ClaimPrefixReplay(p) \/ Replay(p)
    \/ Play(p) \/ GameOver(p) \/ Complete(p) \/ PlayFails(p)
    \/ MarkFailed(p) \/ MarkUnknown(p) \/ Crash(p)

ContinuationNext ==
    \/ /\ UNCHANGED world
       /\ \/ \E p \in Processes : ProcessStep(p)
          \/ \E i \in Instances : Expire(i)
    \/ /\ OperatorStep(world.edited)
       /\ \A b \in Rows : branches'[b] = branches[b] \/ branches'[b].rev <= world.edits
       /\ UNCHANGED <<world, proc, lock, starts, claims, gatewayVars>>

ContinuationSpec == ContinuationInit /\ [][ContinuationNext]_continuationVars

(***************************************************************************)
(* Properties.                                                             *)
(***************************************************************************)
\* Every variable keeps its shape, and one resume at most holds the lock of the store.
ContinuationTypeOK ==
    /\ branches \in [Branches -> {NoBranch} \cup BranchRows]
    /\ tombs \subseteq Rows /\ lock \subseteq Processes /\ Cardinality(lock) <= 1
    /\ \A p \in Processes : proc[p].lease \in 0..epoch /\ proc[p].rev \in 0..MaxRevision
    /\ claims \in [Branches ->
           [state : {"none", "prepared", "owner_snapshotted", "claimed", "boundary_verified",
                     "resuming", "unknown"}, owner : 0..MaxLeases]]
    /\ granted \in [Branches -> 0..MaxLeases] /\ leases \in [Instances -> 0..MaxLeases]
    /\ hosts \in [1..MaxLeases -> {"blank", "boundary", "played"}]

Drives(p, b) == IsAt(p, "playing") /\ proc[p].b = b

\* No two processes that began a branch play it at once: of two that were admitted at the
\* same revision, and share every operation id, one keeps the durable owner.
OneFreshDriver ==
    \A b \in Branches, p, q \in Processes :
        Drives(p, b) /\ Drives(q, b) /\ ~proc[p].resuming /\ ~proc[q].resuming => p = q

\* The gateway never acknowledged an owner other than the durable one, and a claim that
\* counts as acknowledged was, whatever was lost, retried or refused meanwhile.
ClaimAcknowledged ==
    \A b \in Branches :
        /\ granted[b] # 0 => claims[b].owner = granted[b]
        /\ claims[b].state \in {"claimed", "boundary_verified", "resuming"} =>
               granted[b] = claims[b].owner

\* A process that began a branch plays only on a game that is at the restored or replayed
\* boundary: not on a blank one, and not on one another process has moved on, unless the
\* gateway handed it a lease that is the durable owner of another branch as well.
Shared(o, b) == \E c \in Branches \ {b} : claims[c].owner = o
AtBoundary ==
    [][\A p \in Processes :
           IsAt(p, "playing")' /\ ~IsAt(p, "playing") /\ ~proc[p].resuming =>
               \/ hosts[proc[p].lease] = "boundary"
               \/ Shared(proc[p].lease, proc[p].b) /\ hosts[proc[p].lease] = "played"]_continuationVars

\* A resumed branch is played only on the destination whose game reached its boundary.
DrivenOnVerifiedHost ==
    \A p \in Processes :
        IsAt(p, "playing") /\ proc[p].resuming =>
            hosts[proc[p].lease] # "blank" /\ granted[proc[p].b] = proc[p].lease

\* publish_exact_restore_receipt says of Running: "a crash after it always leaves the
\* resume claim eligible for the same owner", so the claim of a running exact branch is
\* one a resume accepts.
ResumeEligible ==
    \A b \in Rows :
        branches[b].strategy = "exact" /\ branches[b].status = "running" =>
            claims[b].state \in {"boundary_verified", "resuming"}

\* Branches and claims stay sound under processes and operators: a branch that is ready or
\* beyond has its evidence, and a claim that counts as acknowledged is the gateway's.  A
\* branch is played by one process that began it, and by a resumed one only on the
\* destination whose game reached the boundary.
ContinuationSound ==
    /\ ContinuationTypeOK /\ ReadyAssured /\ ClaimAcknowledged
    /\ OneFreshDriver /\ DrivenOnVerifiedHost

\* Play begins only at a verified boundary, a pruned branch is never touched again, and a
\* prune gives up only what no remaining branch refers to.
BranchStepsSound == AtBoundary /\ PrunedFrozen /\ CollectsUnreferenced
===============================================================================
