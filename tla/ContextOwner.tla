---------------------------- MODULE ContextOwner ----------------------------
(***************************************************************************)
(* The production context owner of one workflow run, in several service    *)
(* processes over one ContextControlStore: a process that took over and    *)
(* the one it replaced, which may still be alive.                          *)
(*                                                                         *)
(* A process makes first contact with the run (record_observation of       *)
(* observation.rs without an entry): it is admitted by the trusted-lease   *)
(* sidecar, reads the journal, claims the store's owner token, and writes  *)
(* the authority it recovered.  Each is a step of its own.  From then on   *)
(* its handlers run one at a time under its mutex, and every write is one  *)
(* SQLite transaction that first verifies the token.  A handle claims      *)
(* once, so a process that holds the token when it writes has held it      *)
(* since before it read: such a handler is one action.  The render of a    *)
(* source only reads, and verifies the token before it reads on.           *)
(*                                                                         *)
(* One actor and one control limit: calls of another actor or naming       *)
(* another boundary, lease or limit are refused without an effect.         *)
(* Expiry times are left out: an expired item refuses, as any error does.  *)
(***************************************************************************)
EXTENDS ControlAuthority

CONSTANTS
  Services,      \* processes
  Leases,        \* lease epochs; the runtime issues one lease per epoch
  Invocations,   \* node executions of the decide node
  Configured,    \* configured sources, each named by the plan it was prepared from
  Requests,      \* publication requests; each names the source it publishes
  Drafts,        \* draft ids
  Mutations,     \* mutation request ids
  NoService, NoJournal, NoSource, NoInvocation, NoDraft, NoPublication,
  MaxPublications,   \* MAX_OWNER_PUBLICATIONS
  MaxContacts        \* bound on first contacts

\* What may be active: a configured source or a publication, and the revision it made.
ActiveSources == [source: Configured \union Requests, plan: Nat]

ASSUME OwnerAssumption ==
  /\ Leases \subseteq Nat \ {0} /\ Configured \subseteq Nat \ {0}
  /\ Configured \intersect Requests = {}
  /\ MaxPublications \in Nat /\ MaxContacts \in Nat
  /\ NoJournal \notin Authorities /\ NoSource \notin ActiveSources

VARIABLES
  sidecar,       \* the trusted lease, 0 when there is none
  token,         \* the process whose handle is in context_control_owners
  journal,       \* context_control_journal
  rows,          \* context_control_owner_receipts, by idempotency key
  stored,        \* context_control_context_sources
  pointer, link, \* context_control_active_context_source, ..._publication_links
  drafts, done,  \* context_control_owner_state: the drafts and the request receipts
  published,     \* context_control_owner_publications, by request
  owner,         \* the processes
  contacts

ownerVars == <<sidecar, token, journal, rows, stored, pointer, link, drafts, done, published,
               owner, contacts>>

-----------------------------------------------------------------------------
(* A process.  gen is catalog_generation, captured says that the trusted   *)
(* render context is of the current binding, and reading is the source a   *)
(* render has read and not yet returned.                                   *)

\* catalog_generation is None; generations are natural numbers.
NoGeneration == -1

Gone ==
  [at |-> "idle", lease |-> 0, mem |-> NoJournal, gen |-> NoGeneration, node |-> NoInvocation,
   captured |-> FALSE, reading |-> NoSource]

OwnerInit ==
  /\ sidecar = 0 /\ token = NoService /\ journal = NoJournal
  /\ rows = [k \in Keys |-> NoReceipt]
  /\ stored = {} /\ pointer = NoSource /\ link = NoSource
  /\ drafts = [d \in Drafts |-> NoDraft] /\ done = {}
  /\ published = [r \in Requests |-> NoPublication]
  /\ owner = [p \in Services |-> Gone] /\ contacts = 0

\* The mutex is free.
Live(p) == owner[p].at = "live" /\ owner[p].reading = NoSource

\* The entry has the legal actions of its observation and a bound invocation.
Bound(p) ==
  Live(p) /\ owner[p].gen = owner[p].mem.seen.gen /\ owner[p].node # NoInvocation

\* ContextOwnerBinding, the part that can differ between two bindings of one run.
Binding(p) ==
  [boundary |-> Boundary(owner[p].mem), plan |-> owner[p].mem.plan,
   lease |-> owner[p].lease, node |-> owner[p].node]

\* Fault: the pointer of an older revision stays.
OfAny(x, a) == x

\* persist_inner without a source: the journal, and the retirement of a pointer and a
\* link of another revision.
Of(x, a) == IF x # NoSource /\ x.plan # a.plan THEN NoSource ELSE x
Persist(a) == journal' = a /\ pointer' = Of(pointer, a) /\ link' = Of(link, a)
Unpersisted == UNCHANGED <<journal, pointer, link>>

Kept == UNCHANGED <<sidecar, contacts, drafts, done, published, stored>>

-----------------------------------------------------------------------------
(* First contact.                                                          *)

\* admit_trusted_lease reads the sidecar and refuses an older lease.
ReadLease(p, l) ==
  /\ owner[p].at = "idle" /\ contacts < MaxContacts /\ l >= sidecar
  /\ owner' = [owner EXCEPT ![p] = [Gone EXCEPT !.lease = l,
                             !.at = IF l = sidecar THEN "admitted" ELSE "leasing"]]
  /\ contacts' = contacts + 1
  /\ UNCHANGED <<sidecar, token, journal, rows, stored, pointer, link, drafts, done, published>>

WriteLease(p) ==
  /\ owner[p].at = "leasing"
  /\ sidecar' = owner[p].lease
  /\ owner' = [owner EXCEPT ![p].at = "admitted"]
  /\ UNCHANGED <<token, journal, rows, stored, pointer, link, drafts, done, published, contacts>>

\* ContextControlStore::load up to its claim: Missing, or the recovered authority.
Load(p) ==
  /\ owner[p].at = "admitted"
  /\ owner' = [owner EXCEPT ![p].at = "loaded",
                            ![p].mem = IF journal = NoJournal THEN NoJournal ELSE Recover(journal)]
  /\ UNCHANGED <<token, rows>> /\ Unpersisted /\ Kept

ClaimToken(p) ==
  /\ owner[p].at = "loaded"
  /\ token' = p
  /\ owner' = [owner EXCEPT ![p].at = "claimed"]
  /\ UNCHANGED rows /\ Unpersisted /\ Kept

\* The observation that made the contact is recorded and written with the authority.
FirstPersist(p, o) ==
  LET a == IF owner[p].mem = NoJournal THEN NewAuthority(o) ELSE owner[p].mem
  IN  /\ owner[p].at = "claimed" /\ token = p
      /\ Recoverable(a) /\ MayObserve(a, o)
      /\ Persist(RecordObservation(a, o, NoCatalog))
      /\ owner' = [owner EXCEPT ![p].at = "live", ![p].mem = RecordObservation(a, o, NoCatalog)]
      /\ UNCHANGED <<token, rows>> /\ Kept

\* A refused or failed contact, invalidate, and the end of the process.
Drop(p) ==
  /\ owner[p].at # "idle"
  /\ owner' = [owner EXCEPT ![p] = Gone]
  /\ UNCHANGED <<token, rows>> /\ Unpersisted /\ Kept

-----------------------------------------------------------------------------
(* Observations and bindings.  The write may fail, and does once another   *)
(* process holds the token; what the handler assigned before it stays.     *)

RetainsCatalog(p, o) == owner[p].gen = o.gen /\ owner[p].mem.seen.id = o.id

\* Writes the memory of p after the step, or fails.
Attempt(p, ok) == IF ok THEN token = p /\ Persist(owner'[p].mem) ELSE Unpersisted

Observe(p, o, ok) ==
  LET a == RecordObservation(owner[p].mem, o,
             IF RetainsCatalog(p, o) THEN owner[p].mem.catalog ELSE NoCatalog)
  IN  /\ Live(p) /\ MayObserve(owner[p].mem, o)
      /\ owner' = [owner EXCEPT ![p].mem = a, ![p].captured = @ /\ a = owner[p].mem,
                     ![p].gen = IF ~ok THEN @ ELSE IF RetainsCatalog(p, o) THEN o.gen
                                  ELSE NoGeneration]
      /\ Attempt(p, ok)
      /\ UNCHANGED <<token, rows>> /\ Kept

\* record_legal_actions: the actions must be of the current observation.
RecordLegalActions(p, ok) ==
  LET a == RecordObservation(owner[p].mem, owner[p].mem.seen, owner[p].mem.seen)
  IN  /\ Live(p)
      /\ owner' = [owner EXCEPT ![p].mem = a, ![p].captured = @ /\ a = owner[p].mem,
                     ![p].gen = IF ok THEN a.seen.gen ELSE @]
      /\ Attempt(p, ok)
      /\ UNCHANGED <<token, rows>> /\ Kept

Bind(p, n) ==
  /\ Live(p) /\ owner[p].gen = owner[p].mem.seen.gen
  /\ owner' = [owner EXCEPT ![p].node = n, ![p].captured = @ /\ n = owner[p].node]
  /\ token = p /\ Persist(owner[p].mem)
  /\ UNCHANGED <<token, rows>> /\ Kept

\* capture_trusted_render_context.
Capture(p) ==
  /\ Bound(p) /\ ~owner[p].captured
  /\ owner' = [owner EXCEPT ![p].captured = TRUE]
  /\ UNCHANGED <<token, rows>> /\ Unpersisted /\ Kept

-----------------------------------------------------------------------------
(* Control commands and adoptions.  A command whose receipt is in the      *)
(* store is answered from it (the same command) or refused (another one    *)
(* with its key), so one that takes effect finds no row.  A refusal or a   *)
(* failed write leaves the authority as it was.                            *)

\* The authority a writes with the receipt of the command of key k.
Accept(p, k, a) ==
  /\ token = p /\ rows[k] = NoReceipt
  /\ rows' = [rows EXCEPT ![k] = a.commands[k]]
  /\ journal' = a
  /\ owner' = [owner EXCEPT ![p].mem = a, ![p].captured = FALSE]
  /\ UNCHANGED token /\ Kept

\* submit_context_control_command and control_current.
Control(p, k) ==
  LET a == owner[p].mem
  IN  /\ Bound(p)
      /\ \E b \in {Pause(a, k), Commit(a, k), Resume(a, k)} :
           /\ \/ b = Pause(a, k) /\ MayPause(a, k)
              \/ b = Commit(a, k) /\ MayCommit(a, k)
              \/ b = Resume(a, k) /\ MayResume(a, k)
           /\ Accept(p, k, b)
           /\ pointer' = Of(pointer, b) /\ link' = Of(link, b)

\* publish_source of a configured source.
PublishSource(p, s) ==
  /\ Live(p) /\ token = p
  /\ stored' = stored \union {s}
  /\ UNCHANGED <<sidecar, token, rows, owner, contacts, drafts, done, published>> /\ Unpersisted

\* adopt_source: the source is published and prepared from the active revision.
AdoptConfigured(p, k, s) ==
  LET a == owner[p].mem
  IN  /\ Bound(p) /\ s \in stored /\ s = a.plan
      /\ MayAdopt(a, k) /\ Accept(p, k, Adopt(a, k))
      /\ pointer' = [source |-> s, plan |-> a.plan + 1] /\ link' = NoSource

\* adopt_source of a publication: of exactly the current binding and boundary.
AdoptPublication(p, k, r) ==
  LET a == owner[p].mem
      active == [source |-> r, plan |-> a.plan + 1]
  IN  /\ Bound(p) /\ published[r] # NoPublication
      /\ published[r].base = a.plan /\ published[r].binding = Binding(p)
      /\ MayAdopt(a, k) /\ Accept(p, k, Adopt(a, k))
      /\ pointer' = active /\ link' = active

-----------------------------------------------------------------------------
(* The active source, and the drafts prepared from it.                     *)

\* publication_binding_matches: a publication serves the invocation, the lease and the
\* generation it was published for.
Serves(r, b) ==
  /\ published[r] # NoPublication
  /\ published[r].binding.node = b.node /\ published[r].binding.lease = b.lease
  /\ published[r].binding.boundary.seen.gen = b.boundary.seen.gen

\* active_context_source and, for a publication, load_active_publication, for binding b.
Usable(x, b) ==
  /\ x.plan = b.plan /\ x.source \in stored \union Requests
  /\ x.source \in Requests => link = x /\ Serves(x.source, b)

ActiveSource == IF pointer = NoSource THEN NoSource ELSE pointer.source

CreateDraft(p, d, m) ==
  /\ Bound(p) /\ token = p /\ m \notin done /\ drafts[d] = NoDraft
  /\ pointer # NoSource => Usable(pointer, Binding(p))
  /\ drafts' = [drafts EXCEPT ![d] =
                 [binding |-> Binding(p), base |-> owner[p].mem.plan, source |-> ActiveSource,
                  version |-> 1]]
  /\ done' = done \union {m}
  /\ UNCHANGED <<sidecar, token, rows, stored, owner, contacts, published>> /\ Unpersisted

\* current_patch_draft, and verify_active_source of the draft.
DraftCurrent(p, d) ==
  /\ Bound(p) /\ drafts[d] # NoDraft
  /\ drafts[d].binding = Binding(p) /\ drafts[d].base = owner[p].mem.plan
  /\ drafts[d].source \in {NoSource, ActiveSource}
  /\ pointer # NoSource => Usable(pointer, drafts[d].binding)

PatchDraft(p, d, m) ==
  /\ DraftCurrent(p, d) /\ token = p /\ m \notin done
  /\ drafts' = [drafts EXCEPT ![d].version = @ + 1]
  /\ done' = done \union {m}
  /\ UNCHANGED <<sidecar, token, rows, stored, owner, contacts, published>> /\ Unpersisted

\* A preview renders the draft with the captured input and records only itself.
PreviewDraft(p, d, m) ==
  /\ DraftCurrent(p, d) /\ owner[p].captured /\ token = p /\ m \notin done
  /\ done' = done \union {m}
  /\ UNCHANGED <<sidecar, token, rows, stored, owner, contacts, drafts, published>> /\ Unpersisted

Publications == {r \in Requests : published[r] # NoPublication}

PublishDraft(p, d, r) ==
  /\ DraftCurrent(p, d) /\ token = p /\ published[r] = NoPublication
  /\ Cardinality(Configured) + Cardinality(Publications) < MaxPublications
  /\ published' = [published EXCEPT ![r] =
                    [binding |-> Binding(p), base |-> drafts[d].base,
                     version |-> drafts[d].version]]
  /\ UNCHANGED <<sidecar, token, rows, stored, owner, contacts, drafts, done>> /\ Unpersisted

-----------------------------------------------------------------------------
(* resolve_render_source: the gate and the boundary are checked in memory, *)
(* the pointer is read, and the token verified before the source is read.  *)

RenderRead(p) ==
  /\ Bound(p) /\ AdmitsPlan(owner[p].mem, owner[p].mem.plan)
  /\ pointer # NoSource /\ pointer.plan = owner[p].mem.plan
  /\ owner' = [owner EXCEPT ![p].reading = pointer]
  /\ UNCHANGED <<token, rows>> /\ Unpersisted /\ Kept

\* Fault: the token is not verified again.
RenderReturnsUnverified(p) ==
  /\ owner[p].reading # NoSource
  /\ Usable(owner[p].reading, Binding(p))
  /\ owner' = [owner EXCEPT ![p].reading = NoSource]
  /\ UNCHANGED <<token, rows>> /\ Unpersisted /\ Kept

RenderReturns(p) ==
  /\ owner[p].reading # NoSource /\ token = p
  /\ Usable(owner[p].reading, Binding(p))
  /\ owner' = [owner EXCEPT ![p].reading = NoSource]
  /\ UNCHANGED <<token, rows>> /\ Unpersisted /\ Kept

RenderRefused(p) ==
  /\ owner[p].reading # NoSource
  /\ token # p \/ ~Usable(owner[p].reading, Binding(p))
  /\ owner' = [owner EXCEPT ![p].reading = NoSource]
  /\ UNCHANGED <<token, rows>> /\ Unpersisted /\ Kept

-----------------------------------------------------------------------------

Contact(p) ==
  \/ \E l \in Leases : ReadLease(p, l)
  \/ WriteLease(p)
  \/ Load(p)
  \/ ClaimToken(p)
  \/ \E o \in Observations : FirstPersist(p, o)
  \/ Drop(p)

Serve(p) ==
  \/ \E ok \in BOOLEAN : RecordLegalActions(p, ok) \/ \E o \in Observations : Observe(p, o, ok)
  \/ \E n \in Invocations : Bind(p, n)
  \/ Capture(p)
  \/ \E k \in Keys : Control(p, k)
  \/ \E s \in Configured : PublishSource(p, s) \/ \E k \in Keys : AdoptConfigured(p, k, s)
  \/ \E k \in Keys, r \in Requests : AdoptPublication(p, k, r)
  \/ \E d \in Drafts, m \in Mutations :
       CreateDraft(p, d, m) \/ PatchDraft(p, d, m) \/ PreviewDraft(p, d, m)
  \/ \E d \in Drafts, r \in Requests : PublishDraft(p, d, r)

Render(p) == RenderRead(p) \/ RenderReturns(p) \/ RenderRefused(p)

OwnerNext == \E p \in Services : Contact(p) \/ Serve(p) \/ Render(p)

OwnerSpec == OwnerInit /\ [][OwnerNext]_ownerVars

-----------------------------------------------------------------------------
(* Properties.                                                             *)

\* What a process decides on is what the store holds, for the process the token names:
\* its memory is the journal, up to an observation whose write failed.
HolderMirrorsJournal ==
  \A p \in Services :
    owner[p].at = "live" /\ token = p =>
      /\ journal # NoJournal
      /\ owner[p].mem = RecordObservation(journal, owner[p].mem.seen, owner[p].mem.catalog)

\* The active source is of the active revision, and a publication is active only with
\* the link that authenticates it, prepared from the revision it replaced.
ActiveOfRevision ==
  /\ pointer # NoSource =>
       /\ journal # NoJournal /\ pointer.plan = journal.plan
       /\ pointer.source \in Requests <=> link = pointer
  /\ link # NoSource => link = pointer /\ published[link.source].base = link.plan - 1

\* A command in the journal has its receipt in the store: a caller that lost the answer
\* finds it.
CommandsReceipted ==
  journal # NoJournal =>
    \A k \in Keys : journal.commands[k] # NoReceipt => rows[k] = journal.commands[k]

\* A process that takes its catalog for current has the legal actions of the very
\* observation it would act on.
CatalogOfObservation ==
  \A p \in Services :
    owner[p].at = "live" /\ owner[p].gen = owner[p].mem.seen.gen =>
      owner[p].mem.catalog = owner[p].mem.seen

\* The store and the process that owns it agree, whatever a replaced process still does
\* and whichever write fails (store_persist.rs, observation.rs).
OwnerSound ==
  /\ HolderMirrorsJournal /\ ActiveOfRevision /\ CommandsReceipted /\ CatalogOfObservation
  /\ journal # NoJournal => Recoverable(journal)

\* A source reaches a decision only while it is the active source of the journal's
\* revision and the journal's gate is open, though the process that serves it checked
\* its own memory and may have been replaced since (source_render_resolution.rs).
ServedIsActive(p) ==
  RenderReturns(p) => pointer = owner[p].reading /\ AdmitsPlan(journal, pointer.plan)

\* A receipt is never replaced, and the journal loses an accepted command only to a
\* process that takes over (store_receipts.rs, store.rs).
CommandKept(k) ==
  /\ rows[k] # NoReceipt => rows'[k] = rows[k]
  /\ journal # NoJournal /\ journal.commands[k] # NoReceipt
       /\ journal'.commands[k] # journal.commands[k] =>
         \E p \in Services, o \in Observations : FirstPersist(p, o)

\* What no step of any process may do to a decision or to an accepted command: serve a
\* source that is not the active one of an open gate, or take a command back.
OwnerSteps ==
  [][(\A p \in Services : ServedIsActive(p)) /\ (\A k \in Keys : CommandKept(k))]_ownerVars
=============================================================================
