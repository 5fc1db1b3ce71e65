--------------------------- MODULE StudioAuthoring ---------------------------
(***************************************************************************)
(* Studio authoring of the management service: drafts and publications     *)
(* (management/service_authoring.rs, authoring_sqlite.rs,                  *)
(* authoring_validation.rs) and proposals of an inference provider         *)
(* (service_authoring_inference.rs with its admission, and its journal in  *)
(* authoring_inference_journal_sqlite.rs).                                 *)
(*                                                                         *)
(* Clients create, save and publish drafts and ask for proposals.  A       *)
(* transaction of the database is one step and may fail; a handler that    *)
(* needs several may be overtaken between them.  The process may crash,    *)
(* which loses the handlers and not the database.                          *)
(***************************************************************************)
EXTENDS Naturals, Sequences

CONSTANTS
    Authors,        \* the handlers that run at one time
    Drafts,         \* draft ids
    Mutations,      \* client mutation ids of creates and saves
    Requests,       \* client mutation ids of requests for a proposal
    Bodies,         \* [document, layout]; a digest of one stands for it
    Compiles,       \* the documents the owner's validation and catalogs accept
    MaxRevision,    \* bound
    MaxReopens,    \* bound
    Unwritten       \* no row

Documents == {b.document : b \in Bodies}
MutationKeys == Drafts \X Mutations
OperationIds == Drafts \X Requests
Revisions == 0 .. MaxRevision

\* A draft record; its etag is the digest of its body.
DraftRows == [revision: Revisions, body: Bodies]

\* What an operation may end in.
TerminalStates == {"proposed", "refused", "budget_exhausted", "cancelled", "unknown"}

\* A recorded operation: its request (the draft record it is based on), its state
\* and the document it proposes.
OperationRows ==
    [base: DraftRows, state: {"pending"} \cup TerminalStates, proposal: Documents \cup {Unwritten}]

ASSUME AuthoringAssumption ==
    /\ MaxRevision \in Nat /\ MaxReopens \in Nat
    /\ Compiles \subseteq Documents
    /\ Unwritten \notin DraftRows \cup OperationRows \cup Documents

VARIABLES
    drafts,        \* studio_drafts: id -> record or Unwritten
    receipts,      \* studio_draft_mutations: key -> the record answered or Unwritten
    publications,  \* studio_publications: document -> [draft, revision] or Unwritten
    operations,    \* management_authoring_inference_operations: id -> row or Unwritten
    handler,       \* per author: where its request is
    contacts,      \* outside: id -> provider calls
    versions,      \* history: id -> every body the draft had
    acknowledged,  \* history: the saves answered without a conflict
    answered,      \* history: the outcomes of operations told to a client
    servedBase,    \* history: id -> the draft when the provider answered
    reopens

authoringVars ==
    <<drafts, receipts, publications, operations, handler, contacts, versions, acknowledged,
      answered, servedBase, reopens>>

NoRequest == [at |-> "free"]

AuthoringInit ==
    /\ drafts = [d \in Drafts |-> Unwritten]
    /\ receipts = [k \in MutationKeys |-> Unwritten]
    /\ publications = [x \in Documents |-> Unwritten]
    /\ operations = [k \in OperationIds |-> Unwritten]
    /\ handler = [a \in Authors |-> NoRequest]
    /\ contacts = [k \in OperationIds |-> 0]
    /\ versions = [d \in Drafts |-> <<>>]
    /\ acknowledged = {} /\ answered = {}
    /\ servedBase = [k \in OperationIds |-> Unwritten]
    /\ reopens = 0

----------------------------------------------------------------------------
(* Drafts.                                                                 *)

\* The row, its receipt and the answer of a request that changes the draft.
WriteDraft(k, row) ==
    /\ drafts' = [drafts EXCEPT ![k[1]] = row]
    /\ receipts' = [receipts EXCEPT ![k] = row]
    /\ versions' = [versions EXCEPT ![k[1]] = Append(@, row.body)]
    /\ acknowledged' = acknowledged \cup {<<k, row>>}

\* create_draft: a draft that exists is answered as it is, with a conflict unless
\* the receipt is of the same body; nothing changes.
CreateDraft(k, body) ==
    /\ drafts[k[1]] = Unwritten
    /\ WriteDraft(k, [revision |-> 0, body |-> body])
    /\ UNCHANGED <<publications, operations, handler, contacts, answered, servedBase, reopens>>

\* Fault: a save is applied whether or not its mutation was.
SaveAppliesAgain(k, expected) == drafts[k[1]] = expected

\* What a save is checked against, in this order: the receipt of its mutation, then
\* the revision and the etag the client names.
SaveReplays(k, body) == receipts[k] # Unwritten /\ receipts[k].body = body
SaveApplies(k, expected) == receipts[k] = Unwritten /\ drafts[k[1]] = expected

\* The records of the draft a client may have read.
RecordsSeen(d) == {[revision |-> i - 1, body |-> versions[d][i]] : i \in DOMAIN versions[d]}

\* save_draft: applied, answered again from the receipt, or a conflict (nothing
\* changes).
SaveDraft(k, body) ==
    /\ drafts[k[1]] # Unwritten
    /\ \/ /\ SaveReplays(k, body)
          /\ acknowledged' = acknowledged \cup {<<k, receipts[k]>>}
          /\ UNCHANGED <<drafts, receipts, versions>>
       \/ /\ \E expected \in RecordsSeen(k[1]) : SaveApplies(k, expected)
          /\ drafts[k[1]].revision < MaxRevision
          /\ WriteDraft(k, [revision |-> drafts[k[1]].revision + 1, body |-> body])
    /\ UNCHANGED <<publications, operations, handler, contacts, answered, servedBase, reopens>>

----------------------------------------------------------------------------
(* Publication.                                                            *)

\* studio_publish_draft up to the transaction: the draft is read, compared with the
\* revision, the etag and the digest the client names, and validated.
ReadForPublication(a, d) ==
    /\ handler[a] = NoRequest
    /\ drafts[d] # Unwritten
    /\ drafts[d].body.document \in Compiles
    /\ handler' = [handler EXCEPT ![a] = [at |-> "publishing", draft |-> d, expected |-> drafts[d]]]
    /\ UNCHANGED <<drafts, receipts, publications, operations, contacts, versions, acknowledged,
                   answered, servedBase, reopens>>

\* Fault: the transaction relies on the draft the handler read.
TrustsTheRead(d, expected) == TRUE

\* publish_draft compares again with the row of its transaction.
StillServed(d, expected) == drafts[d] = expected

\* publish_draft: a conflict, a definition already published, or a new row.
PublishDraft(a) ==
    LET d == handler[a].draft
        document == drafts[d].body.document
    IN  /\ handler[a].at = "publishing"
        /\ publications' =
              IF StillServed(d, handler[a].expected) /\ publications[document] = Unwritten
              THEN [publications EXCEPT ![document] =
                       [draft |-> d, revision |-> drafts[d].revision]]
              ELSE publications
        /\ handler' = [handler EXCEPT ![a] = NoRequest]
        /\ UNCHANGED <<drafts, receipts, operations, contacts, versions, acknowledged, answered,
                       servedBase, reopens>>

----------------------------------------------------------------------------
(* Proposals.                                                              *)

\* authoring_inference_proposal up to the reservation: the served catalogs and the
\* pinned profile are admitted, and the base the request names is the stored draft.
AdmitBase(a, k) ==
    /\ handler[a] = NoRequest
    /\ drafts[k[1]] # Unwritten
    /\ handler' = [handler EXCEPT ![a] = [at |-> "admitted", key |-> k, base |-> drafts[k[1]]]]
    /\ UNCHANGED <<drafts, receipts, publications, operations, contacts, versions, acknowledged,
                   answered, servedBase, reopens>>

OperationId(a) == handler[a].key
OperationRow(a) == operations[OperationId(a)]

\* Fault: a reservation without an outcome is taken up again.
PendingStarts(a) == IF OperationRow(a) = Unwritten THEN TRUE ELSE OperationRow(a).state = "pending"

\* begin: only a key without a row starts; the provider is contacted next.
OperationStarts(a) == OperationRow(a) = Unwritten

BeginOperation(a) ==
    /\ handler[a].at = "admitted"
    /\ OperationStarts(a)
    /\ operations' = [operations EXCEPT ![OperationId(a)] =
          [base |-> handler[a].base, state |-> "pending", proposal |-> Unwritten]]
    /\ contacts' = [contacts EXCEPT ![OperationId(a)] = @ + 1]
    /\ handler' = [handler EXCEPT ![a].at = "asking"]
    /\ UNCHANGED <<drafts, receipts, publications, versions, acknowledged, answered, servedBase,
                   reopens>>

\* What a client is told of an operation.
TellClient(k, state, proposal) ==
    answered' = answered \cup {[key |-> k, state |-> state, proposal |-> proposal]}

\* begin finds a row, or fails: a terminal row of the same request is replayed, one
\* still pending or of another request is an error.
ReplayOperation(a) ==
    /\ handler[a].at = "admitted"
    /\ IF /\ OperationRow(a) # Unwritten
          /\ OperationRow(a).base = handler[a].base
          /\ OperationRow(a).state \in TerminalStates
       THEN TellClient(OperationId(a), OperationRow(a).state, OperationRow(a).proposal)
       ELSE UNCHANGED answered
    /\ handler' = [handler EXCEPT ![a] = NoRequest]
    /\ UNCHANGED <<drafts, receipts, publications, operations, contacts, versions, acknowledged,
                   servedBase, reopens>>

\* complete: an outcome is written over a pending row only; another outcome than the
\* recorded one is an error.
MayRecord(row, state) == row.state \in {"pending", state}
OutcomeRow(row, state, proposal) ==
    IF row.state = "pending" THEN [row EXCEPT !.state = state, !.proposal = proposal] ELSE row

CompleteOperation(a, state, proposal) ==
    /\ MayRecord(OperationRow(a), state)
    /\ operations' = [operations EXCEPT ![OperationId(a)] = OutcomeRow(@, state, proposal)]

\* The outcome is recorded and the client told, or the database refuses it and the
\* client sees that failure.
EndOperation(a, state, proposal) ==
    /\ \/ CompleteOperation(a, state, proposal) /\ TellClient(OperationId(a), state, proposal)
       \/ UNCHANGED <<operations, answered>>
    /\ handler' = [handler EXCEPT ![a] = NoRequest]

\* The provider was cancelled, failed, or made a candidate over the budget.
ProviderEnds(a) ==
    /\ handler[a].at = "asking"
    /\ \E state \in {"cancelled", "unknown", "budget_exhausted"} : EndOperation(a, state, Unwritten)
    /\ UNCHANGED <<drafts, receipts, publications, contacts, versions, acknowledged, servedBase,
                   reopens>>

\* admit_candidate refuses the candidate: the client is told although the row may
\* not have been written.
RefuseCandidate(a) ==
    /\ handler[a].at = "asking"
    /\ Documents \ Compiles # {}
    /\ CompleteOperation(a, "refused", Unwritten) \/ UNCHANGED operations
    /\ TellClient(OperationId(a), "refused", Unwritten)
    /\ handler' = [handler EXCEPT ![a] = NoRequest]
    /\ UNCHANGED <<drafts, receipts, publications, contacts, versions, acknowledged, servedBase,
                   reopens>>

\* The candidate is admitted, within its budget.
AdmitCandidate(a, document) ==
    /\ handler[a].at = "asking"
    /\ document \in Compiles
    /\ servedBase' = [servedBase EXCEPT ![OperationId(a)] = drafts[OperationId(a)[1]]]
    /\ handler' = [handler EXCEPT ![a] =
          [at |-> "generated", key |-> @.key, base |-> @.base, proposal |-> document]]
    /\ UNCHANGED <<drafts, receipts, publications, operations, contacts, versions, acknowledged,
                   answered, reopens>>

\* Fault: the base admitted before the call is good enough.
AnyBaseServed(a) == TRUE

\* The draft is read again: one that changed refuses the proposal.  A read or an
\* encoding that fails leaves the row pending, as a refused write does.
BaseServed(a) == drafts[OperationId(a)[1]] = handler[a].base

ReadAgain(a) ==
    /\ handler[a].at = "generated"
    /\ IF BaseServed(a)
       THEN /\ handler' = [handler EXCEPT ![a].at = "sealed"]
            /\ UNCHANGED <<operations, answered>>
       ELSE EndOperation(a, "refused", Unwritten)
    /\ UNCHANGED <<drafts, receipts, publications, contacts, versions, acknowledged, servedBase,
                   reopens>>

\* seal_proposal and complete.
Propose(a) ==
    /\ handler[a].at = "sealed"
    /\ EndOperation(a, "proposed", handler[a].proposal)
    /\ UNCHANGED <<drafts, receipts, publications, contacts, versions, acknowledged, servedBase,
                   reopens>>

----------------------------------------------------------------------------
\* The process dies and starts again; nothing looks at the pending rows.
RestartService ==
    /\ reopens < MaxReopens
    /\ reopens' = reopens + 1
    /\ handler' = [a \in Authors |-> NoRequest]
    /\ UNCHANGED <<drafts, receipts, publications, operations, contacts, versions, acknowledged,
                   answered, servedBase>>

AuthoringNext ==
    \/ \E k \in MutationKeys, b \in Bodies :
          CreateDraft(k, b) \/ SaveDraft(k, b)
    \/ \E a \in Authors :
          \/ \E d \in Drafts : ReadForPublication(a, d)
          \/ \E k \in OperationIds : AdmitBase(a, k)
          \/ \E x \in Documents : AdmitCandidate(a, x)
          \/ PublishDraft(a) \/ BeginOperation(a) \/ ReplayOperation(a)
          \/ ProviderEnds(a) \/ RefuseCandidate(a) \/ ReadAgain(a) \/ Propose(a)
    \/ RestartService

AuthoringSpec == AuthoringInit /\ [][AuthoringNext]_authoringVars

----------------------------------------------------------------------------
(* Properties.                                                             *)

AuthoringTypeOK ==
    /\ drafts \in [Drafts -> DraftRows \cup {Unwritten}]
    /\ receipts \in [MutationKeys -> DraftRows \cup {Unwritten}]
    /\ operations \in [OperationIds -> OperationRows \cup {Unwritten}]
    /\ contacts \in [OperationIds -> Nat]

\* A mutation is applied once and kept: every save acknowledged, also again after a
\* lost answer, names the one revision that has its body, and no two mutations of a
\* draft were given the same revision.
AppliedOnce ==
    /\ \A k \in MutationKeys : receipts[k] # Unwritten =>
          versions[k[1]][receipts[k].revision + 1] = receipts[k].body
    /\ \A s, t \in acknowledged :
          /\ s[2].revision < Len(versions[s[1][1]])
          /\ s[1][1] = t[1][1] => (s[1] = t[1] <=> s[2].revision = t[2].revision)

\* A published definition passed validation and is the document the draft had at the
\* published revision, although drafts are saved between validation and publication.
PublishedWasValidated ==
    \A x \in Documents : publications[x] # Unwritten =>
        /\ x \in Compiles
        /\ versions[publications[x].draft][publications[x].revision + 1].document = x

\* One identity contacts the provider once, through lost answers, failed writes and
\* restarts.
ContactedOnce == \A k \in OperationIds : contacts[k] = (IF operations[k] = Unwritten THEN 0 ELSE 1)

\* A proposal is made for a draft that had not changed when its document was
\* generated, and for nothing the owner would not accept.
ProposalFresh ==
    \A k \in OperationIds : operations[k] # Unwritten /\ operations[k].state = "proposed" =>
        operations[k].base = servedBase[k] /\ operations[k].proposal \in Compiles

\* What a client was told of an operation stays what the journal says; a refusal may
\* have been told and not recorded, and the operation then stays pending.
ToldIsRecorded ==
    \A t \in answered :
        \/ operations[t.key].state = t.state /\ operations[t.key].proposal = t.proposal
        \/ operations[t.key].state = "pending" /\ t.state = "refused"

\* Drafts, publications and proposals stay sound while clients overtake one another,
\* writes fail and the service restarts.
AuthoringSound ==
    /\ AuthoringTypeOK
    /\ AppliedOnce
    /\ PublishedWasValidated
    /\ ContactedOnce
    /\ ProposalFresh
    /\ ToldIsRecorded
=============================================================================
