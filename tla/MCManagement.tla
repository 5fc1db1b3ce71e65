---------------------------- MODULE MCManagement ----------------------------
(***************************************************************************)
(* The parts of a management service for TLC: the submission of runs, the  *)
(* commands of one live run, the broker of the provider sessions, the      *)
(* managed decision of a served session, the prepared dispatch it releases *)
(* and Studio authoring.  They share no variable: one part moves and the   *)
(* others stay where they began.                                           *)
(***************************************************************************)
EXTENDS RunCommands, RunSubmission, SessionBroker, PreparedDispatch, ServedBoundary, StudioAuthoring, TLC

CONSTANTS s1, s2, s3, cancel1, pause1, resume1, i1, i2, i3, alice, bob
CONSTANTS th1, d1, ref1, ref2, src1, src2, g1, m1, m2, m3, x1, bad1

VARIABLE part   \* which of them moves

\* observe -> decide -> act -> observe; a refused action observes again.
Cycle == [e \in Nodes \X Outcomes |->
    CASE e = <<"observe", "Ok">> -> "decide"
      [] e = <<"decide", "Ok">> -> "act"
      [] e = <<"decide", "Unavailable">> -> "end"
      [] e[1] = "act" /\ e[2] \in {"Ok", "Error"} -> "observe"
      [] OTHER -> "none"]

\* The same, ending after one action, with no edge for a refused one.
Once == [Cycle EXCEPT ![<<"act", "Ok">>] = "end", ![<<"act", "Error">>] = "none"]

Steps == {s1, s2, s3}
TheKinds == [c \in Steps |-> "step"] @@ cancel1 :> "cancel" @@ pause1 :> "pause" @@ resume1 :> "resume"

Through == [commands |-> Steps \cup {cancel1, pause1, resume1}, route |-> Once, retry |-> FALSE,
            maxSteps |-> 3, maxCalls |-> 2]
\* Released commands are sent again: as far as an action, and against a cancellation.
ReSent == [Through EXCEPT !.commands = Steps, !.route = Cycle, !.retry = TRUE]
ReSentCancel == [ReSent EXCEPT !.commands = {s1, s2, cancel1}, !.maxSteps = 2]

\* Budgets that run out at the decision: of calls, and of steps.
NoCalls == [Through EXCEPT !.commands = Steps \cup {pause1}, !.maxCalls = 0]
OneStep == [NoCalls EXCEPT !.maxCalls = 2, !.maxSteps = 1]
SomeSetups == {Through, ReSent, ReSentCancel, NoCalls, OneStep}

\* Two ids, the first also under another payload and another actor.
SomeCalls == {[id |-> i1, actor |-> alice, payload |-> 1], [id |-> i1, actor |-> alice, payload |-> 2],
              [id |-> i1, actor |-> bob, payload |-> 1], [id |-> i2, actor |-> alice, payload |-> 1],
              [id |-> i3, actor |-> bob, payload |-> 1]}

\* Two bindings whose turns are interrupted and restored.
Turns ==
    [methods |-> {"thread/start", "turn/start", "turn/interrupt"},
     oneShot |-> FALSE, purposes |-> {"executable"}, sources |-> {}, threads |-> {th1}, digests |-> {d1}, refs |-> {ref1},
     bindings |-> 2, ops |-> 4, prepared |-> 1, jobs |-> 0, candidates |-> 2, items |-> 1,
     owner |-> 2, revocation |-> 0, session |-> 2, history |-> 0, restarts |-> 1,
     mayExpire |-> FALSE]

\* The same with reconnections: two bindings with fewer operations, then one.
Reconnects == [Turns EXCEPT !.methods = @ \cup {"thread/read"}, !.ops = 3]
ReconnectedTurns == [Reconnects EXCEPT !.bindings = 1, !.ops = 4]

\* Compactions and forks that finish late.
Maintenance == [Turns EXCEPT
    !.methods = {"thread/start", "turn/start", "thread/fork", "thread/compact/start"},
    !.ops = 2, !.prepared = 0, !.jobs = 2, !.revocation = 1,
    !.session = 1, !.history = 2, !.restarts = 0]

\* The same with refreshed histories, and one job.
Refreshed == [Maintenance EXCEPT !.methods = @ \cup {"thread/read"}, !.jobs = 1]

\* Revoked sources against prepared turns and forks.
Revocation == [Turns EXCEPT
    !.methods = {"thread/start", "turn/start", "thread/fork"},
    !.sources = {src1, src2}, !.ops = 2, !.jobs = 1, !.owner = 1,
    !.revocation = 2, !.restarts = 0]

\* The one-shot profile, with expiry and a restart.
OneShots == [Turns EXCEPT
    !.methods = {"turn/start"}, !.oneShot = TRUE, !.refs = {ref1, ref2}, !.ops = 2,
    !.prepared = 2, !.revocation = 1, !.session = 1, !.history = 1,
    !.mayExpire = TRUE]

AllProfiles == {Turns, Reconnects, ReconnectedTurns, Maintenance, Refreshed, Revocation, OneShots}

\* Steps are only compared with one another, so they may be named in the order in which
\* they are accepted; so may the mutations of a draft.
NamedInOrder ==
    /\ row[s2] # "absent" => row[s1] # "absent"
    /\ row[s3] # "absent" => row[s2] # "absent"
    /\ receipts[<<g1, m2>>] # Unwritten => receipts[<<g1, m1>>] # Unwritten
    /\ receipts[<<g1, m3>>] # Unwritten => receipts[<<g1, m2>>] # Unwritten

\* Two layouts of a document that compiles, and one that does not.
SomeBodies == {[document |-> x1, layout |-> 1], [document |-> x1, layout |-> 2], [document |-> bad1, layout |-> 1]}

\* The threads are only compared with one another.
Symmetry == Permutations(Callers)

\* Where commands are sent again the process does not end: nothing is applied after that.
KeptWhileReSent == setup.retry => registered

\* A part that stays has one initial state.
Stays(p, P) == part = p \/ P

ManagementInit ==
    /\ CommandsInit /\ SubmissionInit /\ BrokerInit /\ PreparedInit /\ BoundaryInit
    /\ AuthoringInit
    /\ part \in {"commands", "submission", "broker", "prepared", "boundary", "authoring"}
    /\ Stays("commands", setup = Through)
    /\ Stays("broker", profile = Turns)
    /\ Stays("prepared", fences = CHOOSE f \in FenceValues : TRUE)
    /\ Stays("boundary", ~attached)

ManagementNext ==
    \/ /\ part = "commands" /\ CommandsNext /\ KeptWhileReSent'
       /\ UNCHANGED <<part, submissionVars, brokerVars, preparedVars, boundaryVars, authoringVars>>
    \/ /\ part = "submission" /\ SubmissionNext
       /\ UNCHANGED <<part, commandsVars, brokerVars, preparedVars, boundaryVars, authoringVars>>
    \/ /\ part = "broker" /\ BrokerNext
       /\ UNCHANGED <<part, commandsVars, submissionVars, preparedVars, boundaryVars, authoringVars>>
    \/ /\ part = "prepared" /\ PreparedNext
       /\ UNCHANGED <<part, commandsVars, submissionVars, brokerVars, boundaryVars, authoringVars>>
    \/ /\ part = "boundary" /\ BoundaryNext
       /\ UNCHANGED <<part, commandsVars, submissionVars, brokerVars, preparedVars, authoringVars>>
    \/ /\ part = "authoring" /\ AuthoringNext
       /\ UNCHANGED <<part, commandsVars, submissionVars, brokerVars, preparedVars, boundaryVars>>

managementVars ==
    <<part, commandsVars, submissionVars, brokerVars, preparedVars, boundaryVars, authoringVars>>

ManagementSpec == ManagementInit /\ [][ManagementNext]_managementVars
=============================================================================
