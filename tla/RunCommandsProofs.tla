------------------------- MODULE RunCommandsProofs -------------------------
(***************************************************************************)
(* The commands of a live run are sound however many threads serve them,   *)
(* whatever the limits and the graph of the definition are and wherever    *)
(* the service dies.                                                       *)
(*                                                                         *)
(* CommandsInv is the inductive invariant.  What the lock covers (Locked), *)
(* what the live run holds on to (Custody) and when the lease is gone      *)
(* (CleanedUp, LeaseKept) hold whatever clients send.  Where no released   *)
(* command is sent again, one command at a time is at work (Solo), and the *)
(* durable run is level with the live one until the record of a command    *)
(* fails: that command stays in flight, and no other is accepted (Level).  *)
(***************************************************************************)
EXTENDS RunCommands, FiniteSetTheorems, WellFoundedInduction, TLAPS

\* Thread t holds the run's lock.
Held(t) == caller[t].at \in {"node", "exchange", "dispatch"}

\* The types of what is durable, of what a thread remembers and of the live run.
AtWork == {"accepted", "found", "node", "exchange", "dispatch"}
Statuses ==
    {"Created", "Running", "Paused", "Completed", "Failed", "Cancelled", "NeedsOperator"}
Cleanups == {"NotStarted", "Complete", "NeedsOperator"}
Snapshots == [revision: Nat, status: Statuses, pending: Ids \cup {NoId}, cleanup: Cleanups]
Working == [at: AtWork, command: Commands]
Recording == [at: {"record"}, command: Commands, application: Snapshots]
LiveRuns ==
    [rt: {"Running", "Paused", "Completed", "Failed", "NeedsOperator"}, cancelled: BOOLEAN,
     pending: Ids \cup {NoId}, resolved: {"no", "settled", "refused"}, held: Ids \cup {NoId},
     answered: BOOLEAN, cleanup: Cleanups, node: Nodes, steps: Nat, calls: Nat, fresh: BOOLEAN]

Effects == [Ids -> {"unused", "intent", "open", "settled", "refused"}]

\* Every variable has its type.
CommandsTypes ==
    /\ setup \in Setups
    /\ snapshot \in Snapshots
    /\ row \in [Commands -> {"absent", "inflight", "released", "done"}]
    /\ expected \in [Commands -> Nat]
    /\ run \in LiveRuns
    /\ registered \in BOOLEAN
    /\ lock \in Callers \cup {NoCaller}
    /\ caller \in [Callers -> {Idle} \cup Working \cup Recording]
    /\ submission \in {"registered", "aborting", "done"}
    /\ effect \in Effects
    /\ exchanges \subseteq Ids
    /\ lease \in {"held", "released"}

\* The lock covers a step from its head to its end, and no step goes on in a run that was
\* cancelled.  What is about to be sent has its intent.
Locked ==
    \A t \in Callers :
        /\ lock = t <=> Held(t)
        /\ Held(t) => ~run.cancelled
        /\ caller[t].at \in {"exchange", "dispatch"} => run.rt = "Running"
        /\ caller[t].at = "exchange" => run.node = "decide" /\ run.held # NoId /\ ~run.answered
        /\ caller[t].at = "dispatch" => run.node = "act" /\ run.pending # NoId /\ run.resolved = "no"

\* The run holds on to what may stand outside: an exchange while it decides, an action
\* while it acts, and it lets go of neither before its outcome is known.
Keeps(r, e) ==
    /\ r.held # NoId => r.node = "decide" /\ e[r.held] # "unused"
    /\ r.pending # NoId => r.node = "act" /\ e[r.pending] # "unused"
    /\ r.held # NoId /\ r.answered => e[r.held] = "settled"
    /\ r.resolved # "no" => r.pending # NoId /\ e[r.pending] = r.resolved
    /\ \A i \in Ids : e[i] \in {"intent", "open"} => i \in {r.held, r.pending}
Custody == Keeps(run, effect)

\* A cleanup that is reported complete gave the lease back.
CleanedUp ==
    /\ run.cleanup = "Complete" => lease = "released"
    /\ snapshot.cleanup = "Complete" => lease = "released"
    /\ \A t \in Callers :
         caller[t].at = "record" /\ caller[t].application.cleanup = "Complete" => lease = "released"

\* The session was given up with the run: it was cancelled, ended or failed, or its budget
\* is spent.
GivenUp ==
    \/ run.cancelled \/ run.rt \in {"Completed", "Failed"} \/ BudgetSpent
    \/ /\ run.node = "end" /\ run.rt # "Paused"
       /\ run.rt = "Running" => \E t \in Callers : caller[t].at = "node"
LeaseKept == registered /\ lease = "released" => GivenUp

\* The durable run is level with the live one: no command is in flight, or the one in flight
\* is still at work.  It is not while an application waits to be recorded, and never again
\* when that failed or the thread is gone.
Level ==
    \/ \A c \in Commands : row[c] # "inflight"
    \/ \E t \in Callers : caller[t].at \in AtWork
\* The statuses a run goes on from.
Live == {"Created", "Running", "Paused"}
\* A run that can go on has its lease, unless its budget is spent.
StillHeld == ~registered \/ lease = "held" \/ BudgetSpent

\* Where no command is sent again, one command at a time is at work.  The durable run
\* publishes what the live one holds, and no lease is lost behind a run that is called live.
Solo ==
    /\ \A t, u \in Callers : caller[t] # Idle /\ caller[u] # Idle => t = u
    /\ \A c, d \in Commands : row[c] = "inflight" /\ row[d] = "inflight" => c = d
    /\ \A t \in Callers : caller[t] # Idle =>
         row[caller[t].command] = "inflight" /\ expected[caller[t].command] = snapshot.revision
    /\ Published(run) # NoId => snapshot.pending = Published(run)
    /\ \A t \in Callers : caller[t].at = "record" =>
         /\ caller[t].application.revision = snapshot.revision + 1
         /\ caller[t].application.pending = Published(run)
         /\ caller[t].application.status \in Live => StillHeld
    /\ Level /\ snapshot.status \in Live /\ snapshot.pending = NoId => StillHeld
    /\ snapshot.revision = 1 =>
         /\ run.held = NoId /\ run.pending = NoId /\ snapshot.pending = NoId
         /\ snapshot.status \in Live
         /\ Level => run.node = "observe" \/ ~registered
         /\ ~registered => \A t \in Callers : caller[t].at \in {"idle", "accepted"}

\* The inductive invariant.
CommandsInv ==
    /\ CommandsTypes /\ RevisionsCountCommands /\ Locked /\ Custody /\ CleanedUp /\ LeaseKept
    /\ submission = "aborting" => ~registered /\ snapshot.revision # 1
    /\ ~setup.retry => Solo

\* While some identity is unused the first such one is well defined.
LEMMA FirstUnusedIsUnused ==
    ASSUME Mintable
    PROVE  FirstUnused \in Ids /\ effect[FirstUnused] = "unused"
<1> DEFINE unused == {i \in Ids : effect[i] = "unused"}
           less == OpToRel(<, Nat)
<1>1. unused \subseteq Nat /\ unused # {}
  BY CommandAssumption DEF Mintable, Ids
<1>2. IsWellFoundedOn(less, Nat)
  BY NatLessThanWellFounded
<1>3. \A j, k \in Nat : j < k => <<j, k>> \in less
  BY DEF OpToRel
<1> HIDE DEF less
<1>4. PICK i \in unused : \A j \in unused : ~(<<j, i>> \in less)
  BY <1>1, <1>2, WFMin
<1>5. \A j \in unused : ~(j < i)
  BY <1>1, <1>3, <1>4
<1>6. \A j \in unused : i <= j
  <2> SUFFICES ASSUME NEW j \in unused PROVE i <= j
    OBVIOUS
  <2>1. i \in Nat /\ j \in Nat
    BY <1>1
  <2> HIDE DEF unused
  <2>2. QED
    BY <1>5, <2>1
<1>7. QED
  BY <1>6 DEF FirstUnused

\* The identity that is published is the one of the two that is there.
LEMMA PublishedIs ==
    ASSUME Custody
    PROVE  \/ run.pending = NoId /\ Published(run) = run.held
           \/ run.held = NoId /\ Published(run) = run.pending
BY DEF Custody, Keeps, Published

\* A thread that holds the lock or takes it is the only one at a step.
LEMMA AloneAtStep ==
    ASSUME CommandsInv, NEW t \in Callers, lock \in {NoCaller, t}
    PROVE  \A u \in Callers : u # t => ~Held(u)
BY CommandAssumption DEF CommandsInv, Locked

\* The typing of the applications.
LEMMA ApplicationTyped ==
    ASSUME CommandsInv, NEW t \in Callers, caller[t] \in Working,
           NEW r \in LiveRuns, NEW status \in Statuses
    PROVE  /\ Application(t, r, status) \in Recording
           /\ Application(t, r, status).at = "record"
           /\ Application(t, r, status).command = caller[t].command
           /\ Application(t, r, status).application.revision = expected[caller[t].command] + 1
           /\ Application(t, r, status).application.status = status
           /\ Application(t, r, status).application.pending = Published(r)
           /\ Application(t, r, status).application.cleanup = r.cleanup
<1>1. expected[caller[t].command] + 1 \in Nat /\ caller[t].command \in Commands
  BY DEF CommandsInv, CommandsTypes, Working
<1>2. Published(r) \in Ids \cup {NoId} /\ r.cleanup \in Cleanups
  BY DEF LiveRuns, Published
<1>3. QED
  BY <1>1, <1>2 DEF Application, Recording, Snapshots

\* A command is applied: the run is let go of, and its application is to be recorded.
LEMMA AppliesKeeps ==
    ASSUME CommandsInv, UNCHANGED setup, NEW t \in Callers, caller[t] \in Working,
           lock \in {NoCaller, t}, NEW r \in LiveRuns, NEW status \in Statuses,
           Applies(t, r, status),
           effect' \in Effects,
           exchanges' \subseteq Ids, Custody', lease' \in {lease, "released"},
           r.cleanup = "Complete" => lease' = "released",
           LeaseKept', status \in Live => StillHeld',
           Published(r) \in {NoId, Published(run)},
           ~setup.retry /\ snapshot.revision = 1 =>
             r.held = NoId /\ r.pending = NoId /\ caller[t].at # "accepted"
    PROVE  CommandsInv'
<1> DEFINE a == Application(t, r, status)
<1>1. /\ run' = r /\ lock' = NoCaller /\ caller' = [caller EXCEPT ![t] = a]
      /\ UNCHANGED <<snapshot, row, expected, registered, submission>>
  BY DEF Applies, durable
<1>2. /\ a \in Recording /\ a.at = "record" /\ a.command = caller[t].command
      /\ a.application.revision = expected[caller[t].command] + 1
      /\ a.application.status = status
      /\ a.application.pending = Published(r) /\ a.application.cleanup = r.cleanup
  BY ApplicationTyped
<1> HIDE DEF a
<1>3. CommandsTypes
  BY DEF CommandsInv
<1>4. /\ caller'[t] = a /\ \A u \in Callers : u # t => caller'[u] = caller[u]
      /\ caller[t].at # "record" /\ caller[t] # Idle
  BY <1>1, <1>3 DEF CommandsTypes, Working, AtWork, Idle
<1>5. CommandsTypes'
  BY <1>1, <1>2, <1>3 DEF CommandsTypes
<1>6. RevisionsCountCommands'
  BY <1>1 DEF CommandsInv, RevisionsCountCommands
<1>7. Locked'
  BY <1>1, <1>2, <1>4, AloneAtStep, CommandAssumption DEF Locked, Held
<1>8. CleanedUp'
  BY <1>1, <1>2, <1>3, <1>4 DEF CommandsInv, CleanedUp, CommandsTypes
<1>9. ASSUME ~setup.retry PROVE Solo'
  <2>1. Solo /\ \A u \in Callers : u # t => caller'[u] = Idle
    BY <1>4, <1>9 DEF CommandsInv, Solo
  <2>2. /\ row[caller[t].command] = "inflight"
        /\ expected[caller[t].command] = snapshot.revision
    BY <1>4, <2>1 DEF Solo
  <2>3. a # Idle /\ ~Level'
    BY <1>1, <1>2, <1>4, <2>1, <2>2 DEF Idle, Level, AtWork, Working
  <2>4. \A u, v \in Callers : caller'[u] # Idle /\ caller'[v] # Idle => u = v
    BY <2>1
  <2>5. \A u \in Callers : caller'[u] # Idle =>
          row'[caller'[u].command] = "inflight" /\ expected'[caller'[u].command] = snapshot'.revision
    BY <1>1, <1>2, <1>4, <2>1, <2>2
  <2>6. Published(run)' # NoId => snapshot'.pending = Published(run)'
    BY <1>1, <2>1 DEF Solo, Published
  <2>7. ASSUME NEW u \in Callers, caller'[u].at = "record"
        PROVE  /\ caller'[u].application.revision = snapshot'.revision + 1
               /\ caller'[u].application.pending = Published(run)'
               /\ caller'[u].application.status \in Live => StillHeld'
    <3>1. u = t
      BY <2>1, <2>7 DEF Idle
    <3>2. QED
      BY <1>1, <1>2, <1>4, <2>2, <3>1 DEF Published
  <2>8. ASSUME snapshot'.revision = 1
        PROVE  /\ run'.held = NoId /\ run'.pending = NoId /\ snapshot'.pending = NoId
               /\ snapshot'.status \in Live
               /\ registered'
    <3>1. registered
      BY <1>1, <1>3, <1>4, <1>9, <2>1, <2>8 DEF Solo, Working, AtWork
    <3>2. QED
      BY <1>1, <1>9, <2>1, <2>8, <3>1 DEF Solo
  <2>9. \A c, d \in Commands : row'[c] = "inflight" /\ row'[d] = "inflight" => c = d
    BY <1>1, <2>1 DEF Solo
  <2>10. QED
    BY <2>3, <2>4, <2>5, <2>6, <2>7, <2>8, <2>9 DEF Solo
<1>10. submission' = "aborting" => ~registered' /\ snapshot'.revision # 1
  BY <1>1 DEF CommandsInv
<1>11. QED
  BY <1>5, <1>6, <1>7, <1>8, <1>9, <1>10 DEF CommandsInv

\* A command is refused: the run is let go of, and nothing is recorded.
LEMMA RefusesKeeps ==
    ASSUME CommandsInv, UNCHANGED <<setup, effect, exchanges>>, NEW t \in Callers,
           caller[t] \in Working, lock \in {NoCaller, t}, NEW r \in LiveRuns, NEW class,
           Refuses(t, r, class), Custody', lease' \in {lease, "released"},
           r.cleanup = "Complete" => lease' = "released", LeaseKept',
           lease' = lease \/ run.pending # NoId,
           r.steps = run.steps, r.calls = run.calls, r.node = run.node,
           r.held = run.held, r.pending = run.pending
    PROVE  CommandsInv'
<1>1. /\ run' = r /\ lock' = NoCaller /\ caller' = [caller EXCEPT ![t] = Idle]
      /\ row' \in {row, Released(caller[t].command)}
      /\ UNCHANGED <<snapshot, expected, registered, submission>>
  BY DEF Refuses
<1>2. CommandsTypes
  BY DEF CommandsInv
<1>3. /\ caller'[t] = Idle /\ \A u \in Callers : u # t => caller'[u] = caller[u]
      /\ caller[t].at # "record" /\ caller[t] # Idle /\ Idle.at = "idle"
      /\ caller[t].command \in Commands
  BY <1>1, <1>2 DEF CommandsTypes, Working, AtWork, Idle
<1>4. /\ row' \in [Commands -> {"absent", "inflight", "released", "done"}]
      /\ \A c \in Commands : /\ row'[c] = "done" <=> row[c] = "done"
                             /\ row'[c] = "inflight" => row[c] = "inflight"
  BY <1>1, <1>2, <1>3 DEF CommandsTypes, Released
<1>5. CommandsTypes'
  BY <1>1, <1>2, <1>4 DEF CommandsTypes
<1>6. RevisionsCountCommands'
  <2>1. {c \in Commands : row'[c] = "done"} = {c \in Commands : row[c] = "done"}
    BY <1>4
  <2>2. QED
    BY <1>1, <2>1 DEF CommandsInv, RevisionsCountCommands
<1>7. Locked'
  BY <1>1, <1>3, AloneAtStep, CommandAssumption DEF Locked, Held
<1>8. CleanedUp'
  BY <1>1, <1>2, <1>3 DEF CommandsInv, CleanedUp, CommandsTypes
<1>9. ASSUME ~setup.retry PROVE Solo'
  <2>1. Solo /\ \A u \in Callers : caller'[u] = Idle
    BY <1>3, <1>9 DEF CommandsInv, Solo
  <2>2. Level
    BY DEF Level, Working
  <2>3. Published(run)' = Published(run) /\ BudgetSpent' = BudgetSpent
    BY <1>1 DEF Published, BudgetSpent
  <2>4. snapshot'.status \in Live /\ snapshot'.pending = NoId => StillHeld'
    <3>1. run.pending # NoId => snapshot.pending # NoId
      BY <2>1 DEF Solo, Published
    <3>2. QED
      BY <1>1, <2>1, <2>2, <2>3, <3>1 DEF Solo, StillHeld
  <2>5. \A c, d \in Commands : row'[c] = "inflight" /\ row'[d] = "inflight" => c = d
    BY <1>4, <2>1 DEF Solo
  <2>6. snapshot'.revision = 1 =>
         /\ run'.held = NoId /\ run'.pending = NoId /\ snapshot'.pending = NoId
         /\ snapshot'.status \in Live
         /\ run'.node = "observe" \/ ~registered'
    BY <1>1, <2>1, <2>2 DEF Solo
  <2>7. QED
    BY <1>1, <1>3, <2>1, <2>3, <2>4, <2>5, <2>6 DEF Solo
<1>10. submission' = "aborting" => ~registered' /\ snapshot'.revision # 1
  BY <1>1 DEF CommandsInv
<1>11. QED
  BY <1>5, <1>6, <1>7, <1>8, <1>9, <1>10 DEF CommandsInv

\* A thread at a step: it has the lock, and the session unless the run was given up.
LEMMA AtStep ==
    ASSUME CommandsInv, NEW t \in Callers, Held(t)
    PROVE  /\ caller[t] \in Working /\ lock = t /\ ~run.cancelled
           /\ caller[t].at \notin {"accepted", "record"}
           /\ caller[t].at \in {"exchange", "dispatch"} => run.rt = "Running"
           /\ run.rt = "Running" /\ run.node # "end" => StillHeld
           /\ ~setup.retry /\ snapshot.revision = 1 =>
                run.held = NoId /\ run.pending = NoId /\ run.node = "observe"
<1>1. caller[t] \in Working /\ caller[t].at \notin {"accepted", "record"} /\ caller[t] # Idle
  BY DEF CommandsInv, CommandsTypes, Held, Working, Recording, AtWork, Idle
<1>2. lock = t /\ ~run.cancelled /\ (caller[t].at \in {"exchange", "dispatch"} => run.rt = "Running")
  BY DEF CommandsInv, Locked
<1>3. run.rt = "Running" /\ run.node # "end" => StillHeld
  BY <1>2 DEF CommandsInv, CommandsTypes, LeaseKept, GivenUp, StillHeld
<1>4. ASSUME ~setup.retry, snapshot.revision = 1
      PROVE  run.held = NoId /\ run.pending = NoId /\ run.node = "observe"
  <2>1. Solo
    BY <1>4 DEF CommandsInv
  <2>2. Level
    BY <1>1 DEF Level, Working
  <2>3. registered
    BY <1>1, <1>4, <2>1 DEF Solo, Held, CommandsInv, CommandsTypes
  <2>4. QED
    BY <1>4, <2>1, <2>2, <2>3 DEF Solo
<1>5. QED
  BY <1>1, <1>2, <1>3, <1>4

\* A thread that enters the run: nobody is at a step.
LEMMA AtEntry ==
    ASSUME CommandsInv, NEW t \in Callers, NEW kind, Enters(t, kind)
    PROVE  /\ caller[t] \in Working /\ lock = NoCaller /\ caller[t].at = "found"
           /\ \A u \in Callers : ~Held(u)
           /\ ~run.cancelled /\ run.rt \in {"Running", "Paused"} => StillHeld
           /\ ~setup.retry /\ snapshot.revision = 1 => run.held = NoId /\ run.pending = NoId
<1>1. caller[t] \in Working /\ caller[t].at = "found" /\ lock = NoCaller
  BY DEF CommandsInv, CommandsTypes, Enters, Working, Recording, AtWork, Idle
<1>2. \A u \in Callers : ~Held(u)
  BY <1>1, CommandAssumption DEF CommandsInv, Locked
<1>3. ~run.cancelled /\ run.rt \in {"Running", "Paused"} => StillHeld
  BY <1>2 DEF CommandsInv, CommandsTypes, LeaseKept, GivenUp, StillHeld, Held
<1>4. ~setup.retry /\ snapshot.revision = 1 => run.held = NoId /\ run.pending = NoId
  BY DEF CommandsInv, Solo
<1>5. QED
  BY <1>1, <1>2, <1>3, <1>4

\* What a step that ends may leave of the run at the node: what it holds on to, and counters
\* that have not gone back.
Leaves(r) ==
    /\ r \in LiveRuns /\ Keeps(r, effect') /\ effect' \in Effects /\ exchanges' \subseteq Ids
    /\ Published(r) \in {NoId, Published(run)}
    /\ r.cancelled = run.cancelled /\ r.cleanup = run.cleanup
    /\ r.steps >= run.steps /\ r.calls >= run.calls
    /\ ~setup.retry /\ snapshot.revision = 1 => r.held = NoId /\ r.pending = NoId

\* The cleanup of a run that is given up.
LEMMA CleanedKeeps ==
    ASSUME CommandsInv, UNCHANGED setup, NEW t \in Callers, Held(t), NEW r, Leaves(r),
           NEW ok \in BOOLEAN, NEW rt \in {"Running", "Completed", "Failed", "NeedsOperator"},
           NEW status \in Statuses \ Live,
           Applies(t, Cleaned([r EXCEPT !.rt = rt], ok), status), lease' \in LeasesAfter(ok),
           registered => GivenUp'
    PROVE  CommandsInv'
<1> DEFINE s == Cleaned([r EXCEPT !.rt = rt], ok)
<1>1. /\ s \in LiveRuns /\ s.held = r.held /\ s.pending = r.pending /\ s.node = r.node
      /\ s.answered = r.answered /\ s.resolved = r.resolved
      /\ s.cleanup = IF ok THEN "Complete" ELSE "NeedsOperator"
  BY DEF Cleaned, Leaves, LiveRuns, Cleanups
<1>2. run' = s /\ registered' = registered
  BY DEF Applies
<1> HIDE DEF s
<1>3. Keeps(s, effect') /\ Custody' /\ Published(s) = Published(r)
  BY <1>1, <1>2 DEF Leaves, Keeps, Custody, Published
<1>4. lease' \in {lease, "released"} /\ (s.cleanup = "Complete" => lease' = "released")
  BY <1>1 DEF LeasesAfter
<1>5. LeaseKept'
  BY <1>2 DEF LeaseKept
<1>6. Applies(t, s, status)
  BY DEF s
<1>7. QED
  BY <1>1, <1>3, <1>4, <1>5, <1>6, AtStep, AppliesKeeps DEF Leaves

\* A run that fails is given up.
LEMMA FailsKeeps ==
    ASSUME CommandsInv, UNCHANGED setup, NEW t \in Callers, Held(t), NEW r, Leaves(r),
           NEW ok \in BOOLEAN, Fails(t, r, ok)
    PROVE  CommandsInv'
<1>1. /\ Applies(t, Cleaned([r EXCEPT !.rt = "Failed"], ok), IF ok THEN "Failed" ELSE "NeedsOperator")
      /\ lease' \in LeasesAfter(ok)
  BY DEF Fails
<1>2. run'.rt = "Failed"
  BY <1>1 DEF Applies, Cleaned, Leaves, LiveRuns
<1>3. GivenUp'
  BY <1>2 DEF GivenUp
<1>4. (IF ok THEN "Failed" ELSE "NeedsOperator") \in Statuses \ Live
  BY DEF Statuses, Live
<1>5. QED
  BY <1>1, <1>3, <1>4, CleanedKeeps

\* A run whose budget is spent is given up.
LEMMA ExhaustsKeeps ==
    ASSUME CommandsInv, UNCHANGED setup, NEW t \in Callers, Held(t), BudgetSpent,
           NEW rt \in {"Running", "NeedsOperator"},
           NEW ok \in BOOLEAN, Exhausts(t, [run EXCEPT !.rt = rt], ok), UNCHANGED <<effect, exchanges>>
    PROVE  CommandsInv'
<1>1. /\ Applies(t, Cleaned([run EXCEPT !.rt = rt], ok), "NeedsOperator")
      /\ lease' \in LeasesAfter(ok)
  BY DEF Exhausts
<1>2. run \in LiveRuns
  BY DEF CommandsInv, CommandsTypes
<1>3. run'.steps = run.steps /\ run'.calls = run.calls
  BY <1>1, <1>2 DEF Applies, Cleaned, LiveRuns
<1>4. GivenUp'
  BY <1>3 DEF GivenUp, BudgetSpent
<1>5. Leaves(run)
  BY <1>2, AtStep DEF Leaves, CommandsInv, CommandsTypes, Custody, LiveRuns
<1>6. "NeedsOperator" \in Statuses \ Live
  BY DEF Statuses, Live
<1>7. QED
  BY <1>1, <1>4, <1>5, <1>6, CleanedKeeps

\* An unknown effect leaves the session alone.
LEMMA UnknownKeeps ==
    ASSUME CommandsInv, UNCHANGED setup, NEW t \in Callers, Held(t), run.rt = "Running",
           run.node # "end", NEW r, Leaves(r), Unknown(t, r)
    PROVE  CommandsInv'
<1> DEFINE s == [r EXCEPT !.rt = "NeedsOperator"]
<1>1. /\ s \in LiveRuns /\ s.held = r.held /\ s.pending = r.pending /\ s.node = r.node
      /\ s.answered = r.answered /\ s.resolved = r.resolved /\ s.cleanup = run.cleanup
      /\ s.steps >= run.steps /\ s.calls >= run.calls /\ s.steps \in Nat /\ s.calls \in Nat
  BY DEF Leaves, LiveRuns
<1>2. Applies(t, s, "NeedsOperator") /\ lease' = lease
  BY DEF Unknown
<1>3. run' = s /\ registered' = registered
  BY <1>2 DEF Applies
<1> HIDE DEF s
<1>4. Keeps(s, effect') /\ Custody' /\ Published(s) = Published(r)
  BY <1>1, <1>3 DEF Leaves, Keeps, Custody, Published
<1>5. LeaseKept'
  <2>1. StillHeld
    BY AtStep
  <2>2. BudgetSpent => BudgetSpent'
    BY <1>1, <1>3, CommandAssumption DEF BudgetSpent, CommandsInv, CommandsTypes, LiveRuns
  <2>3. QED
    BY <1>2, <1>3, <2>1, <2>2 DEF StillHeld, LeaseKept, GivenUp
<1>6. s.cleanup = "Complete" => lease' = "released"
  BY <1>1, <1>2 DEF CommandsInv, CleanedUp
<1>7. "NeedsOperator" \in Statuses \ Live
  BY DEF Statuses, Live
<1>8. QED
  BY <1>1, <1>2, <1>4, <1>5, <1>6, <1>7, AtStep, AppliesKeeps DEF Leaves

\* A step after which the run goes on: it stays running in its session.
LEMMA RunsOn ==
    ASSUME CommandsInv, UNCHANGED setup, NEW t \in Callers, Held(t), run.rt = "Running",
           run.node # "end", NEW r, Leaves(r), r.rt = "Running",
           Applies(t, r, "Running"), UNCHANGED lease
    PROVE  CommandsInv'
<1>1. run' = r /\ registered' = registered
  BY DEF Applies
<1>2. BudgetSpent => BudgetSpent'
  BY <1>1, CommandAssumption DEF BudgetSpent, CommandsInv, CommandsTypes, LiveRuns, Leaves
<1>3. StillHeld'
  BY <1>1, <1>2, AtStep DEF StillHeld
<1>4. LeaseKept' /\ Custody'
  BY <1>1, <1>3 DEF StillHeld, LeaseKept, GivenUp, Leaves, Custody, CommandsInv, CommandsTypes
<1>5. r.cleanup = "Complete" => lease' = "released"
  BY <1>1 DEF CommandsInv, CleanedUp, Leaves
<1>6. QED
  BY <1>3, <1>4, <1>5, AtStep, AppliesKeeps DEF Leaves, Statuses

\* The node is done, with nothing held on to: the edge decides, or the run fails.
LEMMA AdvancesKeeps ==
    ASSUME CommandsInv, UNCHANGED setup, NEW t \in Callers, Held(t), run.rt = "Running",
           run.node # "end", NEW r, Leaves(r), r.rt = "Running",
           r.held = NoId, r.pending = NoId, NEW outcome \in Outcomes, NEW ok \in BOOLEAN,
           Advances(t, r, outcome, ok)
    PROVE  CommandsInv'
<1> DEFINE next == Edge(r, outcome)
           s == [r EXCEPT !.steps = @ + 1, !.node = IF next = "none" THEN @ ELSE next]
<1>1. next \in Nodes \cup {"none"}
  BY CommandAssumption DEF Edge, CommandsInv, CommandsTypes, Leaves, LiveRuns
<1>2. IF next = "none" THEN Fails(t, s, ok) ELSE Applies(t, s, "Running") /\ UNCHANGED lease
  BY DEF Advances
<1> HIDE DEF next
<1>3. /\ s \in LiveRuns /\ s.held = NoId /\ s.pending = NoId /\ s.rt = "Running"
      /\ s.resolved = r.resolved /\ s.answered = r.answered /\ s.cancelled = r.cancelled
      /\ s.cleanup = r.cleanup /\ s.steps = r.steps + 1 /\ s.calls = r.calls
      /\ r.steps \in Nat /\ run.steps \in Nat
  <2>1. r \in LiveRuns /\ run \in LiveRuns
    BY DEF Leaves, CommandsInv, CommandsTypes
  <2>2. (IF next = "none" THEN r.node ELSE next) \in Nodes /\ r.steps + 1 \in Nat
    BY <1>1, <2>1 DEF LiveRuns
  <2>3. QED
    BY <2>1, <2>2 DEF LiveRuns
<1> HIDE DEF s
<1>4. Published(s) = NoId /\ Keeps(s, effect')
  BY <1>3 DEF Published, Keeps, Leaves
<1>5. Leaves(s)
  BY <1>3, <1>4 DEF Leaves
<1>6. QED
  BY <1>2, <1>3, <1>5, FailsKeeps, RunsOn

\* At a node.
LEMMA AtNodeIs ==
    ASSUME CommandsInv, NEW t \in Callers, NEW node, AtNode(t, node)
    PROVE  Held(t) /\ run.rt = "Running" /\ run.node = node /\ run \in LiveRuns
BY DEF AtNode, Held, CommandsInv, CommandsTypes

\* The run as it is may be left.
LEMMA LeavesAsIs ==
    ASSUME CommandsInv, NEW t \in Callers, Held(t), UNCHANGED <<effect, exchanges>>
    PROVE  Leaves(run) /\ run \in LiveRuns
BY AtStep DEF Leaves, CommandsInv, CommandsTypes, Custody, LiveRuns

\* A step of a run that is not running fails it.
LEMMA NotSteppableKeeps ==
    ASSUME CommandsInv, UNCHANGED setup, NEW t \in Callers, NEW ok \in BOOLEAN, NotSteppable(t, ok)
    PROVE  CommandsInv'
<1>1. Held(t) /\ Fails(t, run, ok) /\ UNCHANGED <<effect, exchanges>>
  BY DEF NotSteppable, Held
<1>2. QED
  BY <1>1, LeavesAsIs, FailsKeeps

\* A step past the limit stops the session: the budget is spent.
LEMMA StepsExhaustedKeeps ==
    ASSUME CommandsInv, UNCHANGED setup, NEW t \in Callers, NEW ok \in BOOLEAN, StepsExhausted(t, ok)
    PROVE  CommandsInv'
<1>1. /\ Held(t) /\ BudgetSpent /\ Exhausts(t, [run EXCEPT !.rt = "NeedsOperator"], ok)
      /\ UNCHANGED <<effect, exchanges>>
  BY DEF StepsExhausted, Held, BudgetSpent
<1>2. QED
  BY <1>1, ExhaustsKeeps

\* The end of the run gives the session back.
LEMMA EndKeeps ==
    ASSUME CommandsInv, UNCHANGED setup, NEW t \in Callers, NEW ok \in BOOLEAN, End(t, ok)
    PROVE  CommandsInv'
<1> DEFINE r == [run EXCEPT !.steps = @ + 1]
<1>1. /\ AtNode(t, "end") /\ UNCHANGED <<effect, exchanges>> /\ lease' \in LeasesAfter(ok)
      /\ Applies(t, Cleaned([run EXCEPT !.rt = EndsAs, !.steps = @ + 1], ok),
                 IF ok THEN EndsAs ELSE "NeedsOperator")
  BY DEF End
<1>2. Held(t) /\ run.node = "end" /\ run \in LiveRuns /\ Leaves(run)
  BY <1>1, AtNodeIs, LeavesAsIs
<1>3. [run EXCEPT !.rt = EndsAs, !.steps = @ + 1] = [r EXCEPT !.rt = EndsAs]
  BY <1>2 DEF LiveRuns
<1>4. /\ r \in LiveRuns /\ r.held = run.held /\ r.pending = run.pending /\ r.node = run.node
      /\ r.resolved = run.resolved /\ r.answered = run.answered /\ r.cancelled = run.cancelled
      /\ r.cleanup = run.cleanup /\ r.steps >= run.steps /\ r.calls = run.calls
      /\ run.calls \in Nat
  BY <1>2 DEF LiveRuns
<1>5. Applies(t, Cleaned([r EXCEPT !.rt = EndsAs], ok), IF ok THEN EndsAs ELSE "NeedsOperator")
  BY <1>1, <1>3
<1>6. run'.rt = EndsAs /\ run'.node = "end"
  BY <1>2, <1>4, <1>5 DEF Applies, Cleaned, LiveRuns
<1> HIDE DEF r
<1>7. Leaves(r)
  BY <1>2, <1>4 DEF Leaves, Keeps, Published
<1>8. GivenUp'
  BY <1>6, CommandAssumption DEF GivenUp
<1>9. /\ EndsAs \in {"Running", "Completed", "Failed", "NeedsOperator"}
      /\ (IF ok THEN EndsAs ELSE "NeedsOperator") \in Statuses \ Live
  BY CommandAssumption DEF Statuses, Live
<1>10. QED
  BY <1>1, <1>2, <1>5, <1>7, <1>8, <1>9, CleanedKeeps

\* An observation holds nothing, read or not.
LEMMA ObserveKeeps ==
    ASSUME CommandsInv, UNCHANGED setup, NEW t \in Callers, NEW seen \in BOOLEAN,
           NEW ok \in BOOLEAN, Observe(t, seen, ok)
    PROVE  CommandsInv'
<1> DEFINE r == [run EXCEPT !.fresh = FALSE]
<1>1. /\ AtNode(t, "observe") /\ UNCHANGED <<effect, exchanges>>
      /\ IF seen THEN Advances(t, r, "Ok", ok) ELSE Fails(t, run, ok)
  BY DEF Observe
<1>2. Held(t) /\ run.rt = "Running" /\ run.node = "observe" /\ Leaves(run) /\ run \in LiveRuns
  BY <1>1, AtNodeIs, LeavesAsIs
<1>3. run.held = NoId /\ run.pending = NoId
  BY <1>2 DEF CommandsInv, Custody, Keeps
<1>4. /\ r \in LiveRuns /\ r.held = run.held /\ r.pending = run.pending /\ r.node = run.node
      /\ r.resolved = run.resolved /\ r.answered = run.answered /\ r.cancelled = run.cancelled
      /\ r.cleanup = run.cleanup /\ r.steps = run.steps /\ r.calls = run.calls /\ r.rt = run.rt
  BY <1>2 DEF LiveRuns
<1> HIDE DEF r
<1>5. Leaves(r)
  BY <1>2, <1>4 DEF Leaves, Keeps, Published
<1>6. QED
  BY <1>1, <1>2, <1>3, <1>4, <1>5, AdvancesKeeps, FailsKeeps DEF Outcomes

\* A new identity is prepared: its intent is durable and the run holds on to it.
LEMMA PreparesKeeps ==
    ASSUME CommandsInv, UNCHANGED <<setup, row, expected, registered, lock, submission, lease>>,
           NEW t \in Callers, Held(t), run.rt = "Running", run.node \in {"decide", "act"},
           run.held = NoId, run.pending = NoId,
           NEW i \in Ids, effect[i] = "unused", effect' = [effect EXCEPT ![i] = "intent"],
           exchanges' \subseteq Ids, snapshot' = [snapshot EXCEPT !.pending = i],
           NEW at, caller' = [caller EXCEPT ![t].at = at], run' \in LiveRuns,
           \/ run.node = "decide" /\ at = "exchange" /\ run'.held = i /\ run'.pending = NoId
              /\ ~run'.answered
           \/ run.node = "act" /\ at = "dispatch" /\ run'.pending = i /\ run'.held = NoId,
           run'.node = run.node, run'.rt = run.rt, run'.resolved = run.resolved,
           run'.cancelled = run.cancelled, run'.cleanup = run.cleanup,
           run'.steps = run.steps, run'.calls = run.calls
    PROVE  CommandsInv'
<1>1. i # NoId /\ at \in {"exchange", "dispatch"} /\ CommandsTypes
  BY DEF Ids, NoId, CommandsInv
<1>2. /\ caller[t] \in Working /\ lock = t /\ ~run.cancelled /\ caller[t] # Idle
      /\ StillHeld /\ (~setup.retry => snapshot.revision # 1)
  BY AtStep DEF Working, AtWork, Idle
<1>3. /\ caller'[t] \in Working /\ caller'[t].at = at /\ caller'[t].command = caller[t].command
      /\ caller'[t] # Idle
      /\ \A u \in Callers : u # t => caller'[u] = caller[u]
  BY <1>1, <1>2 DEF Working, AtWork, CommandsTypes, Idle
<1>4. /\ snapshot' \in Snapshots /\ snapshot'.pending = i /\ snapshot'.revision = snapshot.revision
      /\ snapshot'.status = snapshot.status /\ snapshot'.cleanup = snapshot.cleanup
  BY <1>1 DEF CommandsTypes, Snapshots
<1>5. CommandsTypes'
  <2>1. caller' \in [Callers -> {Idle} \cup Working \cup Recording]
    BY <1>1, <1>3 DEF CommandsTypes
  <2>2. effect' \in Effects
    BY <1>1 DEF CommandsTypes, Effects
  <2>3. QED
    BY <1>1, <1>4, <2>1, <2>2 DEF CommandsTypes
<1>6. RevisionsCountCommands'
  BY <1>4 DEF CommandsInv, RevisionsCountCommands
<1>7. run.resolved = "no"
  BY DEF CommandsInv, Custody, Keeps
<1>8. Custody'
  <2>1. \A j \in Ids : effect[j] \notin {"intent", "open"}
    BY DEF CommandsInv, Custody, Keeps, Ids, NoId
  <2>2. effect'[i] = "intent" /\ \A j \in Ids : j # i => effect'[j] = effect[j]
    BY <1>1 DEF CommandsTypes, Effects
  <2>3. QED
    BY <1>1, <1>7, <2>1, <2>2 DEF Custody, Keeps
<1>9. Locked'
  <2>1. \A u \in Callers : u # t => lock' # u /\ ~Held(u)'
    BY <1>2, <1>3, AloneAtStep DEF Held
  <2>2. QED
    BY <1>1, <1>2, <1>3, <1>7, <2>1 DEF Locked, Held
<1>10. CleanedUp'
  BY <1>1, <1>3, <1>4 DEF CommandsInv, CleanedUp, CommandsTypes
<1>11. StillHeld' /\ LeaseKept'
  BY <1>2 DEF StillHeld, LeaseKept, GivenUp, BudgetSpent
<1>12. ASSUME ~setup.retry PROVE Solo'
  <2>1. Solo /\ \A u \in Callers : u # t => caller'[u] = Idle
    BY <1>2, <1>3, <1>12 DEF CommandsInv, Solo
  <2>2. Published(run)' = i
    BY <1>1 DEF Published
  <2>3. /\ row[caller[t].command] = "inflight"
        /\ expected[caller[t].command] = snapshot.revision
    BY <1>2, <2>1 DEF Solo
  <2>4. \A u \in Callers : caller'[u].at # "record"
    BY <1>1, <1>3, <2>1 DEF Idle
  <2>5. \A u \in Callers : caller'[u] # Idle =>
          row'[caller'[u].command] = "inflight" /\ expected'[caller'[u].command] = snapshot'.revision
    BY <1>3, <1>4, <2>1, <2>3
  <2>6. \A u, v \in Callers : caller'[u] # Idle /\ caller'[v] # Idle => u = v
    BY <2>1
  <2>7. \A c, d \in Commands : row'[c] = "inflight" /\ row'[d] = "inflight" => c = d
    BY <2>1 DEF Solo
  <2>8. QED
    BY <1>1, <1>2, <1>4, <1>12, <2>2, <2>4, <2>5, <2>6, <2>7 DEF Solo
<1>13. submission' = "aborting" => ~registered' /\ snapshot'.revision # 1
  BY <1>4 DEF CommandsInv
<1>14. QED
  BY <1>5, <1>6, <1>8, <1>9, <1>10, <1>11, <1>12, <1>13 DEF CommandsInv

\* An attempt is held with its intent, or the run fails before anything is sent.
LEMMA HoldAttemptKeeps ==
    ASSUME CommandsInv, UNCHANGED setup, NEW t \in Callers, NEW readable \in BOOLEAN,
           NEW ok \in BOOLEAN, HoldAttempt(t, readable, ok)
    PROVE  CommandsInv'
<1>1. AtNode(t, "decide") /\ run.held = NoId
  BY DEF HoldAttempt
<1>2. Held(t) /\ run.rt = "Running" /\ run.node = "decide" /\ run \in LiveRuns
  BY <1>1, AtNodeIs
<1>3. run.pending = NoId
  BY <1>2 DEF CommandsInv, Custody, Keeps
<1>4. CASE run.calls >= setup.maxCalls
  <2>1. BudgetSpent /\ Exhausts(t, run, ok) /\ UNCHANGED <<effect, exchanges>>
    BY <1>4 DEF HoldAttempt, BudgetSpent
  <2>2. run = [run EXCEPT !.rt = "Running"]
    BY <1>2 DEF LiveRuns
  <2>3. QED
    BY <1>2, <2>1, <2>2, ExhaustsKeeps
<1>5. CASE ~(run.calls >= setup.maxCalls) /\ readable /\ IntentAccepted(caller[t].command)
  <2>1. Mintable /\ AttemptHeld(t, FirstUnused)
    BY <1>5 DEF HoldAttempt
  <2>2. FirstUnused \in Ids /\ effect[FirstUnused] = "unused"
    BY <2>1, FirstUnusedIsUnused
  <2> DEFINE i == FirstUnused
             r == [run EXCEPT !.held = i, !.answered = FALSE]
  <2> HIDE DEF i
  <2>3. /\ run' = r /\ snapshot' = [snapshot EXCEPT !.pending = i]
        /\ effect' = [effect EXCEPT ![i] = "intent"] /\ exchanges' = exchanges \cup {i}
        /\ caller' = [caller EXCEPT ![t].at = "exchange"]
        /\ UNCHANGED <<row, expected, registered, lock, submission, lease>>
    BY <2>1 DEF AttemptHeld, i
  <2>4. i \in Ids /\ effect[i] = "unused"
    BY <2>2 DEF i
  <2>5. /\ r \in LiveRuns /\ r.held = i /\ r.pending = run.pending /\ ~r.answered /\ r.node = run.node
        /\ r.rt = run.rt /\ r.resolved = run.resolved /\ r.cancelled = run.cancelled
        /\ r.cleanup = run.cleanup /\ r.steps = run.steps /\ r.calls = run.calls
    BY <1>2, <2>4 DEF LiveRuns
  <2> HIDE DEF r
  <2>6. exchanges' \subseteq Ids
    BY <2>3, <2>4 DEF CommandsInv, CommandsTypes
  <2>7. QED
    BY <1>1, <1>2, <1>3, <2>3, <2>4, <2>5, <2>6, PreparesKeeps
<1>6. CASE ~(run.calls >= setup.maxCalls) /\ ~(readable /\ IntentAccepted(caller[t].command))
  <2>1. Fails(t, run, ok) /\ UNCHANGED <<effect, exchanges>>
    BY <1>6 DEF HoldAttempt
  <2>2. QED
    BY <1>2, <2>1, LeavesAsIs, FailsKeeps
<1>7. QED
  BY <1>4, <1>5, <1>6

\* An action is installed with its intent, or the run fails before anything is sent.
LEMMA InstallPendingKeeps ==
    ASSUME CommandsInv, UNCHANGED setup, NEW t \in Callers, NEW ok \in BOOLEAN, InstallPending(t, ok)
    PROVE  CommandsInv'
<1>1. AtNode(t, "act") /\ run.pending = NoId
  BY DEF InstallPending
<1>2. Held(t) /\ run.rt = "Running" /\ run.node = "act" /\ run \in LiveRuns
  BY <1>1, AtNodeIs
<1>3. run.held = NoId
  BY <1>2 DEF CommandsInv, Custody, Keeps
<1>4. CASE run.fresh /\ IntentAccepted(caller[t].command)
  <2> DEFINE i == FirstUnused
             r == [run EXCEPT !.pending = i]
  <2>1. Mintable
    BY <1>4 DEF InstallPending
  <2>2. i \in Ids /\ effect[i] = "unused"
    BY <2>1, FirstUnusedIsUnused
  <2>3. /\ run' = r /\ snapshot' = [snapshot EXCEPT !.pending = i]
        /\ effect' = [effect EXCEPT ![i] = "intent"] /\ exchanges' = exchanges
        /\ caller' = [caller EXCEPT ![t].at = "dispatch"]
        /\ UNCHANGED <<row, expected, registered, lock, submission, lease>>
    BY <1>4 DEF InstallPending
  <2> HIDE DEF i
  <2>4. /\ r \in LiveRuns /\ r.held = run.held /\ r.pending = i /\ r.node = run.node
        /\ r.rt = run.rt /\ r.resolved = run.resolved /\ r.cancelled = run.cancelled
        /\ r.cleanup = run.cleanup /\ r.steps = run.steps /\ r.calls = run.calls
    BY <1>2, <2>2 DEF LiveRuns
  <2> HIDE DEF r
  <2>5. exchanges' \subseteq Ids
    BY <2>3 DEF CommandsInv, CommandsTypes
  <2>6. QED
    BY <1>1, <1>2, <1>3, <2>2, <2>3, <2>4, <2>5, PreparesKeeps
<1>5. CASE ~(run.fresh /\ IntentAccepted(caller[t].command))
  <2>1. Fails(t, run, ok) /\ UNCHANGED <<effect, exchanges>>
    BY <1>5 DEF InstallPending
  <2>2. QED
    BY <1>2, <2>1, LeavesAsIs, FailsKeeps
<1>6. QED
  BY <1>4, <1>5

\* What is made of an answer: it is used, and nothing is held on to, or it cannot be.
LEMMA DecidedKeeps ==
    ASSUME CommandsInv, UNCHANGED setup, NEW t \in Callers, Held(t), run.rt = "Running",
           run.node = "decide", NEW r, Leaves(r), r.rt = "Running", r.pending = NoId,
           NEW reply \in {"action", "none", "unusable"},
           reply # "unusable" => r.held = NoId,
           r.held # NoId => r.node = "decide" /\ effect'[r.held] = "settled",
           NEW ok \in BOOLEAN, Decided(t, r, reply, ok)
    PROVE  CommandsInv'
<1>1. r \in LiveRuns
  BY DEF Leaves
<1>2. CASE reply = "action"
  <2> DEFINE s == [r EXCEPT !.fresh = TRUE]
  <2>1. Advances(t, s, "Ok", ok)
    BY <1>2 DEF Decided
  <2>2. /\ s \in LiveRuns /\ s.held = r.held /\ s.pending = r.pending /\ s.node = r.node
        /\ s.resolved = r.resolved /\ s.answered = r.answered /\ s.cancelled = r.cancelled
        /\ s.cleanup = r.cleanup /\ s.steps = r.steps /\ s.calls = r.calls /\ s.rt = r.rt
    BY <1>1 DEF LiveRuns
  <2> HIDE DEF s
  <2>3. Leaves(s)
    BY <2>2 DEF Leaves, Keeps, Published
  <2>4. QED
    BY <1>2, <2>1, <2>2, <2>3, AdvancesKeeps DEF Outcomes
<1>3. CASE reply = "none"
  <2>1. Advances(t, r, "Unavailable", ok)
    BY <1>3 DEF Decided
  <2>2. QED
    BY <1>3, <2>1, AdvancesKeeps DEF Outcomes
<1>4. CASE reply = "unusable"
  <2> DEFINE s == [r EXCEPT !.answered = TRUE]
  <2>1. Fails(t, s, ok)
    BY <1>4 DEF Decided
  <2>2. /\ s \in LiveRuns /\ s.held = r.held /\ s.pending = r.pending /\ s.node = r.node
        /\ s.resolved = r.resolved /\ s.cancelled = r.cancelled
        /\ s.cleanup = r.cleanup /\ s.steps = r.steps /\ s.calls = r.calls /\ s.rt = r.rt
    BY <1>1 DEF LiveRuns
  <2> HIDE DEF s
  <2>3. Leaves(s)
    BY <2>2 DEF Leaves, Keeps, Published
  <2>4. QED
    BY <2>1, <2>3, FailsKeeps
<1>5. QED
  BY <1>2, <1>3, <1>4

\* A decision that was answered is used; one that was not stays held.
LEMMA RetryHeldKeeps ==
    ASSUME CommandsInv, UNCHANGED setup, NEW t \in Callers,
           NEW catalog \in {"same", "changed", "unreadable"}, NEW ok \in BOOLEAN,
           RetryHeld(t, catalog, ok)
    PROVE  CommandsInv'
<1>1. AtNode(t, "decide") /\ run.held # NoId /\ UNCHANGED <<effect, exchanges>>
  BY DEF RetryHeld
<1>2. /\ Held(t) /\ run.rt = "Running" /\ run.node = "decide" /\ run \in LiveRuns
      /\ Leaves(run) /\ run.pending = NoId
  BY <1>1, AtNodeIs, LeavesAsIs DEF CommandsInv, Custody, Keeps
<1>3. CASE catalog = "unreadable"
  BY <1>2, <1>3, FailsKeeps DEF RetryHeld
<1>4. CASE catalog = "same" /\ run.answered
  <2> DEFINE r == [run EXCEPT !.held = NoId]
  <2>1. Decided(t, r, "action", ok)
    BY <1>4 DEF RetryHeld
  <2>2. /\ r \in LiveRuns /\ r.held = NoId /\ r.pending = run.pending /\ r.node = run.node
        /\ r.resolved = run.resolved /\ r.answered = run.answered /\ r.cancelled = run.cancelled
        /\ r.cleanup = run.cleanup /\ r.steps = run.steps /\ r.calls = run.calls /\ r.rt = run.rt
        /\ run.steps \in Nat /\ run.calls \in Nat
    BY <1>2 DEF LiveRuns
  <2> HIDE DEF r
  <2>3. effect[run.held] = "settled"
    BY <1>1, <1>4 DEF CommandsInv, Custody, Keeps
  <2>4. Keeps(r, effect')
    BY <1>1, <1>2, <2>2, <2>3 DEF Leaves, Keeps
  <2>5. Leaves(r)
    BY <1>2, <2>2, <2>4 DEF Leaves, Published
  <2>6. QED
    BY <1>2, <2>1, <2>2, <2>5, DecidedKeeps
<1>5. CASE catalog # "unreadable" /\ ~(catalog = "same" /\ run.answered)
  <2>1. Unknown(t, run)
    BY <1>5 DEF RetryHeld
  <2>2. QED
    BY <1>2, <2>1, UnknownKeeps
<1>6. QED
  BY <1>3, <1>4, <1>5

\* The exchange with the provider: as long as it may stand it is held.
LEMMA ExchangeKeeps ==
    ASSUME CommandsInv, UNCHANGED setup, NEW t \in Callers, NEW reply \in Replies,
           NEW ok \in BOOLEAN, Exchange(t, reply, ok)
    PROVE  CommandsInv'
<1> DEFINE i == run.held
           outcome == CASE reply = "lost" -> "open"
                        [] reply \in {"paused", "refused"} -> "refused"
                        [] OTHER -> "settled"
           r == [run EXCEPT !.held = HeldAfter(reply)]
           paid == [r EXCEPT !.calls = @ + 1]
<1>1. /\ caller[t].at = "exchange" /\ effect' = [effect EXCEPT ![i] = outcome] /\ exchanges' = exchanges
      /\ CASE reply \in {"action", "none", "unusable"} -> Decided(t, paid, reply, ok)
           [] reply = "lost" -> Unknown(t, r)
           [] reply = "paused" -> Applies(t, r, "Running") /\ UNCHANGED lease
           [] reply = "refused" -> Fails(t, r, ok)
  BY DEF Exchange
<1>2. /\ Held(t) /\ run.rt = "Running" /\ run.node = "decide" /\ i # NoId /\ run \in LiveRuns
      /\ i \in Ids /\ run.pending = NoId /\ CommandsTypes
  BY <1>1 DEF CommandsInv, CommandsTypes, Locked, Held, Custody, Keeps, LiveRuns
<1>3. outcome \in {"open", "refused", "settled"} /\ (reply = "unusable" => outcome = "settled")
      /\ (outcome = "open" => reply = "lost") /\ (reply = "lost" => outcome = "open")
      /\ effect[i] # "unused"
  BY <1>2 DEF CommandsInv, Custody, Keeps
<1>4. /\ r \in LiveRuns /\ r.held = HeldAfter(reply) /\ r.pending = run.pending /\ r.node = run.node
      /\ r.resolved = run.resolved /\ r.answered = run.answered /\ r.cancelled = run.cancelled
      /\ r.cleanup = run.cleanup /\ r.steps = run.steps /\ r.calls = run.calls /\ r.rt = run.rt
      /\ run.steps \in Nat /\ run.calls \in Nat /\ HeldAfter(reply) \in {NoId, i}
      /\ (HeldAfter(reply) = i <=> reply \in {"lost", "unusable"})
  BY <1>2 DEF LiveRuns, HeldAfter
<1>5. /\ paid \in LiveRuns /\ paid.held = r.held /\ paid.pending = r.pending /\ paid.node = r.node
      /\ paid.resolved = r.resolved /\ paid.answered = r.answered /\ paid.cancelled = r.cancelled
      /\ paid.cleanup = r.cleanup /\ paid.steps = r.steps /\ paid.calls = r.calls + 1
      /\ paid.rt = r.rt
  <2>1. r.calls + 1 \in Nat
    BY <1>4
  <2> HIDE DEF r
  <2>2. QED
    BY <1>4, <2>1 DEF LiveRuns
<1> HIDE DEF paid, r, outcome
<1>6. effect' \in Effects /\ effect'[i] = outcome /\ \A j \in Ids : j # i => effect'[j] = effect[j]
  BY <1>1, <1>2, <1>3 DEF CommandsTypes, Effects
<1>7. ~run.answered
  BY <1>1 DEF CommandsInv, Locked
<1>8. Keeps(r, effect') /\ Keeps(paid, effect')
  <2>1. \A j \in Ids : effect'[j] \in {"intent", "open"} => j = i /\ reply = "lost"
    BY <1>2, <1>3, <1>6 DEF CommandsInv, Custody, Keeps, Ids, NoId
  <2>2. run.resolved = "no"
    BY <1>2 DEF CommandsInv, Custody, Keeps
  <2>3. QED
    BY <1>2, <1>3, <1>4, <1>5, <1>6, <1>7, <2>1, <2>2 DEF Keeps
<1>9. Leaves(r) /\ Leaves(paid)
  <2>1. exchanges' \subseteq Ids
    BY <1>1, <1>2 DEF CommandsTypes
  <2>2. Published(r) \in {NoId, Published(run)} /\ Published(paid) = Published(r)
    BY <1>2, <1>4, <1>5 DEF Published
  <2>3. ~setup.retry => snapshot.revision # 1
    BY <1>2, AtStep
  <2>4. QED
    BY <1>4, <1>5, <1>6, <1>8, <2>1, <2>2, <2>3 DEF Leaves
<1>10. CASE reply \in {"action", "none", "unusable"}
  <2>1. Decided(t, paid, reply, ok)
    BY <1>1, <1>10
  <2>2. paid.held # NoId => effect'[paid.held] = "settled" /\ paid.node = "decide"
    BY <1>2, <1>3, <1>4, <1>5, <1>6, <1>10
  <2>3. reply # "unusable" => paid.held = NoId
    BY <1>4, <1>5, <1>10
  <2>4. QED
    BY <1>2, <1>4, <1>5, <1>9, <1>10, <2>1, <2>2, <2>3, DecidedKeeps
<1>11. CASE reply = "lost"
  <2>1. Unknown(t, r)
    BY <1>1, <1>11
  <2>2. QED
    BY <1>2, <1>9, <2>1, UnknownKeeps
<1>12. CASE reply = "paused"
  <2>1. Applies(t, r, "Running") /\ UNCHANGED lease
    BY <1>1, <1>12
  <2>2. QED
    BY <1>2, <1>4, <1>9, <2>1, RunsOn
<1>13. CASE reply = "refused"
  <2>1. Fails(t, r, ok)
    BY <1>1, <1>13
  <2>2. QED
    BY <1>2, <1>9, <2>1, FailsKeeps
<1>14. QED
  BY <1>10, <1>11, <1>12, <1>13 DEF Replies

\* What is made of an outcome that is known: the action is let go of.
LEMMA FinishKeeps ==
    ASSUME CommandsInv, UNCHANGED setup, NEW t \in Callers, Held(t), run.rt = "Running",
           run.node = "act", run.pending # NoId, effect' \in Effects, exchanges' \subseteq Ids,
           \A j \in Ids : effect'[j] \notin {"intent", "open"},
           NEW receipt \in {"settled", "refused"}, NEW verified \in BOOLEAN, NEW ok \in BOOLEAN,
           Finish(t, receipt, verified, ok)
    PROVE  CommandsInv'
<1> DEFINE r == [run EXCEPT !.pending = NoId, !.resolved = "no"]
           s == [r EXCEPT !.fresh = FALSE]
<1>1. \/ Advances(t, r, "Error", ok)
      \/ Advances(t, s, "Ok", ok)
      \/ Fails(t, r, ok)
  BY DEF Finish
<1>2. run \in LiveRuns /\ run.held = NoId
  BY DEF CommandsInv, CommandsTypes, Custody, Keeps
<1>3. /\ r \in LiveRuns /\ r.held = NoId /\ r.pending = NoId /\ r.node = run.node
      /\ r.resolved = "no" /\ r.answered = run.answered /\ r.cancelled = run.cancelled
      /\ r.cleanup = run.cleanup /\ r.steps = run.steps /\ r.calls = run.calls /\ r.rt = run.rt
      /\ run.steps \in Nat /\ run.calls \in Nat
  BY <1>2 DEF LiveRuns
<1>4. /\ s \in LiveRuns /\ s.held = NoId /\ s.pending = NoId /\ s.node = run.node
      /\ s.resolved = "no" /\ s.answered = run.answered /\ s.cancelled = run.cancelled
      /\ s.cleanup = run.cleanup /\ s.steps = run.steps /\ s.calls = run.calls /\ s.rt = run.rt
  BY <1>2 DEF LiveRuns
<1> HIDE DEF r, s
<1>5. Leaves(r) /\ Leaves(s)
  BY <1>3, <1>4 DEF Leaves, Keeps, Published
<1>6. QED
  BY <1>1, <1>3, <1>4, <1>5, AdvancesKeeps, FailsKeeps DEF Outcomes

\* A pending action is let go of once its outcome is known, and not before.
LEMMA FinishPendingKeeps ==
    ASSUME CommandsInv, UNCHANGED setup, NEW t \in Callers, NEW verified \in BOOLEAN,
           NEW ok \in BOOLEAN, FinishPending(t, verified, ok)
    PROVE  CommandsInv'
<1>1. AtNode(t, "act") /\ run.pending # NoId /\ UNCHANGED <<effect, exchanges>>
  BY DEF FinishPending
<1>2. Held(t) /\ run.rt = "Running" /\ run.node = "act" /\ run \in LiveRuns /\ Leaves(run)
  BY <1>1, AtNodeIs, LeavesAsIs
<1>3. CASE run.resolved = "no"
  <2>1. Unknown(t, run)
    BY <1>3 DEF FinishPending
  <2>2. QED
    BY <1>2, <2>1, UnknownKeeps
<1>4. CASE run.resolved # "no"
  <2>1. Finish(t, run.resolved, verified, ok)
    BY <1>4 DEF FinishPending
  <2>2. run.resolved \in {"settled", "refused"} /\ effect[run.pending] = run.resolved
        /\ run.held = NoId
    BY <1>2, <1>4 DEF LiveRuns, CommandsInv, Custody, Keeps
  <2>3. \A j \in Ids : effect'[j] \notin {"intent", "open"}
    BY <1>1, <2>2 DEF CommandsInv, Custody, Keeps, Ids, NoId
  <2>4. QED
    BY <1>1, <1>2, <2>1, <2>2, <2>3, FinishKeeps DEF Leaves
<1>5. QED
  BY <1>3, <1>4

\* A dispatch leaves the action held where its outcome is not known.
LEMMA DispatchKeeps ==
    ASSUME CommandsInv, UNCHANGED setup, NEW t \in Callers,
           NEW receipt \in {"settled", "refused", "unknown"}, NEW verified \in BOOLEAN,
           NEW ok \in BOOLEAN, Dispatch(t, receipt, verified, ok)
    PROVE  CommandsInv'
<1> DEFINE i == run.pending
           outcome == IF receipt = "unknown" THEN "open" ELSE receipt
<1>1. /\ caller[t].at = "dispatch" /\ exchanges' = exchanges
      /\ effect' = [effect EXCEPT ![i] = outcome]
      /\ IF receipt = "unknown" THEN Unknown(t, run) ELSE Finish(t, receipt, verified, ok)
  BY DEF Dispatch
<1>2. /\ Held(t) /\ run.rt = "Running" /\ run.node = "act" /\ i # NoId /\ run \in LiveRuns
      /\ i \in Ids /\ run.held = NoId /\ run.resolved = "no" /\ CommandsTypes
  BY <1>1 DEF CommandsInv, CommandsTypes, Locked, Held, Custody, Keeps, LiveRuns
<1>3. /\ effect' \in Effects /\ effect'[i] = outcome
      /\ \A j \in Ids : j # i => effect'[j] = effect[j]
  BY <1>1, <1>2 DEF CommandsTypes, Effects
<1>4. \A j \in Ids : j # i => effect'[j] \notin {"intent", "open"}
  BY <1>2, <1>3 DEF CommandsInv, Custody, Keeps, Ids, NoId
<1>5. CASE receipt = "unknown"
  <2>1. Keeps(run, effect')
    BY <1>2, <1>3, <1>4, <1>5 DEF Keeps
  <2>2. Leaves(run)
    BY <1>1, <1>2, <1>3, <2>1, AtStep DEF Leaves, CommandsTypes, LiveRuns
  <2>3. QED
    BY <1>1, <1>2, <1>5, <2>2, UnknownKeeps
<1>6. CASE receipt # "unknown"
  <2>1. Finish(t, receipt, verified, ok) /\ receipt \in {"settled", "refused"}
    BY <1>1, <1>6
  <2>2. \A j \in Ids : effect'[j] \notin {"intent", "open"}
    BY <1>3, <1>4, <2>1
  <2>3. exchanges' \subseteq Ids
    BY <1>1, <1>2 DEF CommandsTypes
  <2>4. QED
    BY <1>2, <1>3, <2>1, <2>2, <2>3, FinishKeeps
<1>7. QED
  BY <1>5, <1>6

\* A command that enters applies to the run, which keeps its session.
LEMMA EntersAndApplies ==
    ASSUME CommandsInv, UNCHANGED <<setup, outside>>, NEW t \in Callers, NEW kind, Enters(t, kind),
           NEW rt \in {"Running", "Paused", "Completed", "Failed", "NeedsOperator"},
           NEW status \in Statuses,
           Applies(t, [run EXCEPT !.rt = rt], status),
           \/ rt = run.rt /\ status \notin Live
           \/ ~run.cancelled /\ run.rt \in {"Running", "Paused"}
    PROVE  CommandsInv'
<1> DEFINE r == [run EXCEPT !.rt = rt]
<1>1. /\ run \in LiveRuns /\ effect' \in Effects /\ exchanges' \subseteq Ids /\ lease' = lease
      /\ effect' = effect
  BY DEF outside, CommandsInv, CommandsTypes
<1>2. /\ r \in LiveRuns /\ r.held = run.held /\ r.pending = run.pending /\ r.node = run.node
      /\ r.resolved = run.resolved /\ r.answered = run.answered /\ r.cancelled = run.cancelled
      /\ r.cleanup = run.cleanup /\ r.steps = run.steps /\ r.calls = run.calls /\ r.rt = rt
  BY <1>1 DEF LiveRuns
<1>3. run' = r /\ registered' = registered
  BY DEF Applies
<1> HIDE DEF r
<1>4. Custody' /\ Published(r) = Published(run) /\ BudgetSpent' = BudgetSpent
  BY <1>1, <1>2, <1>3 DEF CommandsInv, Custody, Keeps, Published, BudgetSpent
<1>5. /\ caller[t] \in Working /\ lock = NoCaller /\ caller[t].at = "found"
      /\ \A u \in Callers : ~Held(u)
      /\ ~run.cancelled /\ run.rt \in {"Running", "Paused"} => StillHeld
      /\ ~setup.retry /\ snapshot.revision = 1 => run.held = NoId /\ run.pending = NoId
  BY AtEntry
<1>6. status \in Live => StillHeld'
  BY <1>1, <1>3, <1>4, <1>5 DEF StillHeld
<1>7. LeaseKept'
  <2>1. CASE rt = run.rt
    BY <1>1, <1>2, <1>3, <1>4, <1>5, <2>1 DEF CommandsInv, LeaseKept, GivenUp, Held
  <2>2. CASE ~run.cancelled /\ run.rt \in {"Running", "Paused"}
    BY <1>1, <1>3, <1>4, <1>5, <2>2 DEF LeaseKept, GivenUp, StillHeld, CommandsInv, CommandsTypes
  <2>3. QED
    BY <2>1, <2>2
<1>8. r.cleanup = "Complete" => lease' = "released"
  BY <1>1, <1>2 DEF CommandsInv, CleanedUp
<1>9. Applies(t, r, status)
  BY DEF r
<1>10. QED
  BY <1>1, <1>2, <1>4, <1>5, <1>6, <1>7, <1>8, <1>9, AppliesKeeps

\* A command that enters and is refused.
LEMMA EntersAndRefuses ==
    ASSUME CommandsInv, UNCHANGED <<setup, outside>>, NEW t \in Callers, NEW kind, Enters(t, kind),
           NEW class, NEW r \in LiveRuns, Refuses(t, r, class),
           r.held = run.held, r.pending = run.pending, r.node = run.node,
           r.answered = run.answered, r.cancelled = run.cancelled, r.cleanup = run.cleanup,
           r.steps = run.steps, r.calls = run.calls,
           r.resolved = run.resolved \/ (run.pending # NoId /\ effect[run.pending] = r.resolved),
           \/ r.rt = run.rt
           \/ run.rt = "NeedsOperator" /\ run.node # "end"
    PROVE  CommandsInv'
<1>1. lease' = lease /\ effect' = effect /\ exchanges' = exchanges
  BY DEF outside
<1>2. run' = r /\ registered' = registered
  BY DEF Refuses
<1>3. Custody' /\ BudgetSpent' = BudgetSpent
  BY <1>1, <1>2 DEF CommandsInv, Custody, Keeps, BudgetSpent
<1>4. caller[t] \in Working /\ lock = NoCaller /\ \A u \in Callers : ~Held(u)
  BY AtEntry
<1>5. LeaseKept'
  BY <1>1, <1>2, <1>3, <1>4 DEF CommandsInv, LeaseKept, GivenUp, Held
<1>6. r.cleanup = "Complete" => lease' = "released"
  BY <1>1 DEF CommandsInv, CleanedUp
<1>7. QED
  BY <1>1, <1>3, <1>4, <1>5, <1>6, RefusesKeeps

\* A cancelled run answers every other command alike.
LEMMA CancelDominatesKeeps ==
    ASSUME CommandsInv, UNCHANGED setup, NEW t \in Callers, NEW kind, CancelDominates(t, kind)
    PROVE  CommandsInv'
<1>1. Enters(t, kind) /\ Applies(t, run, "Cancelled") /\ UNCHANGED outside
  BY DEF CancelDominates
<1>2. run \in LiveRuns
  BY DEF CommandsInv, CommandsTypes
<1>3. run = [run EXCEPT !.rt = run.rt]
      /\ run.rt \in {"Running", "Paused", "Completed", "Failed", "NeedsOperator"}
  BY <1>2 DEF LiveRuns
<1>4. "Cancelled" \in Statuses /\ "Cancelled" \notin Live
  BY DEF Statuses, Live
<1>5. QED
  BY <1>1, <1>3, <1>4, EntersAndApplies

\* Pause and Resume touch the status of the runtime alone.
LEMMA PauseKeeps ==
    ASSUME CommandsInv, UNCHANGED setup, NEW t \in Callers, Pause(t) \/ Resume(t)
    PROVE  CommandsInv'
<1>1. run \in LiveRuns
  BY DEF CommandsInv, CommandsTypes
<1>2. ASSUME NEW kind, NEW status \in {"Running", "Paused"}, Enters(t, kind), ~run.cancelled,
             UNCHANGED outside,
             \/ /\ run.rt \in {"Running", "Paused"}
                /\ Applies(t, [run EXCEPT !.rt = status], status)
             \/ \E class : Refuses(t, run, class)
      PROVE  CommandsInv'
  <2>1. CASE run.rt \in {"Running", "Paused"} /\ Applies(t, [run EXCEPT !.rt = status], status)
    BY <1>2, <2>1, EntersAndApplies DEF Statuses
  <2>2. ASSUME NEW class, Refuses(t, run, class)
        PROVE  CommandsInv'
    BY <1>1, <1>2, <2>2, EntersAndRefuses
  <2>3. QED
    BY <1>2, <2>1, <2>2
<1>3. CASE Pause(t)
  <2>1. /\ Enters(t, "pause") /\ ~run.cancelled /\ UNCHANGED outside
        /\ \/ run.rt = "Running" /\ Applies(t, [run EXCEPT !.rt = "Paused"], "Paused")
           \/ \E class : Refuses(t, run, class)
    BY <1>3 DEF Pause, NotCancelled
  <2>2. QED
    BY <1>2, <2>1
<1>4. CASE Resume(t)
  <2>1. /\ Enters(t, "resume") /\ ~run.cancelled /\ UNCHANGED outside
        /\ \/ run.rt = "Paused" /\ Applies(t, [run EXCEPT !.rt = "Running"], "Running")
           \/ \E class : Refuses(t, run, class)
    BY <1>4 DEF Resume, NotCancelled
  <2>2. QED
    BY <1>2, <2>1
<1>5. QED
  BY <1>3, <1>4

\* A cancellation gives the session up; an action whose outcome is known is let go of.
LEMMA CancelKeeps ==
    ASSUME CommandsInv, UNCHANGED setup, NEW t \in Callers, NEW answer, NEW ok \in BOOLEAN,
           Cancel(t, answer, ok)
    PROVE  CommandsInv'
<1>1. Enters(t, "cancel") /\ answer \in Reconciled /\ UNCHANGED <<effect, exchanges>>
  BY DEF Cancel
<1>2. run \in LiveRuns /\ CommandsTypes
  BY DEF CommandsInv, CommandsTypes
<1>3. CASE answer = "unknown"
  <2>1. Applies(t, run, "NeedsOperator") /\ UNCHANGED outside
    BY <1>1, <1>3 DEF Cancel, outside
  <2>2. run = [run EXCEPT !.rt = run.rt]
        /\ run.rt \in {"Running", "Paused", "Completed", "Failed", "NeedsOperator"}
    BY <1>2 DEF LiveRuns
  <2>3. "NeedsOperator" \in Statuses /\ "NeedsOperator" \notin Live
    BY DEF Statuses, Live
  <2>4. QED
    BY <1>1, <2>1, <2>2, <2>3, EntersAndApplies
<1>4. CASE answer # "unknown"
  <2> DEFINE r == Cleaned([run EXCEPT !.cancelled = TRUE,
                                      !.pending = IF answer = "other" THEN @ ELSE NoId,
                                      !.resolved = "no"], ok)
             status == IF ok THEN "Cancelled" ELSE "NeedsOperator"
  <2>1. /\ lease' \in LeasesAfter(ok)
        /\ IF answer = "other" THEN Refuses(t, r, "Conflict") ELSE Applies(t, r, status)
    BY <1>4 DEF Cancel
  <2>2. /\ r \in LiveRuns /\ r.held = run.held /\ r.node = run.node /\ r.resolved = "no"
        /\ r.pending = IF answer = "other" THEN run.pending ELSE NoId
        /\ r.answered = run.answered /\ r.cancelled = TRUE /\ r.rt = run.rt
        /\ r.cleanup = IF ok THEN "Complete" ELSE "NeedsOperator"
        /\ r.steps = run.steps /\ r.calls = run.calls
    <3>1. (IF answer = "other" THEN run.pending ELSE NoId) \in Ids \cup {NoId}
      BY <1>2 DEF LiveRuns
    <3>2. QED
      BY <1>2, <3>1 DEF LiveRuns, Cleaned, Cleanups
  <2> HIDE DEF r
  <2>3. run' = r /\ registered' = registered
    BY <2>1 DEF Refuses, Applies
  <2>4. Keeps(r, effect)
    <3>1. CASE answer = "other"
      BY <2>2, <3>1 DEF CommandsInv, Custody, Keeps
    <3>2. CASE answer # "other"
      <4>1. run.pending # NoId => effect[run.pending] \in {"settled", "refused"}
        BY <1>1, <1>4, <3>2 DEF Reconciled
      <4>2. QED
        BY <2>2, <3>2, <4>1 DEF CommandsInv, Custody, Keeps
    <3>3. QED
      BY <3>1, <3>2
  <2>5. Custody' /\ LeaseKept' /\ lease' \in {lease, "released"}
        /\ (r.cleanup = "Complete" => lease' = "released")
    BY <1>1, <2>1, <2>2, <2>3, <2>4 DEF Custody, LeaseKept, GivenUp, LeasesAfter
  <2>6. /\ caller[t] \in Working /\ lock = NoCaller /\ caller[t].at = "found"
        /\ ~setup.retry /\ snapshot.revision = 1 => run.held = NoId /\ run.pending = NoId
    BY <1>1, AtEntry
  <2>7. CASE answer = "other"
    <3>1. run.pending # NoId /\ r.pending = run.pending
      BY <1>1, <2>2, <2>7 DEF Reconciled
    <3>2. QED
      BY <1>1, <2>1, <2>2, <2>5, <2>6, <2>7, <3>1, RefusesKeeps
  <2>8. CASE answer # "other"
    <3>1. Published(r) \in {NoId, Published(run)}
      BY <2>2, <2>8 DEF CommandsInv, Custody, Keeps, Published
    <3>2. status \in Statuses /\ status \notin Live
      BY DEF Statuses, Live
    <3>3. effect' \in Effects /\ exchanges' \subseteq Ids
      BY <1>1, <1>2 DEF CommandsTypes
    <3> HIDE DEF status
    <3>4. QED
      BY <2>1, <2>2, <2>5, <2>6, <2>8, <3>1, <3>2, <3>3, AppliesKeeps
  <2>9. QED
    BY <2>7, <2>8
<1>5. QED
  BY <1>3, <1>4

\* The head of a step takes the lock.
LEMMA GoesOnKeeps ==
    ASSUME CommandsInv, UNCHANGED <<setup, outside>>, NEW t \in Callers, NEW kind, Enters(t, kind),
           ~run.cancelled, NEW r \in LiveRuns, GoesOn(t, r, "node"),
           r.held = run.held, r.pending = run.pending, r.node = run.node,
           r.answered = run.answered, r.cancelled = run.cancelled, r.cleanup = run.cleanup,
           r.steps = run.steps, r.calls = run.calls,
           r.resolved = run.resolved \/ (run.pending # NoId /\ effect[run.pending] = r.resolved),
           r.rt = run.rt \/ (r.rt = "Running" /\ run.rt = "NeedsOperator")
    PROVE  CommandsInv'
<1>1. lease' = lease /\ effect' = effect /\ exchanges' = exchanges
  BY DEF outside
<1>2. /\ run' = r /\ lock' = t /\ caller' = [caller EXCEPT ![t].at = "node"]
      /\ UNCHANGED <<snapshot, row, expected, registered, submission>>
  BY DEF GoesOn, durable
<1>3. /\ caller[t] \in Working /\ lock = NoCaller /\ caller[t].at = "found"
      /\ \A u \in Callers : ~Held(u)
      /\ CommandsTypes /\ caller[t] # Idle
  BY AtEntry DEF CommandsInv, Idle
<1>4. /\ caller'[t] \in Working /\ caller'[t].at = "node" /\ caller'[t].command = caller[t].command
      /\ caller'[t] # Idle
      /\ \A u \in Callers : u # t => caller'[u] = caller[u]
  BY <1>2, <1>3 DEF Working, AtWork, CommandsTypes, Idle
<1>5. CommandsTypes'
  <2>1. caller' \in [Callers -> {Idle} \cup Working \cup Recording]
    BY <1>2, <1>3, <1>4 DEF CommandsTypes
  <2>2. QED
    BY <1>1, <1>2, <1>3, <2>1 DEF CommandsTypes
<1>6. RevisionsCountCommands'
  BY <1>2 DEF CommandsInv, RevisionsCountCommands
<1>7. Custody' /\ BudgetSpent' = BudgetSpent /\ Published(run)' = Published(run)
  BY <1>1, <1>2 DEF CommandsInv, Custody, Keeps, BudgetSpent, Published
<1>8. Locked'
  BY <1>2, <1>3, <1>4 DEF Locked, Held
<1>9. CleanedUp'
  BY <1>1, <1>2, <1>3, <1>4 DEF CommandsInv, CleanedUp, CommandsTypes
<1>10. LeaseKept'
  BY <1>1, <1>2, <1>3, <1>4, <1>7 DEF CommandsInv, LeaseKept, GivenUp, Held
<1>11. ASSUME ~setup.retry PROVE Solo'
  <2>1. Solo /\ \A u \in Callers : u # t => caller[u] = Idle /\ caller'[u] = Idle
    BY <1>3, <1>4, <1>11 DEF CommandsInv, Solo
  <2>2. Level /\ Level'
    BY <1>3, <1>4 DEF Level, Working
  <2>3. StillHeld' = StillHeld
    BY <1>1, <1>2, <1>7 DEF StillHeld
  <2>4. \A u \in Callers : caller'[u] # Idle =>
          row'[caller'[u].command] = "inflight" /\ expected'[caller'[u].command] = snapshot'.revision
    BY <1>2, <1>3, <1>4, <2>1 DEF Solo
  <2>5. snapshot.revision = 1 => registered
    BY <1>3, <2>1 DEF Solo, CommandsInv, CommandsTypes
  <2>6. \A u, v \in Callers : caller'[u] # Idle /\ caller'[v] # Idle => u = v
    BY <2>1
  <2>7. QED
    BY <1>2, <1>4, <1>7, <2>1, <2>2, <2>3, <2>4, <2>5, <2>6 DEF Solo, Idle
<1>12. submission' = "aborting" => ~registered' /\ snapshot'.revision # 1
  BY <1>2 DEF CommandsInv
<1>13. QED
  BY <1>5, <1>6, <1>7, <1>8, <1>9, <1>10, <1>11, <1>12 DEF CommandsInv

\* The head of a step takes up what the game says of the pending action.
LEMMA StepBeginsKeeps ==
    ASSUME CommandsInv, UNCHANGED setup, NEW t \in Callers, NEW answer, NEW bound,
           StepBegins(t, answer, bound)
    PROVE  CommandsInv'
<1> DEFINE r == [run EXCEPT !.resolved = IF answer = "none" THEN @ ELSE answer,
                            !.rt = IF @ = "NeedsOperator" THEN "Running" ELSE @]
<1>1. Enters(t, "step") /\ ~run.cancelled /\ UNCHANGED outside
  BY DEF StepBegins, NotCancelled
<1>2. run \in LiveRuns
  BY DEF CommandsInv, CommandsTypes
<1>3. \/ \E class \in {"Conflict", "Unresolved"} : Refuses(t, run, class)
      \/ /\ answer \in Reconciled /\ answer \notin {"unknown", "other"} /\ bound \in Bindings
         /\ IF bound = "ok" THEN GoesOn(t, r, "node") ELSE Refuses(t, r, bound)
  BY DEF StepBegins
<1>4. ASSUME NEW class, Refuses(t, run, class) PROVE CommandsInv'
  BY <1>1, <1>2, <1>4, EntersAndRefuses
<1>5. ASSUME answer \in Reconciled, answer \notin {"unknown", "other"}, bound \in Bindings,
             IF bound = "ok" THEN GoesOn(t, r, "node") ELSE Refuses(t, r, bound)
      PROVE  CommandsInv'
  <2>1. \/ answer = "none" /\ run.pending = NoId
        \/ answer \in {"settled", "refused"} /\ run.pending # NoId /\ effect[run.pending] = answer
    BY <1>5 DEF Reconciled
  <2>2. /\ r \in LiveRuns /\ r.held = run.held /\ r.pending = run.pending /\ r.node = run.node
        /\ r.resolved = IF answer = "none" THEN run.resolved ELSE answer
        /\ r.rt = IF run.rt = "NeedsOperator" THEN "Running" ELSE run.rt
        /\ r.answered = run.answered /\ r.cancelled = run.cancelled
        /\ r.cleanup = run.cleanup /\ r.steps = run.steps /\ r.calls = run.calls
    <3>1. /\ (IF answer = "none" THEN run.resolved ELSE answer) \in {"no", "settled", "refused"}
          /\ (IF run.rt = "NeedsOperator" THEN "Running" ELSE run.rt)
               \in {"Running", "Paused", "Completed", "Failed", "NeedsOperator"}
      BY <1>2, <2>1 DEF LiveRuns
    <3>2. QED
      BY <1>2, <3>1 DEF LiveRuns
  <2> HIDE DEF r
  <2>3. r.resolved = run.resolved \/ (run.pending # NoId /\ effect[run.pending] = r.resolved)
    BY <2>1, <2>2
  <2>4. r.rt = run.rt \/ (r.rt = "Running" /\ run.rt = "NeedsOperator")
    BY <2>2
  <2>5. CASE bound = "ok"
    <3>1. GoesOn(t, r, "node")
      BY <1>5, <2>5
    <3>2. QED
      BY <1>1, <2>2, <2>3, <2>4, <3>1, GoesOnKeeps
  <2>6. CASE bound # "ok"
    <3>1. Refuses(t, r, bound)
      BY <1>5, <2>6
    <3>2. run.node = "decide"
      BY <1>5, <2>6 DEF Bindings
    <3>3. QED
      BY <1>1, <2>2, <2>3, <2>4, <3>1, <3>2, EntersAndRefuses
  <2>7. QED
    BY <2>5, <2>6
<1> HIDE DEF r
<1>6. QED
  BY <1>3, <1>4, <1>5

\* Steps that touch neither the run nor its counters nor what is outside.
Apart ==
    /\ UNCHANGED <<setup, run, lock, effect, exchanges, lease>>
    /\ \A t \in Callers : Held(t)' <=> Held(t)
    /\ \A t \in Callers : Held(t) => caller'[t] = caller[t]

\* Such a step disturbs neither the lock nor what the run holds nor the lease.
LEMMA ApartKeeps ==
    ASSUME CommandsInv, Apart, CommandsTypes', registered' => registered
    PROVE  Locked' /\ Custody' /\ LeaseKept' /\ BudgetSpent' = BudgetSpent
           /\ Published(run)' = Published(run)
<1>1. Custody' /\ BudgetSpent' = BudgetSpent /\ Published(run)' = Published(run)
  BY DEF Apart, CommandsInv, Custody, BudgetSpent, Published
<1>2. Locked'
  <2>1. Locked
    BY DEF CommandsInv
  <2>2. ASSUME NEW t \in Callers, caller'[t].at \in {"exchange", "dispatch"}
        PROVE  caller'[t] = caller[t]
    BY <2>2 DEF Apart, Held
  <2>3. QED
    BY <2>1, <2>2 DEF Apart, Locked
<1>3. LeaseKept'
  <2>1. \A t \in Callers : caller[t].at = "node" => caller'[t].at = "node"
    BY DEF Apart, Held
  <2>2. QED
    BY <1>1, <2>1 DEF Apart, CommandsInv, LeaseKept, GivenUp
<1>4. QED
  BY <1>1, <1>2, <1>3

\* The lookup of a run that is gone leaves the command in flight.
LEMMA LookupKeeps ==
    ASSUME CommandsInv, UNCHANGED setup, NEW t \in Callers, Lookup(t)
    PROVE  CommandsInv'
<1>1. /\ caller[t].at = "accepted"
      /\ caller' = [caller EXCEPT ![t] = IF registered THEN [@ EXCEPT !.at = "found"] ELSE Idle]
      /\ UNCHANGED <<snapshot, row, expected, run, registered, lock, submission, effect, exchanges, lease>>
  BY DEF Lookup, outside
<1>2. CommandsTypes
  BY DEF CommandsInv
<1>3. caller[t] \in Working /\ caller[t] # Idle
  BY <1>1, <1>2 DEF CommandsTypes, Idle, Working, Recording
<1>4. /\ \A u \in Callers : u # t => caller'[u] = caller[u]
      /\ \/ ~registered /\ caller'[t] = Idle
         \/ /\ registered /\ caller'[t] \in Working /\ caller'[t].at = "found"
            /\ caller'[t].command = caller[t].command
      /\ caller' \in [Callers -> {Idle} \cup Working \cup Recording]
  BY <1>1, <1>2, <1>3 DEF CommandsTypes, Working, AtWork
<1>5. CommandsTypes'
  BY <1>1, <1>2, <1>4 DEF CommandsTypes
<1>6. Apart
  BY <1>1, <1>4 DEF Apart, Held, Idle
<1>7. RevisionsCountCommands'
  BY <1>1 DEF CommandsInv, RevisionsCountCommands
<1>8. CleanedUp'
  BY <1>1, <1>4 DEF CommandsInv, CleanedUp, Idle
<1>9. ASSUME ~setup.retry PROVE Solo'
  <2>1. Solo /\ \A u \in Callers : u # t => caller[u] = Idle /\ caller'[u] = Idle
    BY <1>3, <1>4, <1>9 DEF CommandsInv, Solo
  <2>2. Level
    BY <1>3 DEF Level, Working
  <2>3. StillHeld' = StillHeld /\ Published(run)' = Published(run)
    BY <1>1, <1>5, <1>6, ApartKeeps DEF StillHeld
  <2>4. \A u \in Callers : caller'[u] # Idle =>
          row'[caller'[u].command] = "inflight" /\ expected'[caller'[u].command] = snapshot'.revision
    BY <1>1, <1>3, <1>4, <2>1 DEF Solo
  <2>5. ~registered => \A u \in Callers : caller'[u].at \in {"idle", "accepted"}
    BY <1>4, <2>1 DEF Idle
  <2>6. \A u, v \in Callers : caller'[u] # Idle /\ caller'[v] # Idle => u = v
    BY <2>1
  <2>7. QED
    BY <1>1, <1>4, <2>1, <2>2, <2>3, <2>4, <2>5, <2>6 DEF Solo, Idle
<1>10. submission' = "aborting" => ~registered' /\ snapshot'.revision # 1
  BY <1>1 DEF CommandsInv
<1>11. QED
  BY <1>1, <1>5, <1>6, <1>7, <1>8, <1>9, <1>10, ApartKeeps DEF CommandsInv

\* A command that is refused before the port is called is released.
LEMMA HistoryFullKeeps ==
    ASSUME CommandsInv, UNCHANGED setup, NEW t \in Callers, HistoryFull(t)
    PROVE  CommandsInv'
<1>1. /\ caller[t].at = "accepted" /\ caller' = [caller EXCEPT ![t] = Idle]
      /\ row' = Released(caller[t].command)
      /\ UNCHANGED <<snapshot, expected, run, registered, lock, submission, effect, exchanges, lease>>
  BY DEF HistoryFull, outside
<1>2. CommandsTypes
  BY DEF CommandsInv
<1>3. caller[t] \in Working /\ caller[t] # Idle /\ caller[t].command \in Commands
  BY <1>1, <1>2 DEF CommandsTypes, Idle, Working, Recording
<1>4. /\ \A u \in Callers : u # t => caller'[u] = caller[u]
      /\ caller'[t] = Idle
      /\ caller' \in [Callers -> {Idle} \cup Working \cup Recording]
  BY <1>1, <1>2 DEF CommandsTypes
<1>5. /\ row' \in [Commands -> {"absent", "inflight", "released", "done"}]
      /\ \A c \in Commands : /\ row'[c] = "done" <=> row[c] = "done"
                             /\ row'[c] = "inflight" => row[c] = "inflight"
  BY <1>1, <1>2, <1>3 DEF CommandsTypes, Released
<1>6. CommandsTypes'
  BY <1>1, <1>2, <1>4, <1>5 DEF CommandsTypes
<1>7. Apart
  BY <1>1, <1>4 DEF Apart, Held, Idle
<1>8. RevisionsCountCommands'
  <2>1. {c \in Commands : row'[c] = "done"} = {c \in Commands : row[c] = "done"}
    BY <1>5
  <2>2. QED
    BY <1>1, <2>1 DEF CommandsInv, RevisionsCountCommands
<1>9. CleanedUp'
  BY <1>1, <1>4 DEF CommandsInv, CleanedUp, Idle
<1>10. ASSUME ~setup.retry PROVE Solo'
  <2>1. Solo /\ \A u \in Callers : caller'[u] = Idle
    BY <1>3, <1>4, <1>10 DEF CommandsInv, Solo
  <2>2. Level
    BY <1>3 DEF Level, Working
  <2>3. StillHeld' = StillHeld /\ Published(run)' = Published(run)
    BY <1>1, <1>6, <1>7, ApartKeeps DEF StillHeld
  <2>4. \A c, d \in Commands : row'[c] = "inflight" /\ row'[d] = "inflight" => c = d
    BY <1>5, <2>1 DEF Solo
  <2>5. QED
    BY <1>1, <2>1, <2>2, <2>3, <2>4 DEF Solo, Idle
<1>11. submission' = "aborting" => ~registered' /\ snapshot'.revision # 1
  BY <1>1 DEF CommandsInv
<1>12. QED
  BY <1>1, <1>6, <1>7, <1>8, <1>9, <1>10, <1>11, ApartKeeps DEF CommandsInv

\* A command is accepted: where none is sent again, no other one is in flight.
LEMMA AcceptKeeps ==
    ASSUME CommandsInv, UNCHANGED setup, NEW t \in Callers, NEW c \in setup.commands, Accept(t, c)
    PROVE  CommandsInv'
<1>1. /\ caller[t] = Idle /\ Admissible(c)
      /\ row' = [row EXCEPT ![c] = IF @ = "absent" THEN "inflight" ELSE @]
      /\ expected' = [expected EXCEPT ![c] = snapshot.revision]
      /\ caller' = [caller EXCEPT ![t] = [at |-> "accepted", command |-> c]]
      /\ UNCHANGED <<snapshot, run, registered, lock, submission, effect, exchanges, lease>>
  BY DEF Accept, outside
<1>2. CommandsTypes /\ c \in Commands /\ snapshot.revision \in Nat
  BY CommandAssumption DEF CommandsInv, CommandsTypes, Snapshots
<1>3. /\ \A u \in Callers : u # t => caller'[u] = caller[u]
      /\ caller'[t] \in Working /\ caller'[t].at = "accepted" /\ caller'[t].command = c
      /\ caller' \in [Callers -> {Idle} \cup Working \cup Recording]
  BY <1>1, <1>2 DEF CommandsTypes, Working, AtWork
<1>4. /\ row' \in [Commands -> {"absent", "inflight", "released", "done"}]
      /\ \A d \in Commands : /\ row'[d] = "done" <=> row[d] = "done"
                             /\ d # c => row'[d] = row[d]
      /\ expected' \in [Commands -> Nat] /\ expected'[c] = snapshot.revision
      /\ row[c] = "absent" => row'[c] = "inflight"
  BY <1>1, <1>2 DEF CommandsTypes
<1>5. CommandsTypes'
  BY <1>1, <1>2, <1>3, <1>4 DEF CommandsTypes
<1>6. Apart
  BY <1>1, <1>3 DEF Apart, Held, Idle
<1>7. RevisionsCountCommands'
  <2>1. {d \in Commands : row'[d] = "done"} = {d \in Commands : row[d] = "done"}
    BY <1>4
  <2>2. QED
    BY <1>1, <2>1 DEF CommandsInv, RevisionsCountCommands
<1>8. CleanedUp'
  BY <1>1, <1>3 DEF CommandsInv, CleanedUp
<1>9. ASSUME ~setup.retry PROVE Solo'
  <2>1. Solo
    BY <1>9 DEF CommandsInv
  <2>2. row[c] = "absent" /\ \A d \in Commands : row[d] # "inflight"
    BY <1>1, <1>9 DEF Admissible
  <2>3. \A u \in Callers : caller[u] = Idle
    <3>1. ASSUME NEW u \in Callers, caller[u] # Idle PROVE FALSE
      <4>1. caller[u].command \in Commands /\ row[caller[u].command] = "inflight"
        BY <1>2, <2>1, <3>1 DEF CommandsTypes, Working, Recording, Solo
      <4>2. QED
        BY <2>2, <4>1
    <3>2. QED
      BY <3>1
  <2>4. Level /\ Level'
    BY <1>3, <2>2 DEF Level, Working
  <2>5. StillHeld' = StillHeld /\ Published(run)' = Published(run)
    BY <1>1, <1>5, <1>6, ApartKeeps DEF StillHeld
  <2>6. \A u, v \in Callers : caller'[u] # Idle /\ caller'[v] # Idle => u = v
    BY <1>3, <2>3
  <2>7. \A d, e \in Commands : row'[d] = "inflight" /\ row'[e] = "inflight" => d = e
    BY <1>4, <2>2
  <2>8. \A u \in Callers : caller'[u] # Idle =>
          row'[caller'[u].command] = "inflight" /\ expected'[caller'[u].command] = snapshot'.revision
    BY <1>1, <1>3, <1>4, <2>2, <2>3
  <2>9. \A u \in Callers : caller'[u].at \in {"idle", "accepted"}
    BY <1>3, <2>3 DEF Idle
  <2>10. QED
    BY <1>1, <2>1, <2>4, <2>5, <2>6, <2>7, <2>8, <2>9 DEF Solo
<1>10. submission' = "aborting" => ~registered' /\ snapshot'.revision # 1
  BY <1>1 DEF CommandsInv
<1>11. QED
  BY <1>1, <1>5, <1>6, <1>7, <1>8, <1>9, <1>10, ApartKeeps DEF CommandsInv

\* The revision and the number of commands with a response.
LEMMA DoneCount ==
    ASSUME CommandsInv
    PROVE  /\ IsFiniteSet({c \in Commands : row[c] = "done"})
           /\ Cardinality({c \in Commands : row[c] = "done"}) \in 0..Cardinality(Commands)
           /\ snapshot.revision \in 1..(Cardinality(Commands) + 1)
<1> DEFINE done == {c \in Commands : row[c] = "done"}
<1>1. IsFiniteSet(Commands) /\ done \subseteq Commands
  BY CommandAssumption
<1>2. IsFiniteSet(done) /\ Cardinality(done) <= Cardinality(Commands)
  BY <1>1, FS_Subset
<1>3. Cardinality(done) \in Nat /\ Cardinality(Commands) \in Nat
  BY <1>1, <1>2, FS_CardinalityType
<1>4. snapshot.revision = 1 + Cardinality(done)
  BY DEF CommandsInv, RevisionsCountCommands
<1> HIDE DEF done
<1>5. Cardinality(done) \in 0..Cardinality(Commands)
      /\ snapshot.revision \in 1..(Cardinality(Commands) + 1)
  BY <1>2, <1>3, <1>4
<1>6. QED
  BY <1>2, <1>5 DEF done

\* What was applied is recorded if its revision is the next one.
LEMMA RecordKeeps ==
    ASSUME CommandsInv, UNCHANGED setup, NEW t \in Callers, Record(t)
    PROVE  CommandsInv'
<1> DEFINE c == caller[t].command
           a == caller[t].application
<1>1. /\ caller[t].at = "record" /\ caller' = [caller EXCEPT ![t] = Idle]
      /\ \/ row[c] # "done" /\ Fits(a) /\ snapshot' = a /\ row' = [row EXCEPT ![c] = "done"]
         \/ ~(row[c] # "done" /\ Fits(a)) /\ UNCHANGED <<snapshot, row>>
      /\ UNCHANGED <<expected, run, registered, lock, submission, effect, exchanges, lease>>
  BY DEF Record, outside
<1>2. CommandsTypes
  BY DEF CommandsInv
<1>3. caller[t] \in Recording /\ caller[t] # Idle /\ c \in Commands /\ a \in Snapshots
  BY <1>1, <1>2 DEF CommandsTypes, Idle, Working, AtWork, Recording
<1>4. /\ \A u \in Callers : u # t => caller'[u] = caller[u]
      /\ caller'[t] = Idle
      /\ caller' \in [Callers -> {Idle} \cup Working \cup Recording]
  BY <1>1, <1>2 DEF CommandsTypes
<1>5. /\ row' \in [Commands -> {"absent", "inflight", "released", "done"}]
      /\ snapshot' \in Snapshots
      /\ \A d \in Commands : row'[d] = "inflight" => row[d] = "inflight"
  BY <1>1, <1>2, <1>3 DEF CommandsTypes
<1>6. CommandsTypes'
  BY <1>1, <1>2, <1>4, <1>5 DEF CommandsTypes
<1>7. Apart
  BY <1>1, <1>4 DEF Apart, Held, Idle
<1>8. RevisionsCountCommands'
  <2>1. CASE row[c] # "done" /\ Fits(a) /\ snapshot' = a /\ row' = [row EXCEPT ![c] = "done"]
    <3> DEFINE done == {d \in Commands : row[d] = "done"}
    <3>1. {d \in Commands : row'[d] = "done"} = done \cup {c}
      BY <1>2, <1>3, <2>1 DEF CommandsTypes
    <3>2. IsFiniteSet(done) /\ c \notin done /\ Cardinality(done) \in Nat
      BY <2>1, DoneCount, FS_CardinalityType
    <3>3. Cardinality(done \cup {c}) = Cardinality(done) + 1
      BY <3>2, FS_AddElement
    <3>4. snapshot.revision = 1 + Cardinality(done) /\ snapshot'.revision = snapshot.revision + 1
      BY <2>1 DEF CommandsInv, RevisionsCountCommands, Fits
    <3> HIDE DEF done
    <3>5. snapshot'.revision = 1 + Cardinality(done \cup {c})
      BY <3>2, <3>3, <3>4
    <3>6. QED
      BY <3>1, <3>5 DEF RevisionsCountCommands
  <2>2. CASE UNCHANGED <<snapshot, row>>
    BY <2>2 DEF CommandsInv, RevisionsCountCommands
  <2>3. QED
    BY <1>1, <2>1, <2>2
<1>9. CleanedUp'
  BY <1>1, <1>4 DEF CommandsInv, CleanedUp, Idle
<1>10. snapshot.revision # 1 => snapshot'.revision # 1
  BY <1>1, DoneCount DEF Fits
<1>11. ASSUME ~setup.retry PROVE Solo'
  <2>1. Solo /\ \A u \in Callers : caller'[u] = Idle
    BY <1>3, <1>4, <1>11 DEF CommandsInv, Solo
  <2>2. /\ row[c] = "inflight" /\ a.revision = snapshot.revision + 1
        /\ a.pending = Published(run) /\ (a.status \in Live => StillHeld)
    BY <1>1, <1>3, <2>1 DEF Solo
  <2>3. snapshot' = a
    BY <1>1, <2>2 DEF Fits
  <2>4. StillHeld' = StillHeld /\ Published(run)' = Published(run)
    BY <1>1, <1>6, <1>7, ApartKeeps DEF StillHeld
  <2>5. \A d, e \in Commands : row'[d] = "inflight" /\ row'[e] = "inflight" => d = e
    BY <1>5, <2>1 DEF Solo
  <2>6. snapshot'.revision # 1
    BY <2>2, <2>3, DoneCount
  <2>7. QED
    BY <2>1, <2>2, <2>3, <2>4, <2>5, <2>6 DEF Solo, Idle
<1>12. submission' = "aborting" => ~registered' /\ snapshot'.revision # 1
  BY <1>1, <1>10 DEF CommandsInv
<1>13. QED
  BY <1>1, <1>6, <1>7, <1>8, <1>9, <1>11, <1>12, ApartKeeps DEF CommandsInv

\* What was applied is not recorded: its command stays in flight with no thread at work.
LEMMA RecordFailsKeeps ==
    ASSUME CommandsInv, UNCHANGED setup, NEW t \in Callers, RecordFails(t)
    PROVE  CommandsInv'
<1>1. /\ caller[t].at = "record" /\ caller' = [caller EXCEPT ![t] = Idle]
      /\ UNCHANGED <<snapshot, row, expected, run, registered, lock, submission, effect,
                     exchanges, lease>>
  BY DEF RecordFails, outside, durable
<1>2. CommandsTypes
  BY DEF CommandsInv
<1>3. caller[t] \in Recording /\ caller[t] # Idle /\ caller[t].command \in Commands
  BY <1>1, <1>2 DEF CommandsTypes, Idle, Working, AtWork, Recording
<1>4. /\ \A u \in Callers : u # t => caller'[u] = caller[u]
      /\ caller'[t] = Idle
      /\ caller' \in [Callers -> {Idle} \cup Working \cup Recording]
  BY <1>1, <1>2 DEF CommandsTypes
<1>5. CommandsTypes'
  BY <1>1, <1>2, <1>4 DEF CommandsTypes
<1>6. Apart
  BY <1>1, <1>4 DEF Apart, Held, Idle
<1>7. RevisionsCountCommands'
  BY <1>1 DEF CommandsInv, RevisionsCountCommands
<1>8. CleanedUp'
  BY <1>1, <1>4 DEF CommandsInv, CleanedUp, Idle
<1>9. ASSUME ~setup.retry PROVE Solo'
  <2>1. Solo /\ \A u \in Callers : caller'[u] = Idle
    BY <1>3, <1>4, <1>9 DEF CommandsInv, Solo
  <2>2. row'[caller[t].command] = "inflight"
    BY <1>1, <1>3, <2>1 DEF Solo
  <2>3. ~Level'
    BY <1>3, <2>1, <2>2 DEF Level, AtWork, Idle
  <2>4. Published(run)' = Published(run)
    BY <1>1 DEF Published
  <2>5. QED
    BY <1>1, <2>1, <2>3, <2>4 DEF Solo, Idle
<1>10. submission' = "aborting" => ~registered' /\ snapshot'.revision # 1
  BY <1>1 DEF CommandsInv
<1>11. QED
  BY <1>1, <1>5, <1>6, <1>7, <1>8, <1>9, <1>10, ApartKeeps DEF CommandsInv

\* The submission writes its last snapshot while the run has taken no command.
LEMMA SubmissionRecordedKeeps ==
    ASSUME CommandsInv, UNCHANGED setup, SubmissionRecorded
    PROVE  CommandsInv'
<1>1. /\ snapshot.revision = 1 /\ submission' = "done"
      /\ snapshot' = [snapshot EXCEPT !.status = "Running", !.pending = NoId]
      /\ UNCHANGED <<row, expected, run, registered, lock, caller, effect, exchanges, lease>>
  BY DEF SubmissionRecorded, outside
<1>2. CommandsTypes
  BY DEF CommandsInv
<1>3. /\ snapshot' \in Snapshots /\ snapshot'.revision = snapshot.revision
      /\ snapshot'.status = "Running" /\ snapshot'.pending = NoId
      /\ snapshot'.cleanup = snapshot.cleanup
  BY <1>1, <1>2 DEF CommandsTypes, Snapshots, Statuses
<1>4. CommandsTypes'
  BY <1>1, <1>2, <1>3 DEF CommandsTypes
<1>5. Apart
  BY <1>1 DEF Apart, Held
<1>6. RevisionsCountCommands' /\ CleanedUp'
  BY <1>1, <1>3 DEF CommandsInv, RevisionsCountCommands, CleanedUp
<1>7. ASSUME ~setup.retry PROVE Solo'
  <2>1. Solo
    BY <1>7 DEF CommandsInv
  <2>2. /\ StillHeld' = StillHeld /\ Published(run)' = Published(run)
        /\ Level' = Level
    BY <1>1, <1>4, <1>5, ApartKeeps DEF StillHeld, Level
  <2>3. Published(run) = NoId /\ "Running" \in Live
    BY <1>1, <2>1 DEF Solo, Published, Live
  <2>4. QED
    BY <1>1, <1>3, <2>1, <2>2, <2>3 DEF Solo
<1>8. QED
  BY <1>1, <1>4, <1>5, <1>6, <1>7, ApartKeeps DEF CommandsInv

\* A submission that lost the race unregisters the run.
LEMMA SubmissionAbortsKeeps ==
    ASSUME CommandsInv, UNCHANGED setup, SubmissionAborts
    PROVE  CommandsInv'
<1>1. /\ snapshot.revision # 1 /\ submission' = "aborting" /\ ~registered' /\ registered' \in BOOLEAN
      /\ UNCHANGED <<snapshot, row, expected, run, lock, caller, effect, exchanges, lease>>
  BY DEF SubmissionAborts, outside, durable
<1>2. CommandsTypes'
  BY <1>1 DEF CommandsInv, CommandsTypes
<1>3. Apart
  BY <1>1 DEF Apart, Held
<1>4. RevisionsCountCommands' /\ CleanedUp'
  BY <1>1 DEF CommandsInv, RevisionsCountCommands, CleanedUp
<1>5. ASSUME ~setup.retry PROVE Solo'
  <2>1. Solo
    BY <1>5 DEF CommandsInv
  <2>2. StillHeld' /\ Published(run)' = Published(run)
    BY <1>1, <1>2, <1>3, ApartKeeps DEF StillHeld
  <2>3. QED
    BY <1>1, <2>1, <2>2 DEF Solo
<1>6. QED
  BY <1>1, <1>2, <1>3, <1>4, <1>5, ApartKeeps DEF CommandsInv

\* The cleanup of a run that is no longer registered.
LEMMA AbortCleanupKeeps ==
    ASSUME CommandsInv, UNCHANGED setup, NEW ok \in BOOLEAN, AbortCleanup(ok)
    PROVE  CommandsInv'
<1>1. /\ submission = "aborting" /\ submission' = "done" /\ lock = NoCaller
      /\ run' = Cleaned(run, ok) /\ lease' \in LeasesAfter(ok)
      /\ UNCHANGED <<snapshot, row, expected, registered, lock, caller, effect, exchanges>>
  BY DEF AbortCleanup, durable
<1>2. CommandsTypes /\ ~registered /\ snapshot.revision # 1 /\ run \in LiveRuns
  BY <1>1 DEF CommandsInv, CommandsTypes
<1>3. /\ run' \in LiveRuns /\ run'.held = run.held /\ run'.pending = run.pending
      /\ run'.node = run.node /\ run'.resolved = run.resolved /\ run'.answered = run.answered
      /\ run'.cancelled = run.cancelled /\ run'.rt = run.rt
      /\ run'.cleanup = IF ok THEN "Complete" ELSE "NeedsOperator"
      /\ run'.steps = run.steps /\ run'.calls = run.calls
  BY <1>1, <1>2 DEF Cleaned, LiveRuns, Cleanups
<1>4. lease' \in {lease, "released"} /\ (ok => lease' = "released")
  BY <1>1 DEF LeasesAfter
<1>5. CommandsTypes'
  BY <1>1, <1>2, <1>3, <1>4 DEF CommandsTypes
<1>6. RevisionsCountCommands' /\ LeaseKept'
  BY <1>1, <1>2 DEF CommandsInv, RevisionsCountCommands, LeaseKept
<1>7. Locked' /\ Custody'
  BY <1>1, <1>3 DEF CommandsInv, Locked, Held, Custody, Keeps
<1>8. CleanedUp'
  BY <1>1, <1>2, <1>3, <1>4 DEF CommandsInv, CleanedUp, CommandsTypes
<1>9. ASSUME ~setup.retry PROVE Solo'
  <2>1. Solo /\ StillHeld' /\ Published(run)' = Published(run)
    BY <1>1, <1>2, <1>3, <1>9 DEF CommandsInv, StillHeld, Published
  <2>2. QED
    BY <1>1, <1>2, <2>1 DEF Solo
<1>10. QED
  BY <1>1, <1>5, <1>6, <1>7, <1>8, <1>9 DEF CommandsInv

\* The game settles what the run does not know the outcome of.
LEMMA GameResolvesKeeps ==
    ASSUME CommandsInv, UNCHANGED setup, NEW i \in Ids, NEW how \in {"settled", "refused"},
           GameResolves(i, how)
    PROVE  CommandsInv'
<1>1. /\ effect[i] = "open" /\ effect' = [effect EXCEPT ![i] = how]
      /\ UNCHANGED <<snapshot, row, expected, run, registered, lock, caller, submission, exchanges, lease>>
  BY DEF GameResolves, durable
<1>2. CommandsTypes /\ run \in LiveRuns
  BY DEF CommandsInv, CommandsTypes
<1>3. effect' \in Effects /\ effect'[i] = how /\ \A j \in Ids : j # i => effect'[j] = effect[j]
  BY <1>1, <1>2 DEF CommandsTypes, Effects
<1>4. CommandsTypes'
  BY <1>1, <1>2, <1>3 DEF CommandsTypes
<1>5. Custody'
  BY <1>1, <1>2, <1>3 DEF CommandsInv, Custody, Keeps, LiveRuns
<1>6. RevisionsCountCommands' /\ CleanedUp' /\ Locked'
  BY <1>1 DEF CommandsInv, RevisionsCountCommands, CleanedUp, Locked, Held
<1>7. LeaseKept'
  BY <1>1 DEF CommandsInv, LeaseKept, GivenUp, BudgetSpent
<1>8. ~setup.retry => Solo'
  BY <1>1 DEF CommandsInv, Solo, StillHeld, BudgetSpent, Level, Published
<1>9. QED
  BY <1>1, <1>4, <1>5, <1>6, <1>7, <1>8 DEF CommandsInv

\* A crash loses the threads; what was about to be sent may have been.
LEMMA CrashKeeps ==
    ASSUME CommandsInv, UNCHANGED setup, Crash
    PROVE  CommandsInv'
<1>1. /\ ~registered' /\ registered' \in BOOLEAN /\ caller' = [t \in Callers |-> Idle]
      /\ lock' = NoCaller /\ submission' = "done"
      /\ UNCHANGED <<snapshot, row, expected, run, exchanges, lease>>
      /\ effect' \in [Ids -> {"open"} \cup {effect[i] : i \in Ids}]
      /\ \A i \in Ids : effect'[i] = effect[i] \/ (effect[i] = "intent" /\ effect'[i] = "open")
  BY DEF Crash, durable
<1>2. CommandsTypes /\ run \in LiveRuns
  BY DEF CommandsInv, CommandsTypes
<1>3. \A t \in Callers : caller'[t] = Idle /\ Idle.at = "idle"
  BY <1>1 DEF Idle
<1>4. effect' \in Effects
  BY <1>1, <1>2 DEF CommandsTypes, Effects
<1>5. CommandsTypes'
  BY <1>1, <1>2, <1>4 DEF CommandsTypes
<1>6. Custody'
  BY <1>1, <1>2 DEF CommandsInv, Custody, Keeps, LiveRuns
<1>7. RevisionsCountCommands' /\ LeaseKept'
  BY <1>1 DEF CommandsInv, RevisionsCountCommands, LeaseKept
<1>8. Locked' /\ CleanedUp'
  BY <1>1, <1>3, CommandAssumption DEF CommandsInv, Locked, Held, CleanedUp
<1>9. ASSUME ~setup.retry PROVE Solo'
  <2>1. Solo /\ StillHeld' /\ Published(run)' = Published(run)
    BY <1>1, <1>9 DEF CommandsInv, StillHeld, Published
  <2>2. QED
    BY <1>1, <1>3, <2>1 DEF Solo
<1>10. QED
  BY <1>1, <1>5, <1>6, <1>7, <1>8, <1>9 DEF CommandsInv

\* The run starts with its lease, nothing held and no command at work.
LEMMA CommandsInvStarts == CommandsInit => CommandsInv
<1> SUFFICES ASSUME CommandsInit PROVE CommandsInv
  OBVIOUS
<1>1. /\ snapshot.revision = 1 /\ snapshot.pending = NoId /\ snapshot.cleanup = "NotStarted"
      /\ snapshot.status = "Created"
      /\ run.held = NoId /\ run.pending = NoId /\ run.resolved = "no" /\ run.node = "observe"
      /\ run.cleanup = "NotStarted" /\ lease = "held" /\ submission = "registered" /\ registered
      /\ lock = NoCaller
  BY DEF CommandsInit
<1>2. CommandsTypes
  <2>1. snapshot \in Snapshots
    BY DEF CommandsInit, Snapshots, Statuses, Cleanups
  <2>2. run \in LiveRuns
    BY DEF CommandsInit, LiveRuns, Cleanups, Nodes
  <2>3. QED
    BY <2>1, <2>2 DEF CommandsInit, CommandsTypes, Effects
<1>3. \A t \in Callers : caller[t] = Idle /\ caller[t].at = "idle"
  BY DEF CommandsInit, Idle
<1>4. RevisionsCountCommands
  <2>1. {c \in Commands : row[c] = "done"} = {}
    BY DEF CommandsInit
  <2>2. Cardinality({}) = 0
    BY FS_EmptySet
  <2>3. QED
    BY <1>1, <2>1, <2>2 DEF RevisionsCountCommands
<1>5. Locked
  BY <1>1, <1>3, CommandAssumption DEF Locked, Held
<1>6. Custody
  BY <1>1 DEF CommandsInit, Custody, Keeps
<1>7. CleanedUp /\ LeaseKept
  BY <1>1, <1>3 DEF CleanedUp, LeaseKept
<1>8. Solo
  <2>1. Published(run) = NoId
    BY <1>1 DEF Published
  <2>2. \A c \in Commands : row[c] # "inflight"
    BY DEF CommandsInit
  <2>3. QED
    BY <1>1, <1>3, <2>1, <2>2 DEF Solo, StillHeld, Live
<1>9. QED
  BY <1>1, <1>2, <1>4, <1>5, <1>6, <1>7, <1>8 DEF CommandsInv

\* A step of a node keeps the invariant, whatever the provider, the game and the cleanup do.
LEMMA NodeStepKeeps ==
    ASSUME CommandsInv, UNCHANGED setup, NEW t \in Callers, NodeStep(t)
    PROVE  CommandsInv'
<1>1. ASSUME NEW ok \in BOOLEAN,
             \/ NotSteppable(t, ok) \/ StepsExhausted(t, ok) \/ End(t, ok) \/ InstallPending(t, ok)
      PROVE  CommandsInv'
  BY <1>1, NotSteppableKeeps, StepsExhaustedKeeps, EndKeeps, InstallPendingKeeps
<1>2. ASSUME NEW ok \in BOOLEAN, NEW seen \in BOOLEAN,
             Observe(t, seen, ok) \/ HoldAttempt(t, seen, ok)
      PROVE  CommandsInv'
  BY <1>2, ObserveKeeps, HoldAttemptKeeps
<1>3. ASSUME NEW ok \in BOOLEAN, NEW catalog \in {"same", "changed", "unreadable"},
             RetryHeld(t, catalog, ok)
      PROVE  CommandsInv'
  BY <1>3, RetryHeldKeeps
<1>4. ASSUME NEW ok \in BOOLEAN, NEW reply \in Replies, Exchange(t, reply, ok)
      PROVE  CommandsInv'
  BY <1>4, ExchangeKeeps
<1>5. ASSUME NEW ok \in BOOLEAN, NEW verified \in BOOLEAN, FinishPending(t, verified, ok)
      PROVE  CommandsInv'
  BY <1>5, FinishPendingKeeps
<1>6. ASSUME NEW ok \in BOOLEAN, NEW receipt \in {"settled", "refused", "unknown"},
             NEW verified \in BOOLEAN, Dispatch(t, receipt, verified, ok)
      PROVE  CommandsInv'
  BY <1>6, DispatchKeeps
<1>7. QED
  BY <1>1, <1>2, <1>3, <1>4, <1>5, <1>6 DEF NodeStep

\* A step of a thread that serves a command keeps the invariant.
LEMMA CallerStepKeeps ==
    ASSUME CommandsInv, UNCHANGED setup, NEW t \in Callers, CallerStep(t)
    PROVE  CommandsInv'
<1>1. ASSUME \/ Lookup(t) \/ HistoryFull(t) \/ Record(t) \/ RecordFails(t)
             \/ Pause(t) \/ Resume(t)
      PROVE  CommandsInv'
  BY <1>1, LookupKeeps, HistoryFullKeeps, RecordKeeps, RecordFailsKeeps, PauseKeeps
<1>2. ASSUME NEW kind \in Kinds \ {"cancel"}, CancelDominates(t, kind)
      PROVE  CommandsInv'
  BY <1>2, CancelDominatesKeeps
<1>3. ASSUME NEW answer \in {"none", "unknown", "other", "settled", "refused"},
             NEW ok \in BOOLEAN, Cancel(t, answer, ok)
      PROVE  CommandsInv'
  BY <1>3, CancelKeeps
<1>4. ASSUME NEW answer \in {"none", "unknown", "other", "settled", "refused"},
             NEW bound \in {"ok", "Unavailable", "Unresolved"}, StepBegins(t, answer, bound)
      PROVE  CommandsInv'
  BY <1>4, StepBeginsKeeps
<1>5. QED
  BY <1>1, <1>2, <1>3, <1>4, NodeStepKeeps DEF CallerStep

\* Every step keeps the invariant.
LEMMA CommandsInvKept == CommandsInv /\ [CommandsNext]_commandsVars => CommandsInv'
<1> SUFFICES ASSUME CommandsInv, [CommandsNext]_commandsVars PROVE CommandsInv'
  OBVIOUS
<1>1. CASE UNCHANGED commandsVars
  BY <1>1 DEF commandsVars, CommandsInv, CommandsTypes, RevisionsCountCommands, Locked, Held,
     Custody, Keeps, CleanedUp, LeaseKept, GivenUp, BudgetSpent, Solo, Level, StillHeld,
     Published
<1>2. ASSUME UNCHANGED setup, NEW t \in Callers, CallerStep(t)
      PROVE  CommandsInv'
  BY <1>2, CallerStepKeeps
<1>3. ASSUME UNCHANGED setup, NEW t \in Callers, NEW c \in setup.commands, Accept(t, c)
      PROVE  CommandsInv'
  BY <1>3, AcceptKeeps
<1>4. ASSUME UNCHANGED setup, SubmissionRecorded \/ SubmissionAborts
      PROVE  CommandsInv'
  BY <1>4, SubmissionRecordedKeeps, SubmissionAbortsKeeps
<1>5. ASSUME UNCHANGED setup, NEW ok \in BOOLEAN, AbortCleanup(ok)
      PROVE  CommandsInv'
  BY <1>5, AbortCleanupKeeps
<1>6. ASSUME UNCHANGED setup, NEW i \in Ids, NEW how \in {"settled", "refused"}, GameResolves(i, how)
      PROVE  CommandsInv'
  BY <1>6, GameResolvesKeeps
<1>7. ASSUME UNCHANGED setup, Crash
      PROVE  CommandsInv'
  BY <1>7, CrashKeeps
<1>8. QED
  BY <1>1, <1>2, <1>3, <1>4, <1>5, <1>6, <1>7 DEF CommandsNext, CommandsStep

\* What may stand outside is the one identity that the live run holds.
LEMMA OpenIsHeld ==
    ASSUME CommandsInv, NEW i \in Ids, effect[i] \in {"intent", "open"}
    PROVE  i = Published(run) /\ i # NoId
<1>1. Custody
  BY DEF CommandsInv
<1>2. i \in {run.held, run.pending} /\ i # NoId
  BY <1>1, CommandAssumption DEF Custody, Keeps, Ids, NoId
<1>3. QED
  BY <1>1, <1>2, PublishedIs

\* The invariant is strong enough.
LEMMA CommandsInvSound == CommandsInv => CommandsSound
<1> SUFFICES ASSUME CommandsInv PROVE CommandsSound
  OBVIOUS
<1>1. CommandsTypeOK
  BY DoneCount DEF CommandsInv, CommandsTypes, CommandsTypeOK, Snapshots, LiveRuns, Effects
<1>2. OneOpenEffect
  <2> DEFINE S == {i \in Ids : effect[i] \in {"intent", "open"}}
             x == Published(run)
  <2>1. S \subseteq {x}
    BY OpenIsHeld
  <2>2. IsFiniteSet({x}) /\ Cardinality({x}) = 1
    BY FS_Singleton
  <2>3. Cardinality(S) <= Cardinality({x})
    BY <2>1, <2>2, FS_Subset
  <2>4. QED
    BY <2>2, <2>3 DEF OneOpenEffect
<1>3. OpenEffectDurable
  BY OpenIsHeld DEF OpenEffectDurable, CommandsInv, Solo
<1>4. AdmissionHonest
  <2>1. ASSUME RecoveryAdmission = "SafelyResumable"
        PROVE  registered /\ snapshot.pending = NoId /\ snapshot.status \in {"Running", "Paused"}
    <3>1. LiveAdmission = "SafelyResumable"
      BY <2>1 DEF RecoveryAdmission
    <3>2. CASE snapshot.pending # NoId
      BY <3>1, <3>2 DEF LiveAdmission
    <3>3. CASE snapshot.pending = NoId
      BY <3>1, <3>3 DEF LiveAdmission
    <3>4. QED
      BY <3>2, <3>3
  <2>2. ASSUME RecoveryAdmission = "SafelyResumable", ~setup.retry
        PROVE  lease = "held" \/ BudgetSpent \/ \E c \in Commands : row[c] = "inflight"
    BY <2>1, <2>2 DEF CommandsInv, Solo, Level, StillHeld, Live
  <2>3. ASSUME RecoveryAdmission = "SafelyResumable", ~setup.retry, NEW i \in Ids
        PROVE  effect[i] # "open"
    BY <2>1, <2>3, <1>3, OpenIsHeld DEF OpenEffectDurable
  <2>4. ASSUME RecoveryAdmission = "TerminalVerifiedCleanup"
        PROVE  lease = "released"
    <3>1. LiveAdmission # "TerminalVerifiedCleanup"
      BY DEF LiveAdmission
    <3>2. snapshot.cleanup = "Complete"
      BY <2>4, <3>1 DEF RecoveryAdmission
    <3>3. QED
      BY <3>2 DEF CommandsInv, CleanedUp
  <2>5. QED
    BY <2>2, <2>3, <2>4 DEF AdmissionHonest
<1>5. QED
  BY <1>1, <1>2, <1>3, <1>4 DEF CommandsSound, CommandsInv

\* Only a step that holds the lock of a run that was not cancelled prepares an identity.
LEMMA CancelledKeepsUnused ==
    ASSUME CommandsInv, CommandsNext, run.cancelled, NEW i \in Ids, effect[i] = "unused"
    PROVE  effect'[i] = "unused"
<1>1. \A t \in Callers : caller[t].at \notin {"node", "exchange", "dispatch"}
  BY DEF CommandsInv, Locked, Held
<1>2. ASSUME NEW t \in Callers PROVE ~NodeStep(t)
  <2>1. caller[t].at \notin {"node", "exchange", "dispatch"}
    BY <1>1
  <2>2. ASSUME NEW ok PROVE ~NotSteppable(t, ok) /\ ~StepsExhausted(t, ok)
    BY <2>1 DEF NotSteppable, StepsExhausted
  <2>3. ASSUME NEW ok PROVE ~End(t, ok) /\ ~InstallPending(t, ok)
    BY <2>1 DEF End, InstallPending, AtNode
  <2>4. ASSUME NEW ok, NEW seen PROVE ~Observe(t, seen, ok) /\ ~HoldAttempt(t, seen, ok)
    BY <2>1 DEF Observe, HoldAttempt, AtNode
  <2>5. ASSUME NEW ok, NEW x PROVE ~RetryHeld(t, x, ok) /\ ~FinishPending(t, x, ok)
    BY <2>1 DEF RetryHeld, FinishPending, AtNode
  <2>6. ASSUME NEW ok, NEW reply PROVE ~Exchange(t, reply, ok)
    BY <2>1 DEF Exchange
  <2>7. ASSUME NEW ok, NEW receipt, NEW verified PROVE ~Dispatch(t, receipt, verified, ok)
    BY <2>1 DEF Dispatch
  <2>8. QED
    BY <2>2, <2>3, <2>4, <2>5, <2>6, <2>7 DEF NodeStep
<1>3. ASSUME NEW t \in Callers, CallerStep(t)
      PROVE  effect' = effect
  BY <1>2, <1>3 DEF CallerStep, Lookup, HistoryFull, Record, RecordFails, Pause, Resume, CancelDominates,
     Cancel, StepBegins, outside
<1>4. ASSUME NEW t \in Callers, NEW c \in setup.commands, Accept(t, c)
      PROVE  effect' = effect
  BY <1>4 DEF Accept, outside
<1>5. ASSUME SubmissionRecorded \/ SubmissionAborts \/ \E ok \in BOOLEAN : AbortCleanup(ok)
      PROVE  effect' = effect
  BY <1>5 DEF SubmissionRecorded, SubmissionAborts, AbortCleanup, outside
<1>6. ASSUME NEW j \in Ids, NEW how \in {"settled", "refused"}, GameResolves(j, how)
      PROVE  effect'[i] = "unused"
  BY <1>6 DEF GameResolves, CommandsInv, CommandsTypes, Effects
<1>7. ASSUME Crash
      PROVE  effect'[i] = "unused"
  BY <1>7 DEF Crash
<1>8. QED
  BY <1>3, <1>4, <1>5, <1>6, <1>7 DEF CommandsNext, CommandsStep

\* However many threads, commands and limits there are, the invariant holds of every live run
\* (execution_commands.rs, store_sqlite_ops.rs, service_ops.rs).
THEOREM CommandsInvariant == CommandsSpec => []CommandsInv
BY CommandsInvStarts, CommandsInvKept, PTL DEF CommandsSpec

\* At most one exchange or action may stand, what may stand is durable, and every revision is
\* a recorded command.  A run that `status` calls resumable has nothing open and has its lease,
\* but for a spent budget or a command still in flight, as one stays whose record failed; a
\* cleanup it calls verified gave the lease back (recovery_admission, apply_command).
THEOREM CommandsStaySound == CommandsSpec => []CommandsSound
BY CommandsInvariant, CommandsInvSound, PTL

\* A cancelled run prepares and sends nothing more (cancel_dominates).
THEOREM CancelledSendsNothingMore == CommandsSpec => CancelledSendsNothing
<1>1. CommandsInv /\ [CommandsNext]_commandsVars =>
        [run.cancelled => \A i \in Ids : effect[i] = "unused" => effect'[i] = "unused"]_commandsVars
  BY CancelledKeepsUnused
<1>2. QED
  BY <1>1, CommandsInvariant, PTL DEF CommandsSpec, CancelledSendsNothing
=============================================================================
