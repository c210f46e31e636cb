------------------------------- MODULE Engine -------------------------------
(***************************************************************************)
(* The Host engine: execution/engine.ts with execution/instance.ts, and the *)
(* plan authority and planner of composition/.                              *)
(*                                                                         *)
(* Commands (apply, start, stop) run one at a time.  A command seals and    *)
(* disposes the instances it affects, prepares new ones layer by layer,     *)
(* publishes them all or undoes them and restores the old declarations; if  *)
(* neither works the Host is quarantined for good.  In between, plugins     *)
(* settle, borrow, fail to release, and deadlines pass.                     *)
(*                                                                         *)
(* A plugin instance is an installation and a generation.  Its lifetime is  *)
(* taken at the level of Lifetime.tla's root scope: what that module shows  *)
(* of a root (verdicts, borrows, escalation) is what an instance does here. *)
(***************************************************************************)
EXTENDS Integers, FiniteSets, Sequences

CONSTANTS
    Installations,  \* installation records
    Services,       \* service contracts
    Graphs,         \* compositions: the declarations of some installations
    FirstGraphs,    \* the compositions a Host may be created with
    Plans,          \* plans the application may make
    HasDeadline,    \* is shutdownTimeoutMilliseconds configured?
    MaxCommands,    \* bound on the commands submitted in a behaviour
    MaxForeground   \* bound on the concurrent borrows of an instance

Declarations == [provides : SUBSET Services,
                 requires : SUBSET Services,    \* services
                 wants    : SUBSET Services]    \* optional services

ASSUME GraphAssumption ==
    /\ FirstGraphs \subseteq Graphs
    /\ \A g \in Graphs : /\ DOMAIN g \subseteq Installations
                         /\ g \in [DOMAIN g -> Declarations]

ASSUME BoundAssumption ==
    /\ HasDeadline \in BOOLEAN
    /\ MaxCommands \in Nat
    /\ MaxForeground \in Nat

\* A command prepares at most twice: its candidate and the restoration.
Generations == 1 .. 2 * MaxCommands
Instances == Installations \X Generations
NoJob == [on |-> FALSE, scopes |-> {}, targets |-> {}, running |-> {},
          done |-> {}, failed |-> FALSE]

VARIABLES
    \* the committed state, #state
    hostPhase, revision, graph, live, unresolved,
    \* plans and commands
    plans, queue, submitted, generation,
    \* the running command: its control point, what it does, and #transition
    pc, cmd, transition, affected, scopes,
    passed,      \* the installations whose layer has been prepared
    layer,       \* the instances being set up
    jobs,        \* the #dispose calls of the command and of quarantine
    \* instances
    phase, setup, foreground, bound,
    tainted,     \* a release below has failed early
    rejected,    \* instances whose dispose() rejected
    shown        \* instances that were published

stateVars == <<hostPhase, revision, graph, live, unresolved>>
planVars  == <<plans, queue, submitted>>
cmdVars   == <<pc, cmd, transition, affected, scopes, passed, layer>>
instVars  == <<phase, setup, foreground, bound, tainted, rejected, shown>>
vars == <<stateVars, planVars, generation, cmdVars, jobs, instVars>>

Points == {"idle", "validating", "ready", "stopping", "preparing", "undoing",
           "restoring", "undoingRestore", "joining"}
\* "late" and "broken" are the two ways to be quarantined: the deadline passed
\* and the work still runs, or the work ended with an unresolved obligation.
Phases == {"none", "active", "sealed", "disposing", "late", "broken", "disposed"}
Quarantined == {"late", "broken"}
Commands == [kind : {"apply", "start", "stop"}, plan : Plans]
Scopes == [graph : Graphs, instances : SUBSET Instances]

TypeOK ==
    /\ hostPhase \in {"stopped", "running", "quarantined"}
    /\ revision \in Nat /\ submitted \in 0 .. MaxCommands
    /\ generation \in 0 .. 2 * MaxCommands
    /\ graph \in Graphs
    /\ live \subseteq Instances /\ unresolved \subseteq Instances
    /\ plans \in [Plans -> [status : {"none", "compiling", "issued", "stale", "consumed"},
                            base : Nat, graph : Graphs, empty : BOOLEAN,
                            affected : SUBSET Installations]]
    /\ queue \in Seq(Commands) /\ cmd \in Commands
    /\ pc \in Points
    /\ transition \in {"none", "starting", "changing", "stopping"}
    /\ affected \subseteq Installations /\ passed \subseteq Installations
    /\ scopes \in Seq(Scopes)
    /\ layer \subseteq Instances
    /\ jobs \in [{"command", "quarantine"} ->
                   [on : BOOLEAN, scopes : SUBSET Scopes, targets : SUBSET Instances,
                    running : SUBSET Instances, done : SUBSET Instances,
                    failed : BOOLEAN]]
    /\ phase \in [Instances -> Phases]
    /\ setup \in [Instances -> {"none", "running", "done", "failed"}]
    /\ foreground \in [Instances -> 0 .. MaxForeground]
    /\ bound \in [Instances -> SUBSET Instances]
    /\ tainted \subseteq Instances /\ rejected \subseteq Instances
    /\ shown \subseteq Instances

-----------------------------------------------------------------------------
(* The installation graph.                                                 *)

Members(g) == DOMAIN g
Providers(g, s) == {x \in Members(g) : s \in g[x].provides}
\* connectRequirements: an optional service without a provider binds nothing.
Needs(g, x) == UNION {Providers(g, s) : s \in g[x].requires \union g[x].wants}

\* Kahn's frontier: the installations whose providers are all in done.
Frontier(g, done) == {x \in Members(g) \ done : Needs(g, x) \subseteq done}

\* build: one provider per service, no missing service, nobody uses its own,
\* and no set of installations in which everyone waits for another.
Valid(g) ==
    /\ \A s \in Services : Cardinality(Providers(g, s)) <= 1
    /\ \A x \in Members(g) : /\ \A s \in g[x].requires : Providers(g, s) # {}
                             /\ x \notin Needs(g, x)
    /\ \A S \in (SUBSET Members(g)) \ {{}} : \E x \in S : Needs(g, x) \intersect S = {}

Dependents(g, x) == {y \in Members(g) : x \in Needs(g, y)}

\* #expand: the given installations and everything that depends on them.
Expand(g, D) == {x \in Installations :
                   \A S \in SUBSET Installations :
                     D \subseteq S /\ (\A y \in S : Dependents(g, y) \subseteq S) => x \in S}

\* Mutant: only the consumers in the committed composition count.
FormerlyAffected(g, h, D) == Expand(g, D) \union D
\* Mutant: a change reaches no further than its operations.
NarrowlyAffected(g, h, D) == D
\* Both plans count: a replaced service has old consumers and new ones.
AffectedByTransition(g, h, D) == Expand(g, D) \union Expand(h, D)

\* What differs in the declarations must be among the operations.
Diff(g, h) == {x \in Members(g) \union Members(h) :
                 ~(x \in Members(g) /\ x \in Members(h) /\ g[x] = h[x])}

-----------------------------------------------------------------------------
(* #dispose: consumers before providers, across the given scopes.          *)

Consumers(i, scs) ==
    UNION {{c \in s.instances : c[1] \in Dependents(s.graph, i[1])}
             : s \in {t \in scs : i \in t.instances}}

Job(scs, targets) == [NoJob EXCEPT !.on = TRUE, !.scopes = scs, !.targets = targets]
\* Mutant: a #dispose call with a failure never returns.
StrictOver(job) == job.on /\ job.done = job.targets /\ ~job.failed
Over(job) == job.on /\ job.done = job.targets
\* A stop or an undo went well when it failed nowhere and left nothing alive.
Clean(job) == ~job.failed /\ \A i \in job.targets : phase[i] = "disposed"

Healthy == hostPhase # "quarantined"
Busy(i) == foreground[i] > 0
Affected(S) == {i \in S : i[1] \in affected}
Committed == [graph |-> graph, instances |-> live]
\* Mutant: quarantine accounts for the committed state only.
CommittedExecution == {Committed}
\* Everything #quarantine has to account for.
Execution == {scopes[k] : k \in DOMAIN scopes} \union {Committed}
Owned == UNION {s.instances : s \in Execution}
\* The execution scope under preparation, and its new instances.
Scope == scopes[Len(scopes)]
Candidates == Affected(Scope.instances)
\* What the running command was told to establish.
Target == IF cmd.kind = "apply" THEN plans[cmd.plan].graph ELSE graph
Blocked(S) == [i \in Instances |->
                 IF i \in S /\ phase[i] = "active" THEN "sealed" ELSE phase[i]]

\* Mutant: plans survive a new revision.
KeptPlans(ps) == ps

\* invalidate: a new revision makes every outstanding plan stale.
Invalidated(ps) == [p \in Plans |->
    IF ps[p].status \in {"compiling", "issued"} THEN [ps[p] EXCEPT !.status = "stale"]
    ELSE ps[p]]

Init ==
    /\ hostPhase = "stopped" /\ revision = 0
    /\ graph \in FirstGraphs /\ Valid(graph)
    /\ live = {} /\ unresolved = {}
    /\ plans = [p \in Plans |-> [status |-> "none", base |-> 0, graph |-> graph,
                                 empty |-> TRUE, affected |-> {}]]
    /\ queue = <<>> /\ submitted = 0 /\ generation = 0
    /\ pc = "idle" /\ cmd = CHOOSE c \in Commands : c.kind = "stop"
    /\ transition = "none" /\ affected = {} /\ scopes = <<>>
    /\ passed = {} /\ layer = {}
    /\ jobs = [j \in {"command", "quarantine"} |-> NoJob]
    /\ phase = [i \in Instances |-> "none"]
    /\ setup = [i \in Instances |-> "none"]
    /\ foreground = [i \in Instances |-> 0]
    /\ bound = [i \in Instances |-> {}]
    /\ tainted = {} /\ rejected = {} /\ shown = {}

-----------------------------------------------------------------------------
(* Plans: composition/plan.ts and planner.ts.                              *)

\* plan(change): compilation starts from the committed state...
CompilePlan(p) ==
    /\ Healthy /\ plans[p].status = "none"
    /\ \E h \in {g \in Graphs : Valid(g)} :
       \E D \in SUBSET (Members(graph) \union Members(h)) :
         /\ Diff(graph, h) \subseteq D
         /\ plans' = [plans EXCEPT ![p] =
              [status |-> "compiling", base |-> revision, graph |-> h,
               empty |-> D = {}, affected |-> AffectedByTransition(graph, h, D)]]
    /\ UNCHANGED <<stateVars, queue, submitted, generation, cmdVars, jobs, instVars>>

\* ... and awaits validators: the plan is issued only if no revision passed.
IssuePlan(p) ==
    /\ plans[p].status = "compiling"
    /\ plans' = [plans EXCEPT ![p].status = "issued"]
    /\ UNCHANGED <<stateVars, queue, submitted, generation, cmdVars, jobs, instVars>>

\* apply, start and stop reject at once in quarantine or during a transition.
Submit(c) ==
    /\ Healthy /\ transition = "none"
    /\ submitted < MaxCommands
    /\ c.kind = "apply" => plans[c.plan].status \in {"issued", "stale", "consumed"}
    /\ queue' = Append(queue, c)
    /\ submitted' = submitted + 1
    /\ UNCHANGED <<stateVars, plans, generation, cmdVars, jobs, instVars>>

-----------------------------------------------------------------------------
(* The command queue and the gate in front of a transition.                *)

\* The end of #execute: the transition is over, whatever its outcome.
Finish ==
    /\ pc' = "idle" /\ transition' = "none" /\ affected' = {}
    /\ scopes' = <<>> /\ passed' = {} /\ layer' = {}
    /\ jobs' = [jobs EXCEPT !["command"] = NoJob]
    /\ UNCHANGED cmd

\* #lifecycle reserves the transition of a start before validators run.
TakeCommand ==
    /\ pc = "idle" /\ queue # <<>>
    /\ queue' = Tail(queue)
    /\ cmd' = Head(queue)
    /\ CASE cmd'.kind = "apply" ->
              pc' = "ready" /\ UNCHANGED <<transition, affected>>
         [] cmd'.kind = "start" /\ hostPhase = "stopped" ->
              pc' = "validating" /\ transition' = "starting" /\ affected' = Members(graph)
         [] cmd'.kind = "stop" /\ hostPhase = "running" ->
              pc' = "validating" /\ UNCHANGED <<transition, affected>>
         [] OTHER -> UNCHANGED <<pc, transition, affected>>
    /\ UNCHANGED <<scopes, passed, layer>>
    /\ UNCHANGED <<stateVars, plans, submitted, generation, jobs, instVars>>

Validated ==
    /\ pc = "validating"
    /\ pc' = "ready"
    /\ UNCHANGED <<cmd, transition, affected, scopes, passed, layer>>
    /\ UNCHANGED <<stateVars, planVars, generation, jobs, instVars>>

\* A validator of the committed configuration refuses: the start rejects.
ValidationFails ==
    /\ pc = "validating" /\ cmd.kind = "start"
    /\ Finish
    /\ UNCHANGED <<stateVars, planVars, generation, instVars>>

\* Executing a plan: its status must still be "issued" and it is used up,
\* except that affected work in flight rejects the command and keeps the plan.
Usable == cmd.kind = "apply" => plans[cmd.plan].status = "issued"
Consumed == IF cmd.kind = "apply"
            THEN [plans EXCEPT ![cmd.plan].status = "consumed"] ELSE plans
ToChange == IF cmd.kind = "apply" THEN plans[cmd.plan].affected ELSE Members(graph)
\* Mutant: a command takes every running instance down.
AllLeaving == live
Leaving == {i \in live : i[1] \in ToChange}

\* Quarantined, stale or consumed; busy; without operations or with a contract
\* that is already bound to another kind.
Reject ==
    /\ pc = "ready"
    /\ \/ ~Healthy /\ plans' = plans
       \/ Healthy /\ ~Usable /\ plans' = Consumed
       \/ /\ Healthy /\ Usable
          /\ \/ (\E i \in Leaving : Busy(i)) /\ plans' = plans
             \/ (\A i \in Leaving : ~Busy(i)) /\ plans' = Consumed
    /\ Finish
    /\ UNCHANGED <<stateVars, queue, submitted, generation, instVars>>

Proceed ==
    /\ pc = "ready" /\ Healthy /\ Usable
    /\ cmd.kind = "apply" => ~plans[cmd.plan].empty
    /\ \A i \in Leaving : ~Busy(i)

\* A stopped Host only takes note of the change.
CommitStopped ==
    /\ Proceed /\ hostPhase = "stopped" /\ cmd.kind # "start"
    /\ graph' = Target
    /\ revision' = revision + 1
    /\ plans' = Invalidated(Consumed)
    /\ Finish
    /\ UNCHANGED <<hostPhase, live, unresolved, queue, submitted, generation, instVars>>

\* Seal what is affected and start to dispose it.
BeginTransition ==
    /\ Proceed /\ (hostPhase = "running" \/ cmd.kind = "start")
    /\ plans' = Consumed
    /\ phase' = Blocked(Leaving)
    /\ transition' = IF transition # "none" THEN transition
                     ELSE IF cmd.kind = "stop" THEN "stopping" ELSE "changing"
    /\ affected' = ToChange
    /\ scopes' = <<Committed>>
    /\ jobs' = [jobs EXCEPT !["command"] = Job({Committed}, Leaving)]
    /\ pc' = "stopping"
    /\ UNCHANGED <<cmd, passed, layer, stateVars, queue, submitted, generation>>
    /\ UNCHANGED <<setup, foreground, bound, tainted, rejected, shown>>

-----------------------------------------------------------------------------
(* Quarantine: one synchronous step, then one #dispose of all that remains. *)

Quarantine ==
    LET remaining == {i \in Owned : phase[i] # "disposed"}
    IN  /\ hostPhase' = "quarantined"
        /\ revision' = revision + 1
        /\ live' = {} /\ unresolved' = remaining
        /\ UNCHANGED graph
        /\ plans' = Invalidated(plans)
        /\ phase' = Blocked(remaining)
        /\ jobs' = [jobs EXCEPT !["quarantine"] = Job(Execution, remaining)]

\* A command that fails during quarantine joins it instead.
QuarantineOrJoin ==
    /\ pc' = "joining"
    /\ IF Healthy THEN Quarantine
                  ELSE UNCHANGED <<stateVars, plans, phase, jobs>>

\* A release below the root failed early, or the deadline of a descendant
\* passed; a root that already shuts down reports its own failures to whoever
\* disposes it.
ReleaseFailed(i) == IF Healthy /\ i \in Owned THEN Quarantine
                    ELSE UNCHANGED <<stateVars, plans, phase, jobs>>

QuarantineEnds ==
    /\ Over(jobs["quarantine"])
    /\ jobs' = [jobs EXCEPT !["quarantine"] = NoJob]
    /\ unresolved' = {i \in jobs["quarantine"].targets : phase[i] # "disposed"}
    /\ UNCHANGED <<hostPhase, revision, graph, live>>
    /\ UNCHANGED <<planVars, generation, cmdVars, instVars>>

\* The command has its receipt once quarantine's own cleanup is over.
Join ==
    /\ pc = "joining" /\ ~jobs["quarantine"].on
    /\ Finish
    /\ UNCHANGED <<stateVars, planVars, generation, instVars>>

-----------------------------------------------------------------------------
(* The branches of #dispose, one per target.                               *)

\* All consumers of the target that are being disposed have been.
BranchReady(j, i) ==
    /\ jobs[j].on
    /\ i \in jobs[j].targets \ (jobs[j].running \union jobs[j].done)
    /\ Consumers(i, jobs[j].scopes) \intersect jobs[j].targets \subseteq jobs[j].done

\* Mutant: a consumer that failed to shut down is not looked at.
UnusedRetained(j, i) == Busy(i) \/ phase[i] \in Quarantined \union {"disposed"}
Retained(j, i) ==
    \/ \E c \in Consumers(i, jobs[j].scopes) : phase[c] # "disposed"
    \/ Busy(i)
    \/ phase[i] \in Quarantined \union {"disposed"}

BranchSkips(j, i) ==
    /\ BranchReady(j, i) /\ Retained(j, i)
    /\ jobs' = [jobs EXCEPT ![j].done = @ \union {i}]
    /\ UNCHANGED <<stateVars, planVars, generation, cmdVars, instVars>>

\* Lifetime.dispose, or joining the dispose that another branch began.
BranchDisposes(j, i) ==
    /\ BranchReady(j, i) /\ ~Retained(j, i)
    /\ jobs' = [jobs EXCEPT ![j].running = @ \union {i}]
    /\ phase' = [phase EXCEPT ![i] = "disposing"]
    /\ UNCHANGED <<stateVars, planVars, generation, cmdVars>>
    /\ UNCHANGED <<setup, foreground, bound, tainted, rejected, shown>>

BranchSettles(j, i) ==
    /\ jobs[j].on
    /\ i \in jobs[j].running
    /\ phase[i] \in Quarantined \union {"disposed"}
    /\ jobs' = [jobs EXCEPT ![j].running = @ \ {i}, ![j].done = @ \union {i},
                            ![j].failed = @ \/ i \in rejected]
    /\ UNCHANGED <<stateVars, planVars, generation, cmdVars, instVars>>

-----------------------------------------------------------------------------
(* #execute after the gate.                                                *)

\* #prepare: a new generation in a new execution scope.
Prepare(g, point) ==
    /\ generation' = generation + 1
    /\ scopes' = Append(scopes, [graph |-> g,
                   instances |-> {i \in scopes[1].instances : i[1] \notin affected}])
    /\ passed' = {} /\ layer' = {}
    /\ pc' = point
    /\ jobs' = [jobs EXCEPT !["command"] = NoJob]
    /\ UNCHANGED <<cmd, transition, affected>>

StopFails ==
    /\ pc = "stopping" /\ Over(jobs["command"])
    /\ ~Healthy \/ ~Clean(jobs["command"])
    /\ QuarantineOrJoin
    /\ UNCHANGED <<cmd, transition, affected, scopes, passed, layer>>
    /\ UNCHANGED <<queue, submitted, generation>>
    /\ UNCHANGED <<setup, foreground, bound, tainted, rejected, shown>>

StopSucceeds == /\ pc = "stopping" /\ Over(jobs["command"])
                /\ Healthy /\ Clean(jobs["command"])

CommitStop ==
    /\ StopSucceeds /\ cmd.kind = "stop"
    /\ hostPhase' = "stopped" /\ revision' = revision + 1 /\ live' = {}
    /\ UNCHANGED <<graph, unresolved>>
    /\ plans' = Invalidated(plans)
    /\ Finish
    /\ UNCHANGED <<queue, submitted, generation, instVars>>

BeginPrepare ==
    /\ StopSucceeds /\ cmd.kind # "stop"
    /\ Prepare(Target, "preparing")
    /\ UNCHANGED <<stateVars, planVars, instVars>>

Preparing == pc \in {"preparing", "restoring"}

\* The next layer: affected installations get an instance, and all of them
\* start their setup; the dependencies are read from the execution scope.
NextLayer ==
    LET g == Scope.graph
        next == Frontier(g, passed)
        new == {<<x, generation>> : x \in next \intersect affected}
    IN  /\ Preparing /\ Healthy
        /\ layer = {} /\ next # {}
        /\ passed' = passed \union next
        /\ layer' = new
        /\ scopes' = [scopes EXCEPT ![Len(scopes)].instances = @ \union new]
        /\ phase' = [i \in Instances |-> IF i \in new THEN "active" ELSE phase[i]]
        /\ setup' = [i \in Instances |-> IF i \in new THEN "running" ELSE setup[i]]
        /\ bound' = [i \in Instances |->
             IF i \in new THEN {p \in Scope.instances : p[1] \in Needs(g, i[1])}
             ELSE bound[i]]
        /\ UNCHANGED <<pc, cmd, transition, affected, stateVars, planVars>>
        /\ UNCHANGED <<generation, jobs, foreground, tainted, rejected, shown>>

LayerReady ==
    /\ Preparing /\ Healthy
    /\ layer # {} /\ \A i \in layer : setup[i] = "done"
    /\ layer' = {}
    /\ UNCHANGED <<pc, cmd, transition, affected, scopes, passed>>
    /\ UNCHANGED <<stateVars, planVars, generation, jobs, instVars>>

\* Mutant: the last layer is not awaited.
HastyPrepared == Preparing /\ Frontier(Scope.graph, passed) = {}
Prepared == Preparing /\ layer = {} /\ Frontier(Scope.graph, passed) = {}

\* The first failed setup rejects the layer; quarantine is noticed only
\* between layers.
PreparationFailed ==
    /\ Preparing
    /\ \/ \E i \in layer : setup[i] = "failed"
       \/ ~Healthy /\ \A i \in layer : setup[i] = "done"

\* A prepared candidate may still lose a contract id to a concurrent claim.
Undo ==
    /\ Preparing /\ (PreparationFailed \/ Prepared)
    /\ IF Healthy
       THEN /\ jobs' = [jobs EXCEPT !["command"] = Job({Scope}, Candidates)]
            /\ pc' = IF pc = "preparing" THEN "undoing" ELSE "undoingRestore"
       ELSE /\ pc' = "joining"
            /\ UNCHANGED jobs
    /\ UNCHANGED <<cmd, transition, affected, scopes, passed, layer>>
    /\ UNCHANGED <<stateVars, planVars, generation, instVars>>

UndoFails ==
    /\ pc \in {"undoing", "undoingRestore"} /\ Over(jobs["command"])
    /\ pc = "undoing" => ~Healthy \/ ~Clean(jobs["command"])
    /\ QuarantineOrJoin
    /\ UNCHANGED <<cmd, transition, affected, scopes, passed, layer>>
    /\ UNCHANGED <<queue, submitted, generation>>
    /\ UNCHANGED <<setup, foreground, bound, tainted, rejected, shown>>

UndoSucceeds == /\ pc = "undoing" /\ Over(jobs["command"])
                /\ Healthy /\ Clean(jobs["command"])

\* A failed start leaves the Host stopped, with an error on record.
StartFails ==
    /\ UndoSucceeds /\ hostPhase = "stopped"
    /\ revision' = revision + 1
    /\ plans' = Invalidated(plans)
    /\ Finish
    /\ UNCHANGED <<hostPhase, graph, live, unresolved>>
    /\ UNCHANGED <<queue, submitted, generation, instVars>>

\* A failed change reconstructs the declarations that were running.
BeginRestore ==
    /\ UndoSucceeds /\ hostPhase = "running"
    /\ Prepare(graph, "restoring")
    /\ UNCHANGED <<stateVars, planVars, instVars>>

Establish ==
    /\ hostPhase' = "running"
    /\ revision' = revision + 1
    /\ graph' = Scope.graph
    /\ live' = Scope.instances
    /\ UNCHANGED unresolved
    /\ plans' = Invalidated(plans)

\* Advance the state, then publish every affected instance.
Commit ==
    /\ Prepared /\ Healthy
    /\ Establish
    /\ shown' = shown \union Candidates
    /\ Finish
    /\ UNCHANGED <<queue, submitted, generation>>
    /\ UNCHANGED <<phase, setup, foreground, bound, tainted, rejected>>

\* The state has been committed when publishing a candidate throws, or when
\* code that runs meanwhile reports a failed release: the Host is quarantined
\* with the new state, whatever has been published.
CommitFails ==
    /\ Prepared /\ Healthy
    /\ \E S \in SUBSET Candidates : shown' = shown \union S
    /\ LET remaining == {i \in Owned : phase[i] # "disposed"}
       IN  /\ hostPhase' = "quarantined"
           /\ revision' = revision + 2
           /\ graph' = Scope.graph
           /\ live' = {} /\ unresolved' = remaining
           /\ plans' = Invalidated(plans)
           /\ phase' = Blocked(remaining)
           /\ jobs' = [jobs EXCEPT !["quarantine"] = Job(Execution, remaining)]
    /\ pc' = "joining"
    /\ UNCHANGED <<cmd, transition, affected, scopes, passed, layer>>
    /\ UNCHANGED <<queue, submitted, generation>>
    /\ UNCHANGED <<setup, foreground, bound, tainted, rejected>>

\* After a restoration the candidates are disposed before quarantine.
RestoreFails ==
    /\ Prepared /\ pc = "restoring" /\ Healthy
    /\ \E S \in SUBSET Candidates : S # Candidates /\ shown' = shown \union S
    /\ Establish
    /\ jobs' = [jobs EXCEPT !["command"] = Job({Scope}, Candidates)]
    /\ pc' = "undoingRestore"
    /\ UNCHANGED <<cmd, transition, affected, scopes, passed, layer>>
    /\ UNCHANGED <<queue, submitted, generation>>
    /\ UNCHANGED <<phase, setup, foreground, bound, tainted, rejected>>

-----------------------------------------------------------------------------
(* What instances do.                                                      *)

SetupSucceeds(i) ==
    /\ setup[i] = "running"
    /\ phase[i] = "active" \/ (phase[i] = "sealed" /\ ~Healthy)
    /\ setup' = [setup EXCEPT ![i] = "done"]
    /\ UNCHANGED <<stateVars, planVars, generation, cmdVars, jobs>>
    /\ UNCHANGED <<phase, foreground, bound, tainted, rejected, shown>>

\* The first failure aborts the startup signal of the whole generation, which
\* closes every candidate; a setup that was aborted fails as well.
SetupFails(i) ==
    /\ setup[i] = "running"
    /\ setup' = [setup EXCEPT ![i] = "failed"]
    /\ phase' = IF i \in layer THEN Blocked(Candidates) ELSE phase
    /\ UNCHANGED <<stateVars, planVars, generation, cmdVars, jobs>>
    /\ UNCHANGED <<foreground, bound, tainted, rejected, shown>>

\* A service, a contribution or a listener of a published instance is used.
Borrow(i) ==
    /\ i \in shown /\ phase[i] = "active"
    /\ foreground[i] < MaxForeground
    /\ foreground' = [foreground EXCEPT ![i] = @ + 1]
    /\ UNCHANGED <<stateVars, planVars, generation, cmdVars, jobs>>
    /\ UNCHANGED <<phase, setup, bound, tainted, rejected, shown>>

Return(i) ==
    /\ Busy(i)
    /\ foreground' = [foreground EXCEPT ![i] = @ - 1]
    /\ UNCHANGED <<stateVars, planVars, generation, cmdVars, jobs>>
    /\ UNCHANGED <<phase, setup, bound, tainted, rejected, shown>>

\* A cleanup or a child fails before the root shuts down.
EarlyFailure(i) ==
    /\ phase[i] \in {"active", "sealed"} /\ i \notin tainted
    /\ tainted' = tainted \union {i}
    /\ ReleaseFailed(i)
    /\ UNCHANGED <<queue, submitted, generation, cmdVars>>
    /\ UNCHANGED <<setup, foreground, bound, rejected, shown>>

\* The deadline of a child passes, before or while its root shuts down; the
\* child may still end well.
DescendantDeadline(i) ==
    /\ HasDeadline /\ Healthy
    /\ phase[i] \in {"active", "sealed", "disposing", "late"}
    /\ ReleaseFailed(i)
    /\ UNCHANGED <<queue, submitted, generation, cmdVars>>
    /\ UNCHANGED <<setup, foreground, bound, tainted, rejected, shown>>

\* The shutdown work of the root ends; it has joined the setup.
LifetimeEnds(i) ==
    /\ phase[i] \in {"disposing", "late"}
    /\ setup[i] # "running"
    /\ \/ /\ i \notin tainted
          /\ phase' = [phase EXCEPT ![i] = "disposed"]
          /\ unresolved' = unresolved \ {i}
          /\ UNCHANGED rejected
       \/ /\ phase' = [phase EXCEPT ![i] = "broken"]
          /\ rejected' = rejected \union {i}
          /\ UNCHANGED unresolved
    /\ UNCHANGED <<hostPhase, revision, graph, live, planVars, generation, cmdVars, jobs>>
    /\ UNCHANGED <<setup, foreground, bound, tainted, shown>>

RootDeadline(i) ==
    /\ HasDeadline
    /\ phase[i] = "disposing"
    /\ phase' = [phase EXCEPT ![i] = "late"]
    /\ rejected' = rejected \union {i}
    /\ UNCHANGED <<stateVars, planVars, generation, cmdVars, jobs>>
    /\ UNCHANGED <<setup, foreground, bound, tainted, shown>>

-----------------------------------------------------------------------------
Gate == TakeCommand \/ Validated \/ ValidationFails \/ Reject \/ CommitStopped
        \/ BeginTransition
Execute ==
    \/ StopFails \/ CommitStop \/ BeginPrepare
    \/ NextLayer \/ LayerReady \/ Undo \/ UndoFails \/ StartFails \/ BeginRestore
    \/ Commit \/ CommitFails \/ RestoreFails \/ Join
Branch(j, i) == BranchSkips(j, i) \/ BranchDisposes(j, i) \/ BranchSettles(j, i)
Settle(i) == SetupSucceeds(i) \/ SetupFails(i)

Next ==
    \/ \E p \in Plans : CompilePlan(p) \/ IssuePlan(p)
    \/ \E c \in Commands : Submit(c)
    \/ Gate \/ Execute \/ QuarantineEnds
    \/ \E i \in Instances :
         \/ \E j \in {"command", "quarantine"} : Branch(j, i)
         \/ Settle(i) \/ Borrow(i) \/ Return(i)
         \/ EarlyFailure(i) \/ DescendantDeadline(i)
         \/ LifetimeEnds(i) \/ RootDeadline(i)

Spec == Init /\ [][Next]_vars

\* Promise reactions run on their own, deadlines pass, and setups end.
FairSpec ==
    /\ Spec
    /\ WF_vars(Gate) /\ WF_vars(Execute) /\ WF_vars(QuarantineEnds)
    /\ \A i \in Instances :
         /\ WF_vars(Settle(i))
         /\ WF_vars(LifetimeEnds(i) \/ RootDeadline(i))
         /\ \A j \in {"command", "quarantine"} : WF_vars(Branch(j, i))

-----------------------------------------------------------------------------
(* Safety.                                                                 *)

Alive(i) == phase[i] \notin {"none", "disposed"}

\* Nobody is forgotten: whatever is alive belongs to the committed state, to
\* the running transition or to the unresolved instances that diagnostics show
\* (engine.ts 709-711, 749, 720-726).
NoOrphan == \A i \in Instances : Alive(i) => i \in Owned \union unresolved

\* A provider starts to shut down only after every instance that really reads
\* it has been disposed, across generations, after failures and in quarantine
\* (engine.ts 760-798; the affected closure of installation-graph.ts 53-71).
ConsumersFirst ==
    \A c, p \in Instances :
        p \in bound[c] /\ phase[p] \in {"disposing", "late", "broken", "disposed"}
            => phase[c] = "disposed"

\* Between commands a healthy running Host is exactly its declarations: one
\* active, published instance per member, bound to the current instances of
\* its providers; nothing stays sealed by a rejected or restored command.
RunningIsDeclared ==
    pc = "idle" /\ hostPhase = "running" =>
        /\ {i[1] : i \in live} = Members(graph)
        /\ \A i \in live :
             /\ phase[i] = "active" /\ i \in shown /\ setup[i] = "done"
             /\ \A k \in live : k[1] = i[1] => k = i
             /\ bound[i] = {p \in live : p[1] \in Needs(graph, i[1])}

\* A stopped Host between commands holds no instance at all, also after a
\* start that failed.
StoppedIsEmpty ==
    pc \in {"idle", "validating", "ready"} /\ hostPhase = "stopped" =>
        \A i \in Instances : ~Alive(i)

\* Between commands a Host holds what it declares and nothing else.
IdleIsDeclared == RunningIsDeclared /\ StoppedIsEmpty

\* Atomic publication: consumers reach a candidate only once it is committed,
\* and an instance that failed its setup never (engine.ts 629-656).
NoEarlyPublication ==
    \A i \in Instances : i \in shown =>
        /\ setup[i] = "done"
        /\ phase[i] = "active" => i \in live

\* A plan that may still be used was compiled for the committed state: its base
\* is the current revision and the instances it would replace are closed under
\* dependence, whatever was committed meanwhile (plan.ts 124-165).
UsablePlanIsCurrent ==
    \A p \in Plans : plans[p].status = "issued" =>
        /\ Healthy /\ plans[p].base = revision
        /\ \A c \in live : (\E k \in bound[c] : k[1] \in plans[p].affected)
              => c[1] \in plans[p].affected

\* In quarantine nobody is active, and the instances diagnostics list as
\* unresolved are exactly those that are still alive (engine.ts 709-757).
QuarantineIsHonest ==
    hostPhase = "quarantined" =>
        /\ live = {} /\ \A i \in Instances : phase[i] # "active"
        /\ unresolved = {i \in Instances : Alive(i)}

\* Borrowed instances keep their providers and themselves from disposal.
BorrowsAreSafe ==
    \A i \in Instances : Busy(i) =>
        \A k \in bound[i] \union {i} : phase[k] \in {"active", "sealed"}

\* Whatever lives is accounted for, above all in quarantine.
NobodyIsForgotten == NoOrphan /\ QuarantineIsHonest

\* A provider outlives its consumers, and those who borrowed them.
ProvidersOutlive == ConsumersFirst /\ BorrowsAreSafe

-----------------------------------------------------------------------------
(* Action properties.                                                      *)

\* Quarantine is terminal: no revision, no instance, no publication after it.
QuarantineIsTerminal ==
    [][hostPhase = "quarantined" =>
                   /\ hostPhase' = "quarantined" /\ revision' = revision
                   /\ shown' = shown
                   /\ \A i \in Instances : phase'[i] # phase[i] => phase'[i] # "active"]_vars

\* A transition never touches a bystander: an instance that a command in a
\* healthy Host seals or disposes is one of its affected installations.
BystandersUntouched ==
    [][\A i \in live : Healthy /\ Healthy' /\ phase'[i] # phase[i] =>
          i[1] \in affected' \union affected]_vars

\* A transition reaches no further than it must, and not into quarantine.
TransitionsAreContained == QuarantineIsTerminal /\ BystandersUntouched

-----------------------------------------------------------------------------
(* Liveness.                                                               *)

\* Every accepted command gets its answer and the queue moves on.
CommandsEnd == (pc # "idle" \/ queue # <<>>) ~> (pc = "idle" /\ queue = <<>>)

\* Quarantine finishes its cleanup of what it can reach.
QuarantineSettles == jobs["quarantine"].on ~> ~jobs["quarantine"].on

\* Whatever a Host began it ends, although lifetimes may only reach a deadline.
HostSettles == CommandsEnd /\ QuarantineSettles
=============================================================================
