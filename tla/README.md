# Dougong: models, checks and proofs

Dougong is a TypeScript plugin runtime. An application creates a *Host*, installs
plugins in it, and the Host keeps the graph of running plugin instances equal to
what has been declared, through failures of any plugin. A *Platform* delivers
plugin artifacts to a Host. A small *reactive* package lets an application watch
both. Everything runs in one JavaScript thread: synchronous sections are atomic,
and every `await`, callback, listener and timer is a place where somebody else runs.

Paths below are relative to `src/packages/`; `lifetime.ts` is
`dougong/src/lifetime/lifetime.ts`, and so on.

## 1. Inventory

| Component | State | Operations | Correct when |
|---|---|---|---|
| **Lifetime** (`lifetime/lifetime.ts`) | per scope: phase, abort signal, foreground count, records (cleanups, interrupts, publications, tasks, acquisitions), children, the join of its shutdown | `child`, `use`/`own`/`defer`, `interrupt`, `spawn`, `acquire`, `stage`, `run`, `block`/`seal`, `publish`, `dispose` | shutdown joins everything below before it releases anything, releases newest first, never loses or retries a failure, and says `disposed` only when nothing is left |
| **Engine** (`execution/engine.ts`, `instance.ts`) | committed state (phase, revision, graph, instances), the running transition, the quarantine join | `plan`, `apply`, `start`, `stop`, setup layers, undo, restore, quarantine, `#dispose` | a transition is all or nothing; consumers go before providers; borrowed work is never pulled away; quarantine is terminal and honest |
| **Plans** (`composition/plan.ts`) | the ledger of issued plans | issue, read, consume, invalidate | a usable plan speaks of the committed state |
| **Planner, graph** (`planner.ts`, `installation-graph.ts`) | none (pure) | build, layers, affected closure | providers unique, no cycle, closure covers old and new consumers |
| **Command queue** (`internal/serial-queue.ts`) | waiting tasks, the drain | `run`, abort while waiting, `idle` | a task runs once or is refused, in order |
| **Drafts, groups, installations** (`composition/change-set.ts`, `group.ts`, `installation.ts`) | open drafts with their operations, groups as objects, the projection each handle asks | `install`, `update`, `remove`, `group`, `removeGroup`, take, close | a draft is planned once; handles tell the truth; the committed composition is closed and unambiguous |
| **Contract registry** (`contracts/contract-registry.ts`) | kinds claimed per contract id | `resolve`, prepare, commit | one kind per id for ever, also when claims race with a transition |
| **Contributions** (`contributions/contribution-store.ts`) | stores with ordered claims, the snapshot of keys, views and subscriptions; the batch | stage, publish, update, dispose, view, subscribe, batches | subscribers see the final set of a batch; one claim per key |
| **Events** (`events/event-hub.ts`) | listeners in order of publication, emissions under way | `on`, `publish`, dispose, `emit` | whoever is there is called once and in order, whoever has left is not, and the emission ends with their failures |
| **Snapshot views** (`observation/snapshot-view.ts`) | value, subscribers, dirty flag | read, subscribe, notify | notified observers read the latest value |
| **Platform activation** (`platform/src/activation/`) | registrations, queue, operations, disposal | `select`, `activate`, `remove`, `dispose` | only what is current and authorised is handed to the Host; outcomes are true; nothing is orphaned |
| **Preparation, loading** (`preparation.ts`, `loading.ts`) | loads under way and their waiters, loaded modules | `load`, join, leave, settle, `close` | one load per artifact, cancelled with its last waiter, late answers ignored |
| **Catalog, registrations** (`catalog/`) | selected artifact, revision, failure | select, bind, record failure | a failure shown belongs to the current selection |
| **Artifacts, admission** (`artifacts/`, `admission/`) | none | validation | pure checks |
| **Signals** (`reactive/src/signals.ts`) | values, versions, caches, edges, the queue of observers, the batch depth | `signal`, `computed`, get, set, subscribe, `batch` | reads are fresh, whoever is concerned is told, edges exist only for observers |
| **Observation** (`reactive/src/observe.ts`) | the current generation, the drain, the release | `observe`, invalidate, dispose | generations are serial, closing joins, no lost wake-up |
| **Bridge** (`reactive/src/bridge.ts`) | the value shown, the subscription, the refresh under way | `bridge`, refresh, dispose | shows the latest value; gives its subscription back once, or says that it could not |
| **Release tool** (`tooling/release/` beside `packages/`) | nothing of its own between runs: Git, the origin and the registry remember | a run from the first check to the push, resumption, restoration of the manifests | a tag names a complete release of one build, dependents follow dependencies, every run can be resumed, others' work survives |

How they interact. An application calls the Host; the Engine compiles plans with the
planner, runs commands through the queue and owns one root `Lifetime` per instance.
A Lifetime tells the Engine about a failed release *synchronously*
(`releaseFailed`), and the Engine quarantines itself and blocks every instance
before that call returns. Plugins borrow services of other instances (`run`), stage
contributions, and own records in their Lifetime. A Platform is an ordinary client
of a Host: it makes plans, has them authorised, applies them, and must live with
anybody else who changes the same Host. Signals, bridges and observations are connected
by subscriptions and by the owners (a Lifetime, usually) that end them. The release tool
is a program of its own that publishes the packages.

What is hard here: callbacks that reenter the tree while it is being shut down;
deadlines that expire while work goes on; failures during undo; old and new consumers
of one service in a single transition; cancelled loads and authorisations whose
answers come late; new selections between an await and its use; reentrant writes, reads and
disposals inside any foreign call; a release that dies between two of its records. The hazards are listed,
each at its line, in `PROJECT.json`.

## 2. Modules and plan

Done, in this order:

1. `Lifetime` - the ownership tree; `Ownership` - what such a tree promises;
   `LifetimeOwnership` - the refinement mapping; `LifetimeInvariant` - the inductive
   invariant; `LifetimeProofs` - the proofs.
2. `Engine` - commands, transitions, quarantine, plans and the graph. It uses an
   instance as what `Lifetime` shows of a root scope (its verdicts, borrows,
   deadlines and escalation); it does not instantiate `Lifetime`. `Host` - what a Host
   promises its application; `EngineHost` - the refinement mapping. `EngineProofs`.
3. `Platform` - activations, selections, removals and disposal on a shared Host. It
   uses the Host as what `Engine` shows of it: a command commits, is refused, or
   quarantines; a plan is usable only on the revision it was compiled for.
   `Deliveries` - what a platform promises those who activate something;
   `PlatformDeliveries` - the refinement mapping. `PlatformProofs`.
4. `Loading` - shared loads below a Platform; `LoadingInvariant`, proved in
   `PlatformProofs`. `Platform` takes a load as one wait that may be cancelled, which is
   what `Loading` gives each caller. Both speak of the artifacts of `Delivery`.
5. `Contributions` - the stores of extension points and the flush of snapshot
   notifications. What stages and publishes a claim is a record of `Lifetime` (kind
   publication); the batch is that of a transition of `Engine`. `ContributionsProofs`.
6. `Observation` - `observe()` of the reactive package over any owner and any source;
   `ObservationProofs`.
7. `Composition` - drafts, groups, handles and contract kinds around the commands of
   a Host. It reduces what `Engine` is about to its outcome (a transition commits, is
   restored, or quarantines) and adds what `Engine` leaves out; `CompositionProofs`.
8. `Signals` - signals and computed signals; `Bridge` - foreign sources seen as
   signals. A bridge uses a signal as what `Signals` promises of a source: whoever is
   concerned is told. `BridgeProofs`.
9. `Events` - the event hub, with the part of `Lifetime` (publication, borrow, block,
   disposal) its listeners go through.
10. `Release` - the release tool with Git, the origin and the registry; `ReleaseProofs`.

`MC<Module>` gives a module its small instances.

Worth doing next: `Snapshots` (`snapshot-view.ts`) below `Contributions`, with reentrant
reads and flushes and the terminal read of a disposed publisher.

## 3. How the models correspond to the code

One action is one synchronous section of the code, with everything that section
changes, and `PROJECT.json` names the lines each definition stands for. What callbacks,
setups, loaders, authorisers and outsiders do is a nondeterministic choice. Definitions
marked `Mutant:` are small faults used to see that a property can fail; nothing else
uses them.

**Lifetime.** `phase`, `aborted`, `foreground` are the fields of the same names; a
record is an element of the collections `#cleanups`, `#interrupts`, `#publications`,
`#tasks`, `#acquisitions`, with the stage of its own disposal in `duty`. `work` is the
await at which `#finishShutdown` stands, `completion` the promise callers of
`dispose()` hold. The one synchronous section that is split is `dispose()`: reserving
joins and withdrawing publications (`Dispose`) comes before the abort broadcast
(`Broadcast`), since an abort listener may call back into the tree; `calls` is that
call stack, and no promise reaction runs while it is not empty. An acquisition and the
cleanup it becomes are one record. Error values and diagnostics are left out.

**Engine.** `pc` is the point at which a command stands, `scopes` the execution scopes
of the transition, `jobs` the two `#dispose` calls that may run at once (that of the
command, and that of quarantine). An instance is a pair of an installation and a
generation. Groups, drafts and reports are left out; a plan is a target composition.
In the mapping to `Host`, `Attempt` and `Aim` read off `pc` what the command is trying
and for which composition; an attempt begins when the affected instances are sealed,
since from then on nobody can reach them (`Reachable`: published and still active). A plan
is an open ticket while its compilation runs or it may still be used.

**Platform.** `op[o].at` is the await at which an `activate()` call stands. `select()`
is a command too, but changes nothing until its turn and is modelled there. Modules are
loaded in any order. Which versions satisfy a dependency is a set of artifacts.
Which other installations a plan restarts is the Host's choice. A commit of the
release of `dispose()` and its continuation are one action. In the mapping to
`Deliveries`, `Running` is the artifact the Host holds under a name, whoever bound it there;
a request is open from its call, entrusted from the handoff, effective once the Host has
committed, then fulfilled, or rejected when the Host has refused it, stranded when the Host
has committed it but failed to publish it, and answered when the call returns. The latter is
`HostCommitFails`: `Engine.#commit` advances the committed state before it publishes
(`engine.ts:635-655`), so that a failure there quarantines the Host with the new state and
makes `apply()` reject what has taken hold (`engine.ts:485-490`, `Engine!CommitFails`). It
counts two revisions, one for the commit and one for the quarantine. The removals of
`dispose()` may go the same way (`ReleaseFails`), whereupon the platform is active again. The edition of a name is the record of its registration: a request that was
made for a removed name is not about one registered anew.

**Loading.** `state` and `waiters` are those of a `Preparation`, `step` the await at which
`#load` stands, `cache` the weak map `loads`. The reactions to a result (telling the
waiters, forgetting a failed load) are one action: they are registered on one promise
one after the other. `close()` is called by the Platform when its activations have
settled; that is the guard of `Close`.

**Contributions.** A Map and a list of distinct keys are the relation "is, or stands before"
on their elements, which says as much as a sequence: two of them are equal exactly when
the sequences are. `claims` is the insertion order of `#claims`, `phase` the phase of a
claim, `pending` the set `pendingSubscriptions` of `snapshot-view.ts`; a listener that
calls back is any action between two `Notify` steps. Closed owners, which only refuse
calls, are left out; so are failing readers and reporters.

**Observation.** `call` is the foreign function that runs inside `observe()` or
`#createCurrent` (`subscribe`, `child`, the observer, `spawn`); while it is set, writes,
notifications and closing may happen and promise reactions may not. `drain` is the await
at which `#drain` stands, `work` that of `#disposeResources`; `#current` and
`#currentRelease` are the last child and its state. A reading of the source is atomic.

**Composition.** A record (`InstallationRecord`) and a group (`GroupNode`) is its number in
the order of creation, that is, its identity; ids may be used again. `attached` is the
projection a handle reads (`#read`): that of the drafts, that of the plans of a revision,
the Host's, or none, and then `terminal` is what it says. `plan` holds the compilation
of a draft from its first await on; whatever refuses it is `PlanRejected`. `writer` is the
`ContractRegistryWriter` of the transition; one contract id stands for all, and a plugin
uses it as a service, as an extension point or not at all. The order of the operations of a
draft tells nothing, since no target appears twice in it.

**Signals.** `graph` is all nodes with their values, versions, caches and edges; `Refresh`
is `#refresh` with everything it calculates, a recursive operator, since a read is one
synchronous section. A calculation reads one node and, depending on its value, another.
`toldAt` and `owed` are history: when an observer was told last and which writes it has to
be told of.

**Bridge.** `stack` is the call stack of foreign calls: the source's `subscribe`, `get` and
unsubscribe, the owner's `defer`, the observers of the signal. Only the last call runs,
and it may write, notify, dispose, or throw before it returns.

**Events.** Emissions that are still calling form the stack `calls`; while it is not
empty no promise reaction runs. `owner` and `phase` stand for the Lifetime that owns a
listener; a registration is used again once it is gone.

**Release.** `pc` is the await at which a run stands. Awaits are kept apart where a change
between them matters; those that only read one thing after the other and decide on all of it
are one step (the branch and the head in `Source`, history and local tag in `Fetch`, the
references and then the manifests in `References`, the index and the tree in `Record`,
manifests and other files in `Accept`). Where the code refuses to go on, the next step is
not enabled; `Fails` (an error, a timeout, a signal, a declined prompt, a dry run) and
`Crash` (the process is killed) are possible everywhere, and both forget all that `release()`
has found out (`Forgets`). A command that was sent may arrive after its run is gone (`flying`). A commit is
its parent, its ancestors, whether it only releases its parent, and its manifests; `dirty`
says that other files differ from it. Index and worktree are not told apart.

`Gate` builds from what the checkout holds while it runs. If nobody has worked in the clone since
`CheckAgain` looked at it (`quiet`), that is the tree of its head; otherwise it is some
commit's tree or a `Mixture` that is none. `Accept` only sees that the checkout is back at the
source. `quiet` and `disturbed`, the builds accepted from a clone that was worked in meanwhile, are
history: no step of a run depends on them. Developers edit manifests (`Edit`) and other
files (`Touch`), commit, check out, discard, and set or delete the tag in their clone
(`Retag`), each at any time (`Discard`: between two runs).

## 4. Runs

| Run | Shows |
|---|---|
| `lifetime` (`HonestShutdown`, `ReleaseIsLifo`, `ReleaseAfterQuiescence`, `KeepsPromise`, `ShutdownSettles`) | A root and a child with two records of any kind, borrows and deadlines: every interleaving of admission, early release, nested disposal, failing releases and deadlines gives true verdicts, releases in order above quiet scopes, implements the abstract owner of Ownership.tla, and ends; the deadline answers every caller although callbacks hang for ever. |
| `engine` (`IdleIsDeclared`, `NoEarlyPublication`, `NobodyIsForgotten`, `ProvidersOutlive`, `UsablePlanIsCurrent`, `TransitionsAreContained`, `ImplementsHost`, `HostSettles`) | An optional service gains, loses and swaps its provider under borrows, deadlines, failing setups and releases: a Host between commands is its declarations, consumers go before providers, nobody is published early, touched needlessly or forgotten, usable plans are current, every command and quarantine ends, and the application sees nothing but the abstract Host of Host.tla. |
| `platform` (`HandoffIsSound`, `ReportsAreTrue`, `InstallationsAreOwned`, `ImplementsDeliveries`) | A registration with two artifacts and one that needs the first of them: concurrent activations, selections, removals, disposal and outsiders; what the Host gets is current and authorised, what it holds is owned, outcomes and failures are true, and an activation is delivered whole at one instant or never and says which, as the abstract platform of Deliveries.tla promises; the one failure that took hold is that of a Host that broke over it, and is quarantined for good. |
| `platform_live` (`PlatformSettles`) | Loaders, authorisers and planning may hang for ever: cancelled activations and disposal end all the same. |
| `loading` (`WaitersShareLiveWork`, `NoUnwantedCall`) | Three callers of load() join, leave and replace up to four loads of two artifacts while authoriser and loader answer late or never: waiters share the one live load, and no adapter is asked for a module nobody wants. |
| `contributions` (`SubscribersSeeTheFinalSet`, `StoresAreExact`, `TransitionsAreAtomic`) | An old and a new claim of one key and a claim of another come, change and go inside and outside of transitions while two consumers read, subscribe, leave and call back from notifications. |
| `observation` (`GenerationsAreSerial`, `ClosedIsReleased`, `KeepsUp`) | A source is written while observe() builds, its drain replaces, the handle is disposed, the owner shuts down and any foreign call or release fails, in every order: generations are serial, closing is honest and ends, and the latest value is observed. |
| `release` (`TagMeansReleased`, `DependenciesFirst`, `ReleasesResume`, `ManifestsAreReturned`, `OthersWorkSurvives`) | Two clones run the release of two packages, crash, fail, are killed, resume and race each other, while others edit, commit, tag and check out in the same clones, push, tag and publish: a tag is there only when every package is readable, all from one build, of the tree it names unless the clone was changed and changed back during the gate; dependents never precede their dependencies, and nobody's work is lost. |
| `composition` (`HandlesTellTheTruth`, `CommittedIsClosed`, `OneKindForEver`) | Two drafts stage, are planned, overtaken, refused and applied while the Host starts, stops, fails and is quarantined and others claim contract kinds: handles tell the truth, the committed composition is one, a contract has one kind for ever. |
| `signals` (`ReadsAreFresh`, `ObserversAreTold`, `EdgesFollowObservers`) | Three computed signals over two sources, with a diamond, changing branches and a calculation that throws: observers come, go, write and read while they are told, in batches and outside: every read is fresh, every observer is told, every edge is needed. |
| `bridge` (`ShowsTheLatest`, `ReleaseIsHonest`) | A foreign source changes, throws and notifies, and an owner closes, inside each other's calls and at every point of attaching, refreshing and disposing: the bridge shows the latest value, and gives its subscription back once or says that it could not. |
| `events` (`DeliveryIsHonest`) | Two instances, one with a child scope, two listeners and two emissions that may nest: listeners register, withdraw, throw and reject, scopes are published, blocked and disposed at every point of an emission: each captured listener that is still there is called, no other is, and the emission ends with their failures. |

Bounds. Lifetime: a root with a child and two records reach every stage of the
shutdown, cross-scope failures, deadlines and the order of releases; that deeper trees do
not differ is proved, not checked. Engine: two installations and one service are
enough for a provider and a consumer to swap roles, for an optional provider to appear
and leave, and for failure inside undo and restoration; two commands allow a start and a
change, or a change and a change back on a stopped Host. That `Engine` implements `Host` is
checked with one plan, which commands of the Host void; that more plans do not matter is
proved. Platform: two overlapping activations
on a name with two artifacts and on a name that needs the first of them, two records of each name,
one act of an outsider; its liveness run has the one name. Loading: three callers,
two artifacts and four loads let a load be cancelled, replaced and end after its
successor began. Contributions: two claims of one key, so that a new generation takes the
place of the old, a claim of another key, two consumers, three lives of the store and one
update per claim. Observation: three writes of three values reach a change before, during and
after a replacement and a change back. Composition: two drafts, an initial installation in
an initial group, one more of each, two operations in all drafts together, two revisions and two ids:
enough for a draft that is overtaken by the other, for a namesake of a removed group and for a
claim between a plan and its commit. Signals: a diamond of three computed signals over two
sources whose branches change, a calculation that throws, three writes, two observers who nest once.
Bridge: four writes of two values and calls five deep, so that a refresh overtakes one that
overtook another. Events: two instances, one with a child, two listeners and two
emissions, which may nest in each other. Release: two clones, two packages, two runs of
the tool altogether and two acts of others.
The bounds are `MaxForeground`, `MaxCommands`, `MaxRevision`, `MaxRecord`, `MaxRecords`,
`MaxGroups`, `MaxOperations`, `MaxOutside`, `MaxLoads`, `MaxStores`, `MaxValue`, `MaxWrites`,
`MaxDepth`, `MaxRuns` and the constants' sets. Symmetry is used only in runs without liveness, over sets
whose elements no `CHOOSE` tells apart. `CHECK_DEADLOCK FALSE` is given
where the system may rest for good: once everything is disposed, quarantined, told, or no
command or act is left.

Fairness. `Lifetime!FairSpec`: promise reactions and timers happen. The plugin's
callbacks are not assumed to end, except in the premise of `ShutdownEnds`, where a
callback that was cancelled or began to release ends (`Cooperative`); the other part of
`ShutdownSettles`, `CallersAreAnswered`, needs only the deadline. `Engine!FairSpec`: promise reactions run, setups settle once they are
cancelled or on their own, and lifetimes end or reach their deadline, which is what
`Lifetime` shows. `Platform!FairSpec`: promise reactions run and the Host answers;
loaders, authorisers and the compilation of plans may hang for ever.
`Observation!FairSpec`: foreign calls return (the code requires them to be synchronous),
promise reactions run, a source tells its listeners, an owner runs a cleanup it is asked
for, and a child ends its release, well or badly; without the last the documented join of
the old child could not end.

## 5. What is proved

What is proved of Lifetime holds for every tree, every set of records and every bound, from `TreeAssumption`
(`Parent` and `Subtree` describe one finite-depth ownership tree, as `child()` builds
it) and `BoundAssumption`.

The properties of Lifetime are not inductive: that a disposed scope is empty follows
only from what each await of `#finishShutdown` left behind. `LifetimeInvariant!IInv`
says that. Its parts: `Lifecycle` (phase, work and completion agree), `Descent` (what a
scope has been through, everything below has), `Borrows`, `Cancellation` (a scope that
shuts down has been cancelled, or a `dispose()` on the stack is about to), `Shape`
(which duty a record of each kind may have), `Numbering` (records of a scope have
distinct, bounded numbers; LIFO rests on it), `Reports`, `Withdrawal`, `Joins`
(what each await has joined), `Offspring` (the captured children are all there are),
`Releases` (the release loop) and `Visibility`.

`LifetimeProofs` proves that every action on records keeps every part, then the
steps of `#finishShutdown`, then those that change the tree (children, publication,
blocking, `dispose`, the broadcast, deadlines). It combines them into `Spec => []IInv` and derives the safety properties
`TypeOK`, `DisposedIsEmpty`, `FailureEscalates`, `JoinsReserved`, `BorrowKeepsOpen`,
`ReleaseAfterQuiescence`, `ReleaseIsLifo`, `VerdictIsTrue`,
`NothingVisibleAfterWithdrawal` and `HonestShutdown`, which is three of them together. It also proves the action properties
`FailedIsForever` and `ShutdownIsOneWay` (the invariant and these two are proved and not
checked by a run of their own), and that Lifetime implements `Ownership`
(`KeepsPromise`): initial states map to initial states and every step to a step or a
stutter.

`EngineProofs` proves every safety property of `Engine`, for any set of installations, any
graphs, generations and commands, from `GraphAssumption` (a graph is what the planner
builds: each instance needs and serves a set of services) and `BoundAssumption`:
`IdleIsDeclared`, `NoEarlyPublication`, `NobodyIsForgotten`, `ProvidersOutlive`,
`UsablePlanIsCurrent` and `TransitionsAreContained`. None is inductive: that a provider
outlives its consumers follows from the point at which the command stands, and from
who was set up on whom long ago. The invariant has one part for each thing an `await` may
not lose: `Budget` (generations and revisions are used once), `Records` (what the
transition remembers: its removals and additions are the affected closure of its graphs),
`ConsumersFirst` and `BorrowsAreSafe` (an instance with consumers is not yet to be
released, in whichever of the two graphs they meet), `Layered` (set up so far is a
prefix of the layers), `Gathered` and `Transit` (what each point of a command has ended,
published or kept), `Accounts` (a live instance is committed, in transit, or held by a
quarantine) and `Departed` (who has left is owed nothing). The proof goes through the
actions of a command in the order of `#apply`, then undo, restoration and the two jobs of
`#dispose`.

It also proves that Engine implements `Host` (`PromiseToTheApplication`), which knows no
layers, no disposal and no rollback: whole compositions are served, one at a time, nobody
goes on serving without what it needs, no instance is served twice, and a ticket changes
the composition once and only on the revision it is for. Each step maps to a step of
`Host` or to a stutter (`HostStep`). A completion is whole because of `Gathered` and
`Transit`, a withdrawal takes the consumers along because the affected closure does
(`Withdrawal`), and a candidate was never shown because its generation was never used. The one
part added to the invariant is `Errands`: which points a start, a stop or a change may stand at in which
phase of the Host, and that nothing it has sealed can be reached.

`ObservationProofs` proves `GenerationsAreSerial` and `ClosedIsReleased` of `Observation`,
from `ObservationAssumption`. That the last child is gone before there is another
rests on who may call whom (`Control`: foreign code was called by `observe()` or by its
running drain), that closing is complete on which drain the disposal joined (`Joining`:
no other begins). The children of the model are a bounded set; `Supply` shows that the
bound restricts nothing, since each further child takes a write.

`BridgeProofs` proves `ShowsTheLatest` and `ReleaseIsHonest` of `Bridge`, both properties it
is checked for, from `BridgeAssumption` (the source never holds what stands for a failed
read, for `undefined` or for no answer; at least one call may be under way). Both speak of a
bridge at rest, and follow from what holds between any two steps of calls nested to any
depth: what is shown is old only where a read is still to come (`SeesChanges`), and the read
that counts is the last one (`LastReadCounts`), so that a read which was overtaken may be
dropped; a subscription is held by somebody who will end it or has said that it could not
(`HoldsTheSubscription`, `GoesOnce`), since an attachment that was closed meanwhile unwinds
by itself. `CallsNest` says who may be below whom: `#start` is at the bottom, and a call that
called on is at a point where foreign code runs.

`ReleaseProofs` proves every property of `Release`, for any number of clones,
packages, runs and acts of others, from `ReleaseAssumption`. That a tag is true
(`TheTagIsTrue`: every package is readable, all from one build, and from the tree of the tagged
commit unless its clone was changed and changed back during the gate) rests on
what a run has made sure of by the point it is at (`Referred`, `Compared`, `Recorded`: from
`Accept` on, its candidates are of the source's tree or among the `disturbed`), on
what its commands carry when they arrive long after it was killed (`Sent`), and on a release
commit being its parent but for the version (`History`). `Waiting` states once that nothing
which happens meanwhile can take it away, because commits and readable versions stay what
they are (`Later`). `ManifestsAreReturned` needs only who remembers a bump (`Bumps`).
`ReleasesResume` speaks of a run nobody interferes with; its invariant is `Undisturbed`:
there is at most the one release commit, made when every package was readable, and the
checkout and what the run remembers of it agree with that.

`ContributionsProofs` proves all three properties of `Contributions`, for any extension
points, contributions, consumers and bounds, from `ContributionAssumption`. The set of keys
a subscriber sees is right only between transitions, so the invariant says what is true
meanwhile: the list of a store is complete unless the batch will publish it (`Shows`); who
is not about to be told knows the list, and every value that is published was published
when he read it and has not changed since (`Tells`); claims are in their store, with ids of their
own (`Sorted`); only a batch leaves something to publish, and tells nobody (`Batched`).
`PublishFacts` is what `publishSnapshot` gives, for one store at once or for all of a
batch at its end, and `KeptFacts` what all that publishes nothing keeps.

`CompositionProofs` proves `CommittedIsClosed`, `OneKindForEver` and `HandlesTellTheTruth` of
`Composition`, for any drafts, ids, kinds and bounds. None is inductive: what is committed was compiled
long before, against a state of that time, and its kinds were taken when the transition
began. The invariant says that what a plan promises is sound (groups closed under
parents, installations in groups of the plan, ids unambiguous, one kind:
`PlansAreSound`), and so is the candidate under execution (`TargetIsSound`) and what is
committed (`StateIsSound`). It stays so whatever is staged meanwhile, because
records and groups never change once they exist (`SoundGrows`). `CompiledIsSound` is the
theorem about the planner: whatever it accepts is sound. `WriterHolds` says that the writer
has the kind of all it would commit, and `KindIsKnown` that the registry has the kind of
all that is committed; `Committable` is what keeps the two together. What handles say
rests on a second invariant, `HInv`: a record waits in one place, a draft, a plan or the
transition (`Places`), so that each switch of a projection finds all records concerned
(`Handles`), and a plan or a candidate that is out of date is known to be
(`PlansAreTimely`, `TargetIsTimely`).

`PlatformProofs` proves `HandoffIsSound`, `ReportsAreTrue`, `InstallationsAreOwned` and
`CommitsAreSound` of `Platform` from `ArtifactAssumption`, for any names, artifacts, dependencies, operations
and bounds; of `BoundAssumption` it needs nothing. Each is about something an activation found
out before it waited. The invariant says why that is still true: `Roles` (one command executes,
and the disposal begins when every activation has ended), `Honesty` (what an operation
says of itself: signal, handoff, outcome), `Fitness` (what it has found out and relies on:
its plan starts nothing it removes, whatever it removes is among its drops while it
executes, what it handed over is current, and what it had authorised is what would
start, as long as the Host has the revision of the plan) and `Emptying` (what a disposal
has still to release). Beside it stands `Stranded`: what took hold and is not, or will not be, reported as done
did so on a Host that is quarantined, and a Host never leaves quarantine. The proof that an update of one operation keeps it is stated once
(`OpStep`), as are the steps that fail (`ThrownStep`), go on quietly (`QuietStep`), abort
(`AbortStep`) and come from outsiders (`OutsideStep`: they change the revision).

`CommitsAreSound` is proved and follows from what is checked, since a delivery of `Deliveries`
fits together. It rests on a second invariant, `CInv`. A plan is the least set of names with
its roots and all they need (`Least`), what was captured of a registration is what it selects
while record and revision are the same (`Captured`), and on the revision of its plan an
execution installs what is missing and drops only what it removes (`Matches`). So the plan
checked again at the turn of the activation is the plan it loaded (`PlanIsStillThePlan`:
`Selections` takes what all closed sets have in common, and the least is unique), and what
the Host commits is the candidate that was found sound.

`PromiseOfDelivery` proves that Platform implements `Deliveries`, which has no queue, no
loading, no authorisation and no plans: a request takes effect at one instant or never, it
takes effect whole - all it needs runs as selected at that instant, what it removes is gone,
the artifacts of all others stay - and its answer says whether it did, with one exception that
`Deliveries` states: a request the Host broke over is delivered and answered with an error
(`Strand`), and a broken Host keeps what it has for good. So "ok" means delivered and "aborted" means
not delivered, but after "error" on a Host that is quarantined one has to look. The instant is the commit of the Host,
or the turn of an activation that finds nothing to do (`NothingToDoMaps`); that what is delivered is what the
selections of that instant ask for is `PlanIsStillThePlan`, that others stay is
`Matches`, and that it fits is `CommitsAreSound`. Each step maps to a step of
`Deliveries` or to a stutter (`DeliveriesStep`, from one lemma per step: `AbortedMaps` for all
that cancels, `AnswerMaps` for all that answers, `FailuresMap` for all that fails). It needs one more invariant,
`Telling`: only what has begun is cancelled, whoever failed says so, and a platform
that closes has cancelled all it had not decided.

`PlatformProofs` also proves `WaitersShareLiveWork` and `NoUnwantedCall` of `Loading`, from
`LoadAssumption`. That a waiter's load is in the cache is not inductive;
`LoadingInvariant` adds what holds of a load nobody has asked about (`StartedInOrder`, `Known`,
`Live`), of results (`Answered`), that waiters and loads know each other (`Attended`), and
that nothing runs after `close()` (`Silent`).

A trap for whoever extends this: TLC reads `SUBSET S \ T` as `(SUBSET S) \ T`, `tlapm` as
`SUBSET (S \ T)`. Such expressions carry their parentheses here, so that both speak of the same set.

Only model-checked: the liveness properties (`HostSettles`,
`ShutdownSettles`, `KeepsUp`, `PlatformSettles`: fairness is outside what the proof
system handles here) and the properties of `Signals` and `Events`. Nothing can be proved
of `Signals`, whose `Refresh` is recursive; `Events` keeps its listeners in sequences that
it filters, about which the proof system knows nothing but by induction.

## 6. What the checks say about the code

No disagreement between code and documentation was found; the checks confirm, among others,
`docs/en/guide/lifetime.md:40-44` (joins, order of release),
`docs/en/guide/transactions.md` (quarantine is terminal and late progress does not
advance the revision) and `docs/en/reference/architecture.md:69-79` (consumers before
providers, failed consumers retain their providers).

One dependence is worth knowing: `Lifetime.publish` alone would publish a tree in which
the withdrawal of a child's publication has already failed. What prevents it is that the
Host blocks the whole instance inside `releaseFailed`; `Report` and `Dispose`
of `Lifetime` carry that reaction, and the proof of `Visibility` uses it.

Another concerns the release tool: a run compares a manifest only with what it has read
itself (`release-session.mjs:290-307`). If a developer commits an edit, the run starts, and
the developer goes to another commit and edits the manifest back to that content before
it is replaced, the run replaces it. Nothing is lost that is not returned
(`ManifestsAreReturned`), but "not edited" means "as it was read", and that is what
`OthersWorkSurvives` says. Larger bounds than those of the run are needed to see it.

The gate of the release tool has a gap of the same kind. `pnpm check` builds from the checkout
for minutes, and `release.mjs:382-396` compare only what is there afterwards with the source. An
edit that is made and undone meanwhile, or a checkout of another commit and back, is built and
published under the tag of the source. `TagMeansReleased` therefore says "unless the clone was
changed and changed back": without `disturbed` in `Renders` it fails in the bounds of the
run. A build in a worktree of its own would close the gap.

And an activation that reports an error may have taken hold, if the Host failed to publish what it
had committed (section 3, Platform). `docs/en/guide/platform.md:34` says only that the caller
receives the actual Core outcome, and the outcome is a quarantine.

## 7. Not modelled

Values and formatting (errors, logging, diagnostics, status, snapshots as data, the reports
of a plan), validation without state (configuration, plugin descriptions, manifests,
permissions, wrong arguments), adapters to the JavaScript runtime (abort signals,
thenables, disposal symbols: the models use what they do), generated code, build and lint
scripts, examples and documentation. They have no state or interleaving of their own:
a test of inputs and outputs reaches all they can do.

Of the modelled components: the order of installations inside a setup layer and the
error receipts (Engine), initial compositions of several groups (Composition; a
draft builds them), previews and the order of loading (Platform), failing readers and
publishers that read publishers (snapshot views), calculations that read themselves
(Signals), writes refused inside calculations (Bridge). `PROJECT.json` lists every
component with its status.
