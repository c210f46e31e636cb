----------------------------- MODULE Composition -----------------------------
(***************************************************************************)
(* Drafts, plans, groups and installation handles of a Host, and the kinds *)
(* of its contracts: packages/dougong/src/composition/change-set.ts,       *)
(* group.ts, installation.ts, planner.ts, plan.ts,                         *)
(* contracts/contract-registry.ts and their use in execution/engine.ts.    *)
(*                                                                         *)
(* What Engine leaves out is here: operations that are staged in drafts,   *)
(* compiled while the Host moves on, and refused or committed.  What       *)
(* Engine is about is reduced to its outcome: a transition commits, fails  *)
(* and is restored, or quarantines the Host.                               *)
(*                                                                         *)
(* A record or a group is its number, its identity in the code; ids may be *)
(* used again.  One contract id stands for all: a plugin uses it as a      *)
(* service, as an extension point, or not at all.                          *)
(***************************************************************************)
EXTENDS Integers, FiniteSets, Sequences

CONSTANTS
    Drafts,        \* change sets; each is planned once
    Kinds,         \* service, extension point, event
    Names,         \* ids of installations and of groups
    MaxRecords, MaxGroups, MaxOperations, MaxRevision

ASSUME CompositionAssumption ==
    /\ MaxRecords \in Nat /\ MaxGroups \in Nat
    /\ MaxOperations \in Nat /\ MaxRevision \in Nat

VARIABLES
    records, nodes,  \* InstallationRecord and GroupNode, in the order of creation
    draft,           \* DraftState; #open has the drafts whose state is "open"
    plan,            \* the plan of each draft: compiling, issued, ...
    state,           \* CommittedState
    attached,        \* #read of each record: which projection it asks
    terminal,        \* #terminal of each record
    transition,      \* #transition: the plan that is executed, and where
    writer,          \* ContractRegistryWriter of the transition
    kind             \* #kinds of the contract

vars == <<records, nodes, draft, plan, state, attached, terminal, transition, writer, kind>>
handleVars == <<attached, terminal>>

NoKind == "none"
Plugins == Kinds \union {NoKind}
Root == 0                              \* no group, no parent

\* Which projection a handle reads: none, that of the drafts, the Host's, or
\* that of the plans of a revision.
Detachment == -1
OfDrafts == -2
OfHost == -3

Installations == 1 .. Len(records)
Groups == 1 .. Len(nodes)

NoDraft == [state |-> "none", operations |-> {}]
NoPlan == [state |-> "none", base |-> 0, ok |-> FALSE, empty |-> FALSE, new |-> {},
           groups |-> {}, declarations |-> <<>>]
Rest == [intent |-> "none", at |-> "rest", plan |-> NoPlan]
NoWriter == [phase |-> "none", pending |-> NoKind]

Healthy == state.phase # "quarantined"
Declared(declarations) == DOMAIN declarations
KindsOf(declarations) == {declarations[r] : r \in Declared(declarations)} \ {NoKind}
Compatible(k, known) == k = NoKind \/ known \in {NoKind, k}

\* The constructor: one group with one installation.
Init ==
    /\ \E n \in Names, p \in Plugins :
        /\ records = <<[id |-> n, group |-> 1]>>
        /\ nodes = <<[id |-> n, parent |-> Root]>>
        /\ state = [phase |-> "stopped", revision |-> 0, groups |-> {1}, declarations |-> <<p>>]
        /\ kind = p
    /\ draft = [d \in Drafts |-> NoDraft]
    /\ plan = [d \in Drafts |-> NoPlan]
    /\ attached = <<OfHost>> /\ terminal = <<"pending">>
    /\ transition = Rest /\ writer = NoWriter

-----------------------------------------------------------------------------
(* Drafts.  A target appears once in a draft, so that the order of its     *)
(* operations tells nothing.                                               *)

Change(d) ==
    /\ Healthy
    /\ draft[d] = NoDraft
    /\ draft' = [draft EXCEPT ![d].state = "open"]
    /\ UNCHANGED <<records, nodes, plan, state, handleVars, transition, writer, kind>>

\* requireOpen and #stage: nothing is staged in a quarantined Host, in a draft
\* that was planned, or twice for one target.
Stage(d, operation) ==
    /\ Healthy /\ draft[d].state = "open"
    /\ Cardinality(UNION {draft[e].operations : e \in Drafts}) < MaxOperations
    /\ \A o \in draft[d].operations : <<o.on, o.target>> # <<operation.on, operation.target>>
    /\ draft' = [draft EXCEPT ![d].operations = @ \union {operation}]

Operation(on, do, target, plugin) == [on |-> on, do |-> do, target |-> target, plugin |-> plugin]

Install(d, n, g, p) ==
    /\ Len(records) < MaxRecords
    /\ Stage(d, Operation("installation", "add", Len(records) + 1, p))
    /\ records' = Append(records, [id |-> n, group |-> g])
    /\ attached' = Append(attached, OfDrafts)
    /\ terminal' = Append(terminal, "pending")
    /\ UNCHANGED <<nodes, plan, state, transition, writer, kind>>

Update(d, r, p) ==
    /\ Stage(d, Operation("installation", "update", r, p))
    /\ UNCHANGED <<records, nodes, plan, state, handleVars, transition, writer, kind>>

Remove(d, r) ==
    /\ Stage(d, Operation("installation", "remove", r, NoKind))
    /\ UNCHANGED <<records, nodes, plan, state, handleVars, transition, writer, kind>>

Group(d, n, g) ==
    /\ Len(nodes) < MaxGroups
    /\ Stage(d, Operation("group", "add", Len(nodes) + 1, NoKind))
    /\ nodes' = Append(nodes, [id |-> n, parent |-> g])
    /\ UNCHANGED <<records, plan, state, handleVars, transition, writer, kind>>

RemoveGroup(d, g) ==
    /\ Stage(d, Operation("group", "remove", g, NoKind))
    /\ UNCHANGED <<records, nodes, plan, state, handleVars, transition, writer, kind>>

Targets(d, on, do) ==
    {o.target : o \in {p \in draft[d].operations : p.on = on /\ p.do = do}}
Installed(d) == Targets(d, "installation", "add")

-----------------------------------------------------------------------------
(* The planner.                                                            *)

\* The groups that leave with the removed ones: whole subtrees.
Doomed(groups, removed) ==
    LET under[g \in {Root} \union Groups] ==
          g \in groups /\ (g \in removed \/ under[nodes[g].parent])
    IN  {g \in groups : under[g]}

\* Mutant: a group of the same id will do.
ClosedById(groups, declarations) ==
    LET known(g) == g = Root \/ \E h \in groups : nodes[h].id = nodes[g].id
    IN  /\ \A g \in groups : known(nodes[g].parent)
        /\ \A r \in Declared(declarations) : known(records[r].group)

\* assertGroups: parents and groups are committed, by identity.
Closed(groups, declarations) ==
    /\ \A g \in groups : nodes[g].parent \in groups \union {Root}
    /\ \A r \in Declared(declarations) : records[r].group \in groups \union {Root}

Distinct(sequence, set) == \A a, b \in set : sequence[a].id = sequence[b].id => a = b

\* compileTransition up to its first await.
Compiled(d) ==
    LET created == Targets(d, "group", "add")
        removed == Targets(d, "group", "remove")
        installed == Installed(d)
        updated == Targets(d, "installation", "update")
        dropped == Targets(d, "installation", "remove")
        before == Declared(state.declarations)
        doomed == Doomed(state.groups \union created, removed)
        kept == (before \union installed) \ dropped
        lost == {r \in kept : records[r].group \in doomed}
        plugin(r) == CHOOSE p \in Plugins :
                       IF r \in installed \union updated
                       THEN \E o \in draft[d].operations :
                              o.on = "installation" /\ o.target = r /\ o.plugin = p
                       ELSE p = state.declarations[r]
        groups == (state.groups \union created) \ doomed
    IN  IF /\ Distinct(nodes, state.groups \union created)
           /\ Distinct(records, before \union installed)
           /\ updated \union dropped \subseteq before
           /\ removed \union doomed \subseteq state.groups
           /\ lost \intersect (installed \union updated) = {}
        THEN LET declarations == [r \in kept \ lost |-> plugin(r)]
             IN  [ok |-> /\ Closed(groups, declarations)
                         /\ \A k, l \in KindsOf(declarations) : k = l
                         /\ \A k \in KindsOf(declarations) : Compatible(k, kind),
                  groups |-> groups, declarations |-> declarations]
        ELSE [ok |-> FALSE, groups |-> {}, declarations |-> <<>>]

\* plan(): the draft is taken, and compiled against the state of this moment.
Plan(d) ==
    LET c == Compiled(d)
    IN  /\ Healthy /\ draft[d].state = "open"
        /\ draft' = [draft EXCEPT ![d] = [state |-> "taken", operations |-> {}]]
        /\ plan' = [plan EXCEPT ![d] =
             [state |-> "compiling", base |-> state.revision, ok |-> c.ok,
              empty |-> draft[d].operations = {}, new |-> Installed(d),
              groups |-> c.groups, declarations |-> c.declarations]]
        /\ UNCHANGED <<records, nodes, state, handleVars, transition, writer, kind>>

\* The records of rs that are not committed are told that they never will be.
Detached(rs, declarations) ==
    /\ attached' = [r \in Installations |->
                      IF r \in rs \ Declared(declarations) THEN Detachment ELSE attached[r]]
    /\ terminal' = [r \in Installations |->
                      IF r \in rs \ Declared(declarations) THEN "removed" ELSE terminal[r]]

\* While an observer of a transition's beginning runs, no promise is settled.
Settling == transition.at # "ingress"

\* The candidate is still one the Host could execute.
StillTrue(d) ==
    /\ plan[d].ok /\ plan[d].base = state.revision
    /\ \A k \in KindsOf(plan[d].declarations) : Compatible(k, kind)

\* #plans.issue; new records now wait with the plans of this revision.
PlanIssued(d) ==
    /\ Settling /\ plan[d].state = "compiling"
    /\ StillTrue(d)
    /\ plan' = [plan EXCEPT ![d].state = "issued"]
    /\ attached' = [r \in Installations |->
                      IF r \in Declared(plan[d].declarations) \ Declared(state.declarations)
                      THEN state.revision ELSE attached[r]]
    /\ UNCHANGED <<records, nodes, draft, state, terminal, transition, writer, kind>>

\* An error, a validator's complaint, the caller's signal, another revision.
PlanRejected(d) ==
    /\ Settling /\ plan[d].state = "compiling"
    /\ plan' = [plan EXCEPT ![d] = NoPlan]
    /\ Detached(plan[d].new, state.declarations)
    /\ UNCHANGED <<records, nodes, draft, state, transition, writer, kind>>

-----------------------------------------------------------------------------
(* Contract kinds.                                                         *)

\* remember() on behalf of code that is not being prepared.
Claim(k) ==
    /\ kind = NoKind
    /\ kind' = k
    /\ UNCHANGED <<records, nodes, draft, plan, state, handleVars, transition, writer>>

\* A candidate under preparation claims through the writer.
CandidateClaims(k) ==
    /\ transition.at = "preparing" /\ writer.phase = "staged"
    /\ writer.pending = NoKind /\ Compatible(k, kind)
    /\ writer' = [writer EXCEPT !.pending = k]
    /\ UNCHANGED <<records, nodes, draft, plan, state, handleVars, transition, kind>>

\* Mutant: kinds that were free when they were staged are taken.
CommittableAsStaged == writer.phase = "staged"
\* registry.commit(): what was claimed meanwhile stays.
Committable == writer.phase = "staged" /\ Compatible(writer.pending, kind)
WriterCommits ==
    /\ Committable
    /\ kind' = IF writer.pending = NoKind THEN kind ELSE writer.pending

-----------------------------------------------------------------------------
(* Transitions.                                                            *)

\* #plans.read refuses, and uses up, what was prepared for another revision.
ApplyStale(d) ==
    /\ Healthy /\ transition = Rest
    /\ plan[d].state = "issued" /\ plan[d].base # state.revision
    /\ plan' = [plan EXCEPT ![d] = NoPlan]
    /\ UNCHANGED <<records, nodes, draft, state, handleVars, transition, writer, kind>>

Usable(d) == plan[d].state = "issued" /\ plan[d].base = state.revision

ApplyNothing(d) ==
    /\ Healthy /\ transition = Rest
    /\ Usable(d) /\ plan[d].empty
    /\ plan' = [plan EXCEPT ![d] = NoPlan]
    /\ UNCHANGED <<records, nodes, draft, state, handleVars, transition, writer, kind>>

\* The writer refuses a kind that was claimed since the plan was issued.
ApplyConflicting(d) ==
    /\ Healthy /\ transition = Rest
    /\ Usable(d) /\ ~plan[d].empty
    /\ \E k \in KindsOf(plan[d].declarations) : ~Compatible(k, kind)
    /\ plan' = [plan EXCEPT ![d] = NoPlan]
    /\ Detached(Declared(plan[d].declarations), state.declarations)
    /\ UNCHANGED <<records, nodes, draft, state, transition, writer, kind>>

Staged(declarations) ==
    [phase |-> "staged",
     pending |-> CHOOSE k \in Plugins : KindsOf(declarations) \subseteq {k}
                                        /\ (k = NoKind \/ k \in KindsOf(declarations))]

\* Observers are told before anything else happens.
Apply(d) ==
    /\ Healthy /\ transition = Rest
    /\ Usable(d) /\ ~plan[d].empty
    /\ \A k \in KindsOf(plan[d].declarations) : Compatible(k, kind)
    /\ plan' = [plan EXCEPT ![d] = NoPlan]
    /\ transition' = [intent |-> "change", at |-> "ingress", plan |-> plan[d]]
    /\ writer' = Staged(plan[d].declarations)
    /\ UNCHANGED <<records, nodes, draft, state, handleVars, kind>>

\* start() and stop(): the declarations are those there are.
Lifecycle(intent) ==
    /\ Healthy /\ transition = Rest
    /\ state.phase = IF intent = "start" THEN "stopped" ELSE "running"
    /\ transition' = [intent |-> intent, at |-> "ingress",
                      plan |-> [NoPlan EXCEPT !.base = state.revision, !.groups = state.groups,
                                              !.declarations = state.declarations]]
    /\ writer' = Staged(state.declarations)
    /\ UNCHANGED <<records, nodes, draft, plan, state, handleVars, kind>>

Executing == transition.at # "rest"
Target == transition.plan
\* A stopped Host and stop() prepare nothing.
Direct == transition.intent = "stop" \/ (state.phase = "stopped" /\ transition.intent # "start")

Prepares ==
    /\ Healthy /\ transition.at = "ingress" /\ ~Direct
    /\ transition' = [transition EXCEPT !.at = "preparing"]
    /\ UNCHANGED <<records, nodes, draft, plan, state, handleVars, writer, kind>>

\* Mutant: handles of removed installations keep asking the Host.
CommittedHandlesOfNew(new) ==
    /\ attached' = [r \in Installations |-> IF r \in new \ Declared(state.declarations)
                                            THEN OfHost ELSE attached[r]]
    /\ UNCHANGED terminal

\* #commit: new records ask the Host, removed ones are told.
CommittedHandles(new) ==
    LET old == Declared(state.declarations)
    IN  /\ attached' = [r \in Installations |-> IF r \in new \ old THEN OfHost
                                                ELSE IF r \in old \ new THEN Detachment
                                                ELSE attached[r]]
        /\ terminal' = [r \in Installations |->
                          IF r \in old \ new THEN "removed" ELSE terminal[r]]

Commits ==
    /\ Healthy /\ transition.at = IF Direct THEN "ingress" ELSE "preparing"
    /\ state.revision < MaxRevision
    /\ WriterCommits
    /\ state' = [phase |-> IF transition.intent = "start" THEN "running"
                           ELSE IF transition.intent = "stop" THEN "stopped" ELSE state.phase,
                 revision |-> state.revision + 1,
                 groups |-> Target.groups, declarations |-> Target.declarations]
    /\ CommittedHandles(Declared(Target.declarations))
    /\ transition' = [transition EXCEPT !.at = "finally"]
    /\ writer' = [writer EXCEPT !.phase = "committed"]
    /\ UNCHANGED <<records, nodes, draft, plan>>

\* Without anything to undo the refusal of the writer is all there is.
DirectFails ==
    /\ Healthy /\ transition.at = "ingress" /\ Direct /\ ~Committable
    /\ transition' = [transition EXCEPT !.at = "finally"]
    /\ UNCHANGED <<records, nodes, draft, plan, state, handleVars, writer, kind>>

\* A setup or the writer fails: the previous state is a new revision.
Restored ==
    /\ Healthy /\ transition.at = "preparing"
    /\ state.revision < MaxRevision
    /\ state' = [state EXCEPT !.revision = @ + 1]
    /\ writer' = [writer EXCEPT !.phase = "discarded"]
    /\ transition' = [transition EXCEPT !.at = "finally"]
    /\ UNCHANGED <<records, nodes, draft, plan, handleVars, kind>>

\* A failed release, undo, restoration or publication, in a transition or at
\* any time while something runs.
Quarantine ==
    /\ Healthy /\ state.revision < MaxRevision
    /\ state.phase = "running" \/ transition.at \in {"preparing", "finally"}
    /\ state' = [state EXCEPT !.phase = "quarantined", !.revision = @ + 1]
    /\ attached' = [r \in Installations |->
                      IF r \in Declared(state.declarations) THEN Detachment ELSE attached[r]]
    /\ terminal' = [r \in Installations |->
                      IF r \in Declared(state.declarations) THEN "quarantined" ELSE terminal[r]]
    /\ UNCHANGED <<records, nodes, draft, plan, transition, writer, kind>>

\* The finally block of #execute.
Ends ==
    /\ Executing
    /\ transition.at = "finally" \/ ~Healthy
    /\ Detached(Declared(Target.declarations), state.declarations)
    /\ transition' = Rest /\ writer' = NoWriter
    /\ UNCHANGED <<records, nodes, draft, plan, state, kind>>

Next ==
    \/ \E d \in Drafts :
        \/ Change(d) \/ Plan(d) \/ PlanIssued(d) \/ PlanRejected(d)
        \/ ApplyStale(d) \/ ApplyNothing(d) \/ ApplyConflicting(d) \/ Apply(d)
        \/ \E n \in Names, g \in Groups \union {Root} :
             Group(d, n, g) \/ \E p \in Plugins : Install(d, n, g, p)
        \/ \E r \in Installations : Remove(d, r) \/ \E p \in Plugins : Update(d, r, p)
        \/ \E g \in Groups : RemoveGroup(d, g)
    \/ \E k \in Kinds : Claim(k) \/ CandidateClaims(k)
    \/ \E intent \in {"start", "stop"} : Lifecycle(intent)
    \/ Prepares \/ Commits \/ DirectFails \/ Restored \/ Quarantine \/ Ends

Spec == Init /\ [][Next]_vars

-----------------------------------------------------------------------------
TypeOK ==
    /\ records \in Seq([id : Names, group : Groups \union {Root}])
    /\ nodes \in Seq([id : Names, parent : Nat])
    /\ \A d \in Drafts :
         /\ draft[d].state \in {"none", "open", "taken"}
         /\ plan[d].state \in {"none", "compiling", "issued"}
         /\ plan[d].base \in 0 .. MaxRevision /\ plan[d].groups \subseteq Groups
         /\ \A o \in draft[d].operations :
              o.target \in IF o.on = "group" THEN Groups ELSE Installations
    /\ state.phase \in {"stopped", "running", "quarantined"}
    /\ state.revision \in 0 .. MaxRevision /\ state.groups \subseteq Groups
    /\ state.declarations \in [Declared(state.declarations) -> Plugins]
    /\ Declared(state.declarations) \subseteq Installations
    /\ attached \in [Installations -> {Detachment, OfDrafts, OfHost} \union (0 .. MaxRevision)]
    /\ terminal \in [Installations -> {"pending", "removed", "quarantined"}]
    /\ transition.intent \in {"change", "start", "stop", "none"}
    /\ transition.at \in {"rest", "ingress", "preparing", "finally"}
    /\ writer.phase \in {"none", "staged", "committed", "discarded"}
    /\ writer.pending \in Plugins /\ kind \in Plugins

\* What a handle says: it asks its draft, its plan or the Host, or is detached.
Status(r) ==
    CASE attached[r] = Detachment -> terminal[r]
      [] attached[r] = OfDrafts   -> IF Healthy THEN "pending" ELSE "removed"
      [] attached[r] = OfHost     -> IF r \in Declared(state.declarations) THEN "live" ELSE "pending"
      [] OTHER -> IF attached[r] = state.revision THEN "pending" ELSE "removed"

\* A handle says "pending" exactly while a draft, a compilation, a usable plan
\* or its execution may still install it; "removed" for ever after; and of a
\* committed installation whether its Host is quarantined, although handles
\* are switched by five different operations (change-set.ts:208, plan.ts:130,
\* engine.ts:645, 666, 853) and whole revisions of them by one cell.
HandlesTellTheTruth ==
    \A r \in Installations :
        LET waits ==
              \/ \E d \in Drafts : \/ r \in Installed(d)
                                   \/ r \in plan[d].new /\ (plan[d].state = "compiling" \/ Usable(d))
              \/ r \in Target.new /\ Target.base = state.revision
        IN  IF r \in Declared(state.declarations)
            THEN Status(r) = IF Healthy THEN "live" ELSE "quarantined"
            ELSE transition.at # "finally" =>
                   Status(r) = IF Healthy /\ waits THEN "pending" ELSE "removed"

\* The committed composition is one: ids name one group and one installation,
\* and every parent and every group of an installation is committed itself and
\* not a namesake, whichever drafts were compiled against which state.
CommittedIsClosed ==
    /\ Distinct(nodes, state.groups) /\ Distinct(records, Declared(state.declarations))
    /\ \A g \in state.groups : nodes[g].parent # Root => nodes[g].parent \in state.groups
    /\ \A r \in Declared(state.declarations) :
         records[r].group # Root => records[r].group \in state.groups

\* A contract id has one kind for ever, also after its last user has left, and
\* it is the kind all committed declarations use, although transitions stage
\* their claims while others make theirs (contract-registry.ts:4, engine.ts:443).
OneKindForEver ==
    /\ [](KindsOf(state.declarations) \subseteq {kind})
    /\ [][kind # NoKind => kind' = kind]_vars
=============================================================================
