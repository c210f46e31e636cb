---------------------------- MODULE EngineProofs ----------------------------
(***************************************************************************)
(* Proofs about Engine, for any installations, services, compositions,     *)
(* plans and bounds.                                                       *)
(*                                                                         *)
(* A command awaits disposals and setups while instances fail by           *)
(* themselves.  The invariant says what it may still rely on afterwards:   *)
(* while the Host is healthy, each control point knows which instances are *)
(* disposed, which serve and which are candidates; when it is quarantined, *)
(* all that is left is accounted for and nothing is relied on any more.    *)
(***************************************************************************)
EXTENDS EngineHost, TLAPS

Gated == pc \in {"idle", "validating", "ready"}
Underway == pc \in {"stopping", "preparing", "undoing", "restoring", "undoingRestore"}
Undoing == pc \in {"undoing", "undoingRestore"}

\* Outside of A the composition h is g, and needs nothing of A.
Covers(g, h, A) ==
    /\ A \subseteq Installations
    /\ Members(g) \ A = Members(h) \ A
    /\ \A x \in Members(g) \ A : /\ Needs(g, x) = Needs(h, x)
                                 /\ Needs(g, x) \intersect A = {}

\* Who is in an execution scope is bound to the providers in that scope.
Linked(s) ==
    \A c \in s.instances :
        /\ c[1] \in Members(s.graph) /\ phase[c] # "none"
        /\ bound[c] = {p \in s.instances : p[1] \in Needs(s.graph, c[1])}

Serving(i) == phase[i] = "active" /\ i \in shown /\ setup[i] = "done"

Plan == [status : {"none", "compiling", "issued", "stale", "consumed"}, base : Nat,
         graph : Graphs, empty : BOOLEAN, affected : SUBSET Installations]
JobRecord == [on : BOOLEAN, scopes : SUBSET Scopes, targets : SUBSET Instances,
              running : SUBSET Instances, done : SUBSET Instances, failed : BOOLEAN]
Jobs == {"command", "quarantine"}

Types ==
    /\ hostPhase \in {"stopped", "running", "quarantined"}
    /\ revision \in Nat /\ submitted \in Nat /\ generation \in Nat
    /\ graph \in Graphs /\ Valid(graph)
    /\ live \subseteq Instances /\ unresolved \subseteq Instances
    /\ plans \in [Plans -> Plan]
    /\ queue \in Seq(Commands) /\ (pc # "idle" => cmd \in Commands)
    /\ pc \in Points
    /\ affected \subseteq Installations /\ passed \subseteq Installations
    /\ scopes \in Seq(Scopes) /\ layer \subseteq Instances
    /\ jobs \in [Jobs -> JobRecord]
    /\ phase \in [Instances -> Phases]
    /\ setup \in [Instances -> {"none", "running", "done", "failed"}]
    /\ foreground \in [Instances -> Nat]
    /\ bound \in [Instances -> SUBSET Instances]
    /\ tainted \subseteq Instances /\ rejected \subseteq Instances
    /\ shown \subseteq Instances

\* Every command prepares at most twice.
Reserve == IF pc \in {"validating", "ready", "stopping"} THEN 2
           ELSE IF pc \in {"preparing", "undoing"} THEN 1 ELSE 0
Budget == /\ submitted <= MaxCommands
          /\ generation + 2 * Len(queue) + Reserve <= 2 * submitted
          /\ Underway /\ pc # "stopping" => generation >= 1

PlansAreCurrent ==
    \A p \in Plans : plans[p].status \in {"compiling", "issued"} =>
        /\ Healthy /\ plans[p].base = revision
        /\ Covers(graph, plans[p].graph, plans[p].affected) /\ Valid(plans[p].graph)

\* Whoever can still be disposed of by a job finds all its consumers in it.
Covering(job) ==
    \A i \in job.targets, c \in Instances :
        job.on /\ i \in bound[c] /\ phase[c] # "disposed" => c \in Consumers(i, job.scopes)

\* What is true of instances in every phase of the Host.
Records ==
    /\ \A i \in Instances : phase[i] = "none" => /\ bound[i] = {} /\ ~Busy(i) /\ i \notin shown
    /\ \A i \in Instances : phase[i] # "none" => i[2] <= generation
    /\ \A c \in Instances : \A p \in bound[c] : phase[p] # "none"
    /\ \A i \in shown : setup[i] = "done" /\ (phase[i] = "active" => i \in live)
    /\ \A j \in Jobs : /\ jobs[j].running \subseteq jobs[j].targets
                       /\ \A i \in jobs[j].targets : phase[i] # "none"
                       /\ Covering(jobs[j])

\* A quarantined Host has nothing but what it has to account for.
Closed ==
    ~Healthy => /\ live = {} /\ \A i \in Instances : phase[i] # "active"
                /\ unresolved = {i \in Instances : Alive(i)}
                /\ jobs["quarantine"].on => unresolved \subseteq jobs["quarantine"].targets

\* A healthy Host owns all there is.
Accounts ==
    Healthy => /\ unresolved = {} /\ jobs["quarantine"] = NoJob /\ pc # "joining"
               /\ hostPhase = "stopped" => live = {}
               /\ \A s \in Execution : Linked(s)
               /\ \A i \in Instances : Alive(i) => i \in Owned

\* In front of a transition everybody serves.
Gathered ==
    Gated => /\ scopes = <<>> /\ layer = {} /\ jobs["command"] = NoJob
             /\ Healthy => /\ \A i \in live : /\ Serving(i)
                                              /\ \A k \in live : k[1] = i[1] => k = i
                           /\ hostPhase = "running" =>
                                \A x \in Members(graph) : \E i \in live : i[1] = x

\* In a transition bystanders serve, and all that has left is disposed.
Bystanders == {i \in scopes[1].instances : i[1] \notin affected}
Transit ==
    Underway /\ Healthy =>
        /\ Len(scopes) = CASE pc = "stopping" -> 1
                           [] pc \in {"preparing", "undoing"} -> 2
                           [] OTHER -> 3
        /\ graph = scopes[1].graph
        /\ live = scopes[1].instances \/ (pc = "undoingRestore" /\ live = Scope.instances)
        /\ \A i \in Bystanders : /\ Serving(i)
                                 /\ \A k \in Bystanders : k[1] = i[1] => k = i
        /\ \A x \in Members(graph) \ affected : \E i \in Bystanders : i[1] = x
        /\ pc = "stopping" =>
             /\ Covers(graph, Target, affected) /\ Valid(Target)
             /\ cmd.kind = "apply" => plans[cmd.plan].status = "consumed"
             /\ cmd.kind = "stop" => affected = Members(graph)
        /\ pc \in {"restoring", "undoingRestore"} => Scope.graph = graph
        /\ \A k \in 2 .. Len(scopes) :
             /\ Covers(graph, scopes[k].graph, affected) /\ Valid(scopes[k].graph)
             /\ {i \in scopes[k].instances : i[1] \notin affected} = Bystanders

Departed ==
    Underway /\ Healthy =>
        /\ jobs["command"].on <=> pc = "stopping" \/ Undoing
        /\ pc = "stopping" => jobs["command"].targets = {i \in live : i[1] \in affected}
        /\ Undoing => jobs["command"].targets = Candidates
        /\ pc # "stopping" =>
             /\ \A i \in Affected(scopes[1].instances) : phase[i] = "disposed"
             /\ \A k \in 1 .. Len(scopes) - 1 : \A i \in scopes[k].instances : i[2] < generation
             /\ \A i \in Candidates : i[2] = generation
             /\ \A i \in Instances : phase[i] # "none" /\ i[2] = generation => i \in Candidates
        /\ pc \in {"restoring", "undoingRestore"} =>
             \A i \in Affected(scopes[2].instances) : phase[i] = "disposed"

\* Layers are prepared in the order of the graph.
Layered ==
    Preparing /\ Healthy =>
        /\ passed \subseteq Members(Scope.graph)
        /\ \A x \in passed : Needs(Scope.graph, x) \subseteq passed
        /\ \A i \in Candidates : i[1] \in passed
        /\ \A x \in passed \intersect affected : <<x, generation>> \in Scope.instances
        /\ layer \subseteq Candidates
        /\ \A i \in Candidates :
             /\ \/ phase[i] = "active"
                \/ phase[i] = "sealed" /\ \E k \in layer : setup[k] = "failed"
             /\ i \notin layer => setup[i] = "done"

IInv == /\ Types /\ Budget /\ PlansAreCurrent /\ Records /\ ConsumersFirst /\ BorrowsAreSafe
        /\ Closed /\ Accounts /\ Gathered /\ Transit /\ Departed /\ Layered

-----------------------------------------------------------------------------
(* Compositions.                                                           *)

LEMMA GraphFacts ==
    \A g \in Graphs : \A x : /\ Members(g) \subseteq Installations
                         /\ Needs(g, x) \subseteq Members(g)
                         /\ Dependents(g, x) \subseteq Installations
BY GraphAssumption DEF Members, Needs, Providers, Dependents

LEMMA CoversAll == \A g \in Graphs : Covers(g, g, Members(g))
BY GraphFacts DEF Covers

LEMMA CoversItself ==
    ASSUME NEW g, NEW h, NEW A, Covers(g, h, A)
    PROVE  Covers(g, g, A)
BY DEF Covers

\* What is expanded is closed under the dependents of that composition.
LEMMA ExpandIsClosed ==
    ASSUME NEW g \in Graphs, NEW D \in SUBSET Installations
    PROVE  /\ D \subseteq Expand(g, D) /\ Expand(g, D) \subseteq Installations
           /\ \A y \in Expand(g, D) : Dependents(g, y) \subseteq Expand(g, D)
<1>1. ASSUME NEW y \in Expand(g, D), NEW x \in Dependents(g, y)
      PROVE  x \in Expand(g, D)
  <2>1. ASSUME NEW S \in SUBSET Installations, D \subseteq S,
               \A z \in S : Dependents(g, z) \subseteq S
        PROVE  x \in S
    BY <1>1, <2>1 DEF Expand
  <2>2. x \in Installations
    BY <1>1, GraphFacts
  <2> QED BY <2>1, <2>2 DEF Expand
<1>2. D \subseteq Expand(g, D) /\ Expand(g, D) \subseteq Installations
  BY DEF Expand
<1> QED BY <1>1, <1>2

\* The affected closure of a plan separates what it replaces from the rest.
LEMMA AffectedCovers ==
    ASSUME NEW g \in Graphs, NEW h \in Graphs,
           NEW D \in SUBSET (Members(g) \union Members(h)), Diff(g, h) \subseteq D
    PROVE  Covers(g, h, AffectedByTransition(g, h, D))
<1> DEFINE A == AffectedByTransition(g, h, D)
<1>1. D \in SUBSET Installations
  BY GraphFacts
<1>2. /\ D \subseteq A /\ A \subseteq Installations
      /\ \A y \in A : y \in Expand(g, D) \/ y \in Expand(h, D)
      /\ \A y \in Expand(g, D) : Dependents(g, y) \subseteq A
      /\ \A y \in Expand(h, D) : Dependents(h, y) \subseteq A
  BY <1>1, ExpandIsClosed DEF AffectedByTransition
<1>3. \A x \in Members(g) \union Members(h) :
         x \notin A => x \in Members(g) /\ x \in Members(h) /\ g[x] = h[x]
  BY <1>2 DEF Diff
<1> HIDE DEF A
<1>4. ASSUME NEW x \in Members(g), x \notin A, NEW y \in A
      PROVE  y \notin Needs(g, x) /\ y \notin Needs(h, x)
  <2>1. /\ y \in Expand(g, D) => y \notin Needs(g, x)
        /\ y \in Expand(h, D) => y \notin Needs(h, x)
    BY <1>2, <1>3, <1>4 DEF Dependents
  <2>2. CASE y \in D
    BY <1>1, <2>1, <2>2, ExpandIsClosed
  <2>3. CASE y \notin D
    <3>1. y \in Members(g) \union Members(h) =>
            y \in Members(g) /\ y \in Members(h) /\ g[y] = h[y]
      BY <2>3 DEF Diff
    <3>2. y \in Needs(g, x) <=> y \in Needs(h, x)
      BY <3>1, <1>3, <1>4 DEF Needs, Providers
    <3> QED BY <2>1, <3>2, <1>2
  <2> QED BY <2>2, <2>3
<1>5. ASSUME NEW x \in Members(g), x \notin A
      PROVE  Needs(g, x) = Needs(h, x)
  <2>1. ASSUME NEW y, y \notin A
        PROVE  y \in Needs(g, x) <=> y \in Needs(h, x)
    BY <1>3, <1>5, <2>1 DEF Needs, Providers
  <2> QED BY <1>4, <1>5, <2>1
<1>6. Members(g) \ A = Members(h) \ A
  BY <1>3
<1>7. \A x \in Members(g) \ A : Needs(g, x) = Needs(h, x) /\ Needs(g, x) \intersect A = {}
  BY <1>4, <1>5
<1> QED BY <1>2, <1>6, <1>7 DEF Covers, A

\* A valid composition never runs out of layers before it is complete.
LEMMA LayersComplete ==
    ASSUME NEW g, Valid(g), NEW done \in SUBSET Members(g), Frontier(g, done) = {}
    PROVE  done = Members(g)
<1> SUFFICES ASSUME Members(g) \ done # {} PROVE FALSE
  OBVIOUS
<1>1. PICK x \in Members(g) \ done : Needs(g, x) \intersect (Members(g) \ done) = {}
  BY DEF Valid
<1>2. Needs(g, x) \subseteq Members(g)
  BY DEF Needs, Providers
<1> QED BY <1>1, <1>2 DEF Frontier

\* A scope knows the consumers of what it holds.
LEMMA LinkedConsumes ==
    ASSUME NEW s, Linked(s), NEW c \in s.instances, NEW i \in bound[c], NEW scs, s \in scs
    PROVE  i \in s.instances /\ c \in Consumers(i, scs)
<1>1. /\ c[1] \in Members(s.graph)
      /\ i \in s.instances /\ i[1] \in Needs(s.graph, c[1])
  BY DEF Linked
<1> QED BY <1>1 DEF Consumers, Dependents

\* A healthy Host knows the consumers of everything there is.
LEMMA OwnedConsumers ==
    ASSUME Types, Records, Accounts, Healthy, NEW i, NEW c \in Instances,
           i \in bound[c], phase[c] # "disposed"
    PROVE  c \in Consumers(i, Execution)
<1>1. phase[c] # "none"
  BY DEF Records
<1>2. c \in Owned
  BY <1>1 DEF Accounts, Alive
<1>3. PICK s \in Execution : c \in s.instances
  BY <1>2 DEF Owned
<1> QED BY <1>3, LinkedConsumes DEF Accounts

-----------------------------------------------------------------------------
(* The initial states.                                                     *)

LEMMA InitInvariant == Init => IInv
<1> SUFFICES ASSUME Init PROVE IInv
  OBVIOUS
<1>1. Types
  <2>1. NoJob \in JobRecord
    BY DEF NoJob, JobRecord
  <2>2. jobs \in [Jobs -> JobRecord]
    BY <2>1 DEF Init, Jobs
  <2>3. plans \in [Plans -> Plan] /\ graph \in Graphs /\ Valid(graph)
    BY GraphAssumption DEF Init, Plan
  <2>4. scopes \in Seq(Scopes) /\ queue \in Seq(Commands)
    BY DEF Init
  <2>5. /\ phase \in [Instances -> Phases]
        /\ setup \in [Instances -> {"none", "running", "done", "failed"}]
        /\ foreground \in [Instances -> Nat] /\ bound \in [Instances -> SUBSET Instances]
    BY DEF Init, Phases
  <2> QED BY <2>2, <2>3, <2>4, <2>5 DEF Init, Types, Points
<1>2. Budget /\ PlansAreCurrent
  BY BoundAssumption DEF Init, Budget, PlansAreCurrent, Reserve, Underway
<1>3. Records
  BY DEF Init, Records, Busy, Covering, Jobs, NoJob
<1>4. ConsumersFirst /\ BorrowsAreSafe
  BY DEF Init, ConsumersFirst, BorrowsAreSafe, Busy
<1>5. Closed /\ Gathered
  BY DEF Init, Closed, Healthy, Gathered
<1>6. Accounts
  <2>1. Execution = {[graph |-> graph, instances |-> {}]}
    BY DEF Init, Execution, Committed
  <2> QED BY <2>1 DEF Init, Accounts, Healthy, Linked, Alive
<1>7. Transit /\ Departed /\ Layered
  BY DEF Init, Transit, Departed, Layered, Underway, Preparing
<1> QED BY <1>1, <1>2, <1>3, <1>4, <1>5, <1>6, <1>7 DEF IInv

-----------------------------------------------------------------------------
\* What each part of the invariant speaks of.
LEMMA Frames ==
    ASSUME IInv
    PROVE  /\ UNCHANGED <<pc, queue, submitted, generation>> => Budget'
           /\ UNCHANGED <<hostPhase, revision, graph, plans>> => PlansAreCurrent'
           /\ UNCHANGED <<generation, live, jobs, instVars>> => Records'
           /\ UNCHANGED <<phase, bound, foreground>> => ConsumersFirst' /\ BorrowsAreSafe'
           /\ UNCHANGED <<hostPhase, live, unresolved, jobs, phase>> => Closed'
           /\ UNCHANGED <<pc, stateVars, scopes, jobs, phase, bound>> => Accounts'
           /\ UNCHANGED <<pc, stateVars, scopes, layer, jobs, instVars>> => Gathered'
           /\ UNCHANGED <<pc, stateVars, scopes, affected, plans, cmd, instVars>> => Transit'
           /\ UNCHANGED <<pc, stateVars, scopes, affected, generation, jobs, phase>> => Departed'
           /\ UNCHANGED <<hostPhase, cmdVars, generation, instVars>> => Layered'
<1>1. UNCHANGED <<pc, queue, submitted, generation>> => Budget'
  BY DEF IInv, Budget, Reserve, Underway
<1>2. UNCHANGED <<hostPhase, revision, graph, plans>> => PlansAreCurrent'
  BY DEF IInv, PlansAreCurrent, Healthy
<1>3. UNCHANGED <<generation, live, jobs, instVars>> => Records'
  BY DEF IInv, Records, Busy, Covering, Consumers, instVars
<1>4. UNCHANGED <<phase, bound, foreground>> => ConsumersFirst' /\ BorrowsAreSafe'
  BY DEF IInv, ConsumersFirst, BorrowsAreSafe, Busy
<1>5. UNCHANGED <<hostPhase, live, unresolved, jobs, phase>> => Closed'
  BY DEF IInv, Closed, Alive, Healthy
<1>6. UNCHANGED <<pc, stateVars, scopes, jobs, phase, bound>> => Accounts'
  BY DEF IInv, Accounts, Alive, Healthy, Execution, Committed, Owned, Linked, stateVars
<1>7. UNCHANGED <<pc, stateVars, scopes, layer, jobs, instVars>> => Gathered'
  BY DEF IInv, Gathered, Gated, Healthy, Serving, stateVars, instVars
<1>8. UNCHANGED <<pc, stateVars, scopes, affected, plans, cmd, instVars>> => Transit'
  BY DEF IInv, Transit, Underway, Healthy, Target, Scope, Bystanders, Serving, stateVars, instVars
<1>9. UNCHANGED <<pc, stateVars, scopes, affected, generation, jobs, phase>> => Departed'
  BY DEF IInv, Departed, Underway, Undoing, Healthy, Affected, Scope, Candidates, stateVars
<1>10. UNCHANGED <<hostPhase, cmdVars, generation, instVars>> => Layered'
  BY DEF IInv, Layered, Preparing, Healthy, Affected, Scope, Candidates, cmdVars, instVars
<1> QED BY <1>1, <1>2, <1>3, <1>4, <1>5, <1>6, <1>7, <1>8, <1>9, <1>10

-----------------------------------------------------------------------------
(* Plans.                                                                  *)

LEMMA CompileStep == ASSUME IInv, NEW p \in Plans, CompilePlan(p) PROVE IInv'
<1>0. PICK h \in {g \in Graphs : Valid(g)} :
        \E D \in SUBSET (Members(graph) \union Members(h)) :
          /\ Diff(graph, h) \subseteq D
          /\ plans' = [plans EXCEPT ![p] =
               [status |-> "compiling", base |-> revision, graph |-> h,
                empty |-> D = {}, affected |-> AffectedByTransition(graph, h, D)]]
  BY Zenon DEF CompilePlan
<1>1. PICK D \in SUBSET (Members(graph) \union Members(h)) :
        /\ Diff(graph, h) \subseteq D
        /\ plans' = [plans EXCEPT ![p] =
             [status |-> "compiling", base |-> revision, graph |-> h,
              empty |-> D = {}, affected |-> AffectedByTransition(graph, h, D)]]
  BY <1>0
<1> DEFINE A == AffectedByTransition(graph, h, D)
<1>2. Covers(graph, h, A) /\ A \subseteq Installations
  BY <1>1, AffectedCovers DEF IInv, Types, Covers
<1>3. Healthy /\ plans[p].status = "none"
  BY DEF CompilePlan
<1>4. UNCHANGED <<stateVars, queue, submitted, generation, cmdVars, jobs, instVars>>
  BY DEF CompilePlan
<1> HIDE DEF A
<1>5. plans' = [plans EXCEPT ![p] = [status |-> "compiling", base |-> revision, graph |-> h,
                                     empty |-> D = {}, affected |-> A]]
  BY <1>1 DEF A
<1>6. Types'
  <2>1. [status |-> "compiling", base |-> revision, graph |-> h,
         empty |-> D = {}, affected |-> A] \in Plan
    BY <1>2 DEF IInv, Types, Plan
  <2>2. plans' \in [Plans -> Plan]
    BY <1>5, <2>1 DEF IInv, Types
  <2> QED BY <1>4, <2>2 DEF IInv, Types, stateVars, cmdVars, instVars
<1>7. PlansAreCurrent'
  BY <1>2, <1>3, <1>4, <1>5 DEF IInv, Types, PlansAreCurrent, Healthy, stateVars
<1>8. Transit'
  <2>1. ASSUME pc = "stopping", Healthy, cmd.kind = "apply"
        PROVE  plans'[cmd.plan] = plans[cmd.plan]
    BY <1>3, <1>4, <1>5, <2>1 DEF IInv, Types, Transit, Underway, Commands, stateVars, cmdVars
  <2>2. ASSUME pc = "stopping", Healthy PROVE Target' = Target
    BY <1>4, <2>1, <2>2 DEF Target, stateVars, cmdVars
  <2> QED BY <2>1, <2>2, <1>4 DEF IInv, Transit, Underway, Healthy, Scope, Bystanders, Serving,
               stateVars, cmdVars, instVars
<1> QED BY <1>4, <1>6, <1>7, <1>8, Frames DEF IInv, stateVars, cmdVars, instVars

LEMMA IssueStep == ASSUME IInv, NEW p \in Plans, IssuePlan(p) PROVE IInv'
<1>1. plans[p].status = "compiling" /\ plans' = [plans EXCEPT ![p].status = "issued"]
  BY DEF IssuePlan
<1>2. UNCHANGED <<stateVars, queue, submitted, generation, cmdVars, jobs, instVars>>
  BY DEF IssuePlan
<1>3. [plans[p] EXCEPT !.status = "issued"] \in Plan
  BY DEF IInv, Types, Plan
<1>4. Types'
  <2>1. plans' \in [Plans -> Plan]
    BY <1>1, <1>3 DEF IInv, Types
  <2> QED BY <1>2, <2>1 DEF IInv, Types, stateVars, cmdVars, instVars
<1>5. PlansAreCurrent'
  BY <1>1, <1>2 DEF IInv, Types, Plan, PlansAreCurrent, Healthy, stateVars
<1>6. Transit'
  <2>1. ASSUME pc = "stopping", Healthy, cmd.kind = "apply"
        PROVE  plans'[cmd.plan] = plans[cmd.plan]
    BY <1>1, <1>2, <2>1 DEF IInv, Types, Transit, Underway, Commands, stateVars, cmdVars
  <2>2. ASSUME pc = "stopping", Healthy PROVE Target' = Target
    BY <1>2, <2>1, <2>2 DEF Target, stateVars, cmdVars
  <2> QED BY <2>1, <2>2, <1>2 DEF IInv, Transit, Underway, Healthy, Scope, Bystanders, Serving,
               stateVars, cmdVars, instVars
<1> QED BY <1>2, <1>4, <1>5, <1>6, Frames DEF IInv, stateVars, cmdVars, instVars

LEMMA SubmitStep == ASSUME IInv, NEW c \in Commands, Submit(c) PROVE IInv'
<1>1. /\ queue' = Append(queue, c) /\ submitted' = submitted + 1 /\ submitted < MaxCommands
      /\ UNCHANGED <<stateVars, plans, generation, cmdVars, jobs, instVars>>
  BY DEF Submit
<1>2. Types'
  BY <1>1 DEF IInv, Types, stateVars, cmdVars, instVars
<1>3. Budget'
  BY <1>1, BoundAssumption DEF IInv, Types, Budget, Reserve, Underway, cmdVars
<1> QED BY <1>1, <1>2, <1>3, Frames DEF IInv, stateVars, cmdVars, instVars

\* A plan that a command uses up, and plans that a revision makes stale.
LEMMA ConsumedFacts ==
    ASSUME Types, pc # "idle"
    PROVE  /\ Consumed \in [Plans -> Plan]
           /\ \A p \in Plans : Consumed[p].status \in {"compiling", "issued"}
                                  => Consumed[p] = plans[p]
           /\ \A p \in Plans : Consumed[p].graph = plans[p].graph
           /\ cmd.kind = "apply" => cmd.plan \in Plans /\ Consumed[cmd.plan].status = "consumed"
<1>1. cmd \in Commands /\ plans \in [Plans -> Plan]
  BY DEF Types
<1>2. CASE cmd.kind = "apply"
  <2>1. cmd.plan \in Plans /\ Consumed = [plans EXCEPT ![cmd.plan].status = "consumed"]
    BY <1>1, <1>2 DEF Consumed, Commands
  <2>2. [plans[cmd.plan] EXCEPT !.status = "consumed"] \in Plan
    BY <1>1, <2>1 DEF Plan
  <2>3. Consumed \in [Plans -> Plan]
    BY <1>1, <2>1, <2>2
  <2>4. \A p \in Plans : /\ p # cmd.plan => Consumed[p] = plans[p]
                         /\ Consumed[p].graph = plans[p].graph
                         /\ Consumed[cmd.plan].status = "consumed"
    BY <1>1, <2>1 DEF Plan
  <2> QED BY <2>1, <2>3, <2>4
<1>3. CASE cmd.kind # "apply"
  BY <1>1, <1>3 DEF Consumed
<1> QED BY <1>2, <1>3

LEMMA InvalidatedFacts ==
    ASSUME NEW ps \in [Plans -> Plan]
    PROVE  /\ Invalidated(ps) \in [Plans -> Plan]
           /\ \A p \in Plans : Invalidated(ps)[p].status \notin {"compiling", "issued"}
           /\ \A p \in Plans : ps[p].status = "consumed" => Invalidated(ps)[p] = ps[p]
<1>1. \A p \in Plans : [ps[p] EXCEPT !.status = "stale"] \in Plan
  BY DEF Plan
<1>2. Invalidated(ps) \in [Plans -> Plan]
  BY <1>1 DEF Invalidated
<1>3. ASSUME NEW p \in Plans
      PROVE  Invalidated(ps)[p].status \notin {"compiling", "issued"}
  BY DEF Invalidated, Plan
<1> QED BY <1>2, <1>3 DEF Invalidated

LEMMA BlockedFacts ==
    ASSUME Types, NEW S
    PROVE  /\ Blocked(S) \in [Instances -> Phases]
           /\ \A i \in Instances :
                IF i \in S /\ phase[i] = "active" THEN Blocked(S)[i] = "sealed"
                                                  ELSE Blocked(S)[i] = phase[i]
BY DEF Types, Blocked, Phases

\* Sealing disturbs neither the order of disposal nor a borrow.
LEMMA SealingIsSafe ==
    ASSUME IInv, NEW S, phase' = Blocked(S), UNCHANGED <<bound, foreground>>
    PROVE  ConsumersFirst' /\ BorrowsAreSafe'
BY BlockedFacts DEF IInv, Types, ConsumersFirst, BorrowsAreSafe, Busy

-----------------------------------------------------------------------------
(* The gate in front of a transition.                                      *)

\* A step of the gate that leaves the instances alone.
LEMMA StillGated ==
    ASSUME IInv, Gated, pc' \in {"idle", "validating", "ready"},
           UNCHANGED <<stateVars, scopes, layer, jobs, generation, instVars>>
    PROVE  /\ Records' /\ ConsumersFirst' /\ BorrowsAreSafe' /\ Closed' /\ Accounts'
           /\ Gathered' /\ Transit' /\ Departed' /\ Layered'
<1>1. Records' /\ ConsumersFirst' /\ BorrowsAreSafe' /\ Closed'
  BY Frames DEF stateVars, instVars
<1>2. Accounts'
  BY DEF IInv, Accounts, Alive, Healthy, Execution, Committed, Owned, Linked, stateVars, instVars
<1>3. Gathered'
  BY DEF IInv, Gathered, Gated, Healthy, Serving, stateVars, instVars
<1>4. Transit' /\ Departed' /\ Layered'
  BY DEF Transit, Departed, Layered, Underway, Preparing
<1> QED BY <1>1, <1>2, <1>3, <1>4

\* In front of a transition there is nothing to finish.
LEMMA GatedFinish ==
    ASSUME IInv, Gated, Finish
    PROVE  pc' = "idle" /\ affected' = {} /\ passed' = {} /\ UNCHANGED <<scopes, layer, jobs, cmd>>
BY DEF IInv, Types, Jobs, Gathered, Finish

LEMMA TakeStep == ASSUME IInv, TakeCommand PROVE IInv'
<1>1. /\ pc = "idle" /\ queue # <<>> /\ queue' = Tail(queue) /\ cmd' = Head(queue)
      /\ UNCHANGED <<scopes, passed, layer>>
      /\ UNCHANGED <<stateVars, plans, submitted, generation, jobs, instVars>>
  BY DEF TakeCommand
<1>2. /\ pc' \in {"idle", "validating", "ready"}
      /\ affected' = affected \/ affected' = Members(graph)
  BY <1>1 DEF TakeCommand
<1>3. Types'
  <2>1. queue' \in Seq(Commands) /\ cmd' \in Commands
    BY <1>1 DEF IInv, Types
  <2>2. affected' \subseteq Installations
    BY <1>2, GraphFacts DEF IInv, Types
  <2> QED BY <1>1, <1>2, <2>1, <2>2 DEF IInv, Types, Points, stateVars, instVars
<1>4. Budget'
  <2>1. Len(queue') = Len(queue) - 1 /\ Len(queue) \in Nat
    BY <1>1 DEF IInv, Types
  <2> QED BY <1>1, <1>2, <2>1 DEF IInv, Types, Budget, Reserve, Underway
<1>5. Gated
  BY <1>1 DEF Gated
<1> QED BY <1>1, <1>2, <1>3, <1>4, <1>5, StillGated, Frames DEF IInv, stateVars

LEMMA ValidatedStep == ASSUME IInv, Validated PROVE IInv'
<1>1. /\ pc = "validating" /\ pc' = "ready"
      /\ UNCHANGED <<cmd, transition, affected, scopes, passed, layer>>
      /\ UNCHANGED <<stateVars, planVars, generation, jobs, instVars>>
  BY DEF Validated
<1>2. Types'
  BY <1>1 DEF IInv, Types, Points, stateVars, planVars, instVars
<1>3. Budget'
  BY <1>1 DEF IInv, Budget, Reserve, Underway, planVars
<1>4. Gated
  BY <1>1 DEF Gated
<1> QED BY <1>1, <1>2, <1>3, <1>4, StillGated, Frames DEF IInv, stateVars, planVars

\* A command that ends at the gate, whether it has used up its plan or not.
LEMMA DismissedStep ==
    ASSUME IInv, Gated, pc # "idle", Finish, plans' = plans \/ plans' = Consumed,
           UNCHANGED <<stateVars, queue, submitted, generation, instVars>>
    PROVE  IInv'
<1>1. pc' = "idle" /\ affected' = {} /\ passed' = {} /\ UNCHANGED <<scopes, layer, jobs, cmd>>
  BY GatedFinish
<1>2. Types'
  <2>1. plans' \in [Plans -> Plan]
    BY ConsumedFacts DEF IInv, Types
  <2> QED BY <1>1, <2>1 DEF IInv, Types, Points, stateVars, instVars
<1>3. Budget'
  BY <1>1 DEF IInv, Types, Gated, Budget, Reserve, Underway
<1>4. PlansAreCurrent'
  BY ConsumedFacts DEF IInv, PlansAreCurrent, Healthy, stateVars
<1> QED BY <1>1, <1>2, <1>3, <1>4, StillGated DEF IInv

LEMMA ValidationFailsStep == ASSUME IInv, ValidationFails PROVE IInv'
BY DismissedStep DEF ValidationFails, Gated, planVars

LEMMA RejectStep == ASSUME IInv, Reject PROVE IInv'
BY DismissedStep DEF Reject, Gated

\* What a command may establish is valid, and covered by what it replaces.
LEMMA ReadyFacts ==
    ASSUME IInv, pc = "ready", Proceed
    PROVE  /\ Target \in Graphs /\ Valid(Target) /\ ToChange \subseteq Installations
           /\ Covers(graph, Target, ToChange)
<1>1. cmd \in Commands /\ Healthy
  BY DEF IInv, Types, Proceed
<1>2. CASE cmd.kind = "apply"
  <2>1. cmd.plan \in Plans /\ plans[cmd.plan].status = "issued"
    BY <1>1, <1>2 DEF Commands, Proceed, Usable
  <2>2. plans[cmd.plan] \in Plan
    BY <2>1 DEF IInv, Types
  <2> QED BY <1>2, <2>1, <2>2 DEF IInv, PlansAreCurrent, Plan, Target, ToChange
<1>3. CASE cmd.kind # "apply"
  BY <1>3, CoversAll, GraphFacts DEF IInv, Types, Target, ToChange
<1> QED BY <1>2, <1>3

LEMMA CommitStoppedStep == ASSUME IInv, CommitStopped PROVE IInv'
<1>1. /\ pc = "ready" /\ Healthy /\ hostPhase = "stopped" /\ Gated
      /\ graph' = Target /\ revision' = revision + 1 /\ plans' = Invalidated(Consumed) /\ Finish
      /\ UNCHANGED <<hostPhase, live, unresolved, queue, submitted, generation, instVars>>
  BY DEF CommitStopped, Proceed, Gated
<1>2. pc' = "idle" /\ affected' = {} /\ passed' = {} /\ UNCHANGED <<scopes, layer, jobs, cmd>>
  BY <1>1, GatedFinish
<1>3. graph' \in Graphs /\ Valid(graph')
  BY <1>1, ReadyFacts DEF CommitStopped
<1>4. /\ plans' \in [Plans -> Plan]
      /\ \A p \in Plans : plans'[p].status \notin {"compiling", "issued"}
  BY <1>1, ConsumedFacts, InvalidatedFacts DEF IInv
<1>5. Types'
  BY <1>1, <1>2, <1>3, <1>4 DEF IInv, Types, Points, instVars
<1>6. Budget'
  BY <1>1, <1>2 DEF IInv, Types, Gated, Budget, Reserve, Underway
<1>7. PlansAreCurrent'
  BY <1>4 DEF PlansAreCurrent
<1>8. Records' /\ ConsumersFirst' /\ BorrowsAreSafe' /\ Closed'
  BY <1>1, <1>2, Frames DEF instVars
<1>9. live = {} /\ scopes = <<>>
  BY <1>1 DEF IInv, Accounts, Gathered
<1>10. Accounts'
  <2>1. Owned = {} /\ Owned' = {} /\ \A s \in Execution' : s.instances = {}
    BY <1>1, <1>2, <1>9 DEF Owned, Execution, Committed
  <2> QED BY <1>1, <1>2, <2>1 DEF IInv, Accounts, Linked, Alive, Healthy, instVars
<1>11. Gathered'
  BY <1>1, <1>2, <1>9 DEF IInv, Gathered, Gated, Healthy
<1>12. Transit' /\ Departed' /\ Layered'
  BY <1>2 DEF Transit, Departed, Layered, Underway, Preparing
<1> QED BY <1>5, <1>6, <1>7, <1>8, <1>10, <1>11, <1>12 DEF IInv

LEMMA JobFacts ==
    ASSUME NEW scs \in SUBSET Scopes, NEW targets \in SUBSET Instances
    PROVE  /\ Job(scs, targets) \in JobRecord
           /\ Job(scs, targets).on /\ ~Job(scs, targets).failed
           /\ Job(scs, targets).scopes = scs /\ Job(scs, targets).targets = targets
           /\ Job(scs, targets).running = {} /\ Job(scs, targets).done = {}
           /\ NoJob \in JobRecord
BY DEF Job, NoJob, JobRecord

\* Execution scopes are scopes.
LEMMA ScopeFacts ==
    ASSUME Types
    PROVE  /\ Committed \in Scopes /\ Execution \subseteq Scopes /\ Owned \subseteq Instances
           /\ \A k \in DOMAIN scopes : /\ scopes[k] \in Execution
                                       /\ scopes[k].graph \in Graphs
                                       /\ scopes[k].instances \subseteq Instances
<1>1. Committed \in Scopes
  BY DEF Types, Committed, Scopes
<1>2. \A k \in DOMAIN scopes : scopes[k] \in Scopes
  BY DEF Types
<1> QED BY <1>1, <1>2 DEF Execution, Owned, Scopes

LEMMA BeginStep == ASSUME IInv, BeginTransition PROVE IInv'
<1>1. /\ pc = "ready" /\ Gated /\ Healthy /\ Proceed
      /\ hostPhase = "running" \/ cmd.kind = "start"
      /\ plans' = Consumed /\ phase' = Blocked(Leaving)
      /\ affected' = ToChange /\ scopes' = <<Committed>>
      /\ jobs' = [jobs EXCEPT !["command"] = Job({Committed}, Leaving)]
      /\ pc' = "stopping"
      /\ UNCHANGED <<cmd, passed, layer, stateVars, queue, submitted, generation>>
      /\ UNCHANGED <<setup, foreground, bound, tainted, rejected, shown>>
  BY DEF BeginTransition, Proceed, Gated
<1>2. /\ Types /\ Leaving \subseteq live /\ Leaving \in SUBSET Instances
      /\ Committed \in Scopes
  BY ScopeFacts DEF IInv, Types, Leaving
<1>3. /\ Target \in Graphs /\ Valid(Target) /\ ToChange \subseteq Installations
      /\ Covers(graph, Target, ToChange)
  BY <1>1, ReadyFacts
<1>4. /\ scopes = <<>> /\ Execution = {Committed}
      /\ \A i \in live : Serving(i)
  BY <1>1 DEF IInv, Gathered, Execution
<1>5. /\ phase' \in [Instances -> Phases]
      /\ \A i \in Instances : IF i \in Leaving /\ phase[i] = "active" THEN phase'[i] = "sealed"
                                                                   ELSE phase'[i] = phase[i]
  BY <1>1, <1>2, BlockedFacts
<1> DEFINE J == Job({Committed}, Leaving)
<1>j. /\ J \in JobRecord /\ J.on /\ J.scopes = {Committed} /\ J.targets = Leaving
      /\ J.running = {} /\ J.done = {}
  <2>1. {Committed} \in SUBSET Scopes
    BY <1>2
  <2> QED BY <1>2, <2>1, JobFacts, Zenon
<1> HIDE DEF J
<1>6. /\ jobs' \in [Jobs -> JobRecord] /\ jobs'["quarantine"] = jobs["quarantine"]
      /\ jobs'["command"] = J
  BY <1>1, <1>j DEF IInv, Types, Jobs, J
<1>7. Types'
  <2>1. plans' \in [Plans -> Plan]
    BY <1>1, <1>2, ConsumedFacts
  <2>2. scopes' \in Seq(Scopes)
    BY <1>1, <1>2
  <2> QED BY <1>1, <1>2, <1>3, <1>5, <1>6, <2>1, <2>2 DEF Types, Points, stateVars
<1>8. Budget'
  BY <1>1 DEF IInv, Budget, Reserve, Underway
<1>9. PlansAreCurrent'
  BY <1>1, <1>2, ConsumedFacts DEF IInv, PlansAreCurrent, Healthy, stateVars
<1>10. Records'
  <2>1. /\ \A i \in Instances : phase'[i] = "none" <=> phase[i] = "none"
        /\ \A i \in Instances : phase'[i] = "disposed" <=> phase[i] = "disposed"
        /\ \A i \in Instances : phase'[i] = "active" => phase[i] = "active"
    BY <1>5
  <2>2. Covering(jobs["quarantine"])' /\ Covering(jobs["command"])'
    <3>1. \A i \in Leaving, c \in Instances :
            i \in bound[c] /\ phase[c] # "disposed" => c \in Consumers(i, {Committed})
      BY <1>1, <1>4, OwnedConsumers DEF IInv
    <3>2. Covering(jobs["command"])'
      BY <1>1, <1>2, <1>6, <1>j, <2>1, <3>1 DEF Covering, Consumers
    <3>3. Covering(jobs["quarantine"])'
      BY <1>1, <1>6, <2>1 DEF IInv, Records, Covering, Consumers, Jobs
    <3> QED BY <3>2, <3>3
  <2>3. ASSUME NEW j \in Jobs
        PROVE  /\ jobs'[j].running \subseteq jobs'[j].targets
               /\ \A i \in jobs'[j].targets : phase'[i] # "none"
               /\ Covering(jobs[j])'
    <3>1. CASE j = "command"
      BY <1>2, <1>4, <1>6, <1>j, <2>1, <2>2, <3>1 DEF IInv, Types, Serving
    <3>2. CASE j = "quarantine"
      BY <1>6, <2>1, <2>2, <3>2 DEF IInv, Types, Records, Jobs, JobRecord
    <3> QED BY <2>3, <3>1, <3>2 DEF Jobs
  <2>4. /\ \A i \in Instances : phase'[i] = "none" => /\ bound'[i] = {} /\ ~Busy(i)' /\ i \notin shown'
        /\ \A i \in Instances : phase'[i] # "none" => i[2] <= generation'
        /\ \A c \in Instances : \A p \in bound'[c] : phase'[p] # "none"
        /\ \A i \in shown' : setup'[i] = "done" /\ (phase'[i] = "active" => i \in live')
    BY <1>1, <2>1 DEF IInv, Types, Records, Busy, stateVars
  <2> QED BY <2>3, <2>4 DEF Records
<1>11. ConsumersFirst' /\ BorrowsAreSafe'
  BY <1>1, SealingIsSafe
<1>12. Closed'
  BY <1>1 DEF Closed, Healthy, stateVars
<1>13. Accounts'
  <2>1. Execution' = {Committed} /\ Owned' = Owned
    BY <1>1, <1>4 DEF Execution, Owned, Committed, stateVars
  <2>2. Linked(Committed)'
    BY <1>1, <1>4, <1>5 DEF IInv, Types, Accounts, Linked, Committed, stateVars
  <2>3. \A s \in Execution' : s = Committed'
    BY <1>1, <2>1 DEF Committed, stateVars
  <2>4. \A s \in Execution' : Linked(s)'
    BY <2>2, <2>3 DEF Linked
  <2> QED BY <1>1, <1>5, <1>6, <2>1, <2>4 DEF IInv, Accounts, Alive, Healthy, stateVars
<1>14. Gathered'
  BY <1>1 DEF Gathered, Gated
<1>15. Transit'
  <2>1. /\ Len(scopes') = 1 /\ scopes'[1] = Committed /\ graph' = graph
        /\ Committed.graph = graph /\ Committed.instances = live
    BY <1>1 DEF Committed, stateVars
  <2>2. Bystanders' = {i \in live : i[1] \notin ToChange}
    BY <1>1, <2>1 DEF Bystanders
  <2>3. \A i \in Bystanders' : Serving(i)' /\ \A k \in Bystanders' : k[1] = i[1] => k = i
    BY <1>1, <1>2, <1>4, <1>5, <2>2 DEF IInv, Types, Gathered, Serving, Leaving
  <2>4. \A x \in Members(graph) \ ToChange : \E i \in Bystanders' : i[1] = x
    <3>1. CASE hostPhase = "running"
      BY <1>1, <2>2, <3>1 DEF IInv, Gathered
    <3>2. CASE cmd.kind = "start"
      BY <3>2 DEF ToChange
    <3> QED BY <1>1, <3>1, <3>2
  <2>5. /\ Target' = Target
        /\ cmd.kind = "apply" => plans'[cmd.plan].status = "consumed"
    BY <1>1, <1>2, ConsumedFacts DEF Target, stateVars
  <2>6. cmd.kind = "stop" => ToChange = Members(graph)
    BY DEF ToChange
  <2> QED BY <1>1, <1>3, <2>1, <2>3, <2>4, <2>5, <2>6 DEF Transit, Underway, stateVars
<1>16. Departed' /\ Layered'
  <2>1. Departed'
    BY <1>1, <1>2, <1>6, <1>j DEF Departed, Undoing, Leaving, stateVars
  <2> QED BY <1>1, <2>1 DEF Layered, Preparing
<1> QED BY <1>7, <1>8, <1>9, <1>10, <1>11, <1>12, <1>13, <1>14, <1>15, <1>16 DEF IInv

-----------------------------------------------------------------------------
(* Quarantine.                                                             *)

\* What a healthy Host owns and has not disposed is what is alive.
LEMMA OwnedIsAlive ==
    ASSUME IInv, Healthy
    PROVE  /\ {i \in Owned : phase[i] # "disposed"} = {i \in Instances : Alive(i)}
           /\ \A i \in Owned : phase[i] # "none"
<1>1. \A i \in Owned : i \in Instances /\ phase[i] # "none"
  <2>1. Owned \subseteq Instances
    BY ScopeFacts DEF IInv
  <2>2. ASSUME NEW i \in Owned PROVE phase[i] # "none"
    <3>1. PICK s \in Execution : i \in s.instances
      BY DEF Owned
    <3> QED BY <3>1 DEF IInv, Accounts, Linked
  <2> QED BY <2>1, <2>2
<1>2. \A i \in Instances : Alive(i) => i \in Owned
  BY DEF IInv, Accounts
<1> QED BY <1>1, <1>2 DEF Alive

\* Going into quarantine, whatever has been committed or published meanwhile.
LEMMA QuarantineStep ==
    ASSUME IInv, Healthy, NEW remaining, remaining = {i \in Owned : phase[i] # "disposed"},
           hostPhase' = "quarantined", revision' \in Nat, graph' \in Graphs, Valid(graph'),
           live' = {}, unresolved' = remaining,
           plans' = Invalidated(plans), phase' = Blocked(remaining),
           jobs' = [jobs EXCEPT !["quarantine"] = Job(Execution, remaining)],
           pc' = pc \/ (Underway /\ pc' = "joining"), tainted' \subseteq Instances,
           \A i \in shown' : i \in shown \/ (i \in Instances /\ setup[i] = "done" /\ phase[i] # "none"),
           UNCHANGED <<cmd, transition, affected, scopes, passed, layer>>,
           UNCHANGED <<queue, submitted, generation, setup, foreground, bound, rejected>>
    PROVE  IInv'
<1>1. /\ remaining = {i \in Instances : Alive(i)}
      /\ remaining \in SUBSET Instances /\ Execution \in SUBSET Scopes
      /\ \A i \in remaining : phase[i] # "none"
  BY OwnedIsAlive, ScopeFacts DEF IInv
<1> DEFINE J == Job(Execution, remaining)
<1>2. /\ J \in JobRecord /\ J.on /\ J.scopes = Execution /\ J.targets = remaining
      /\ J.running = {} /\ J.done = {}
  BY <1>1 DEF Job, NoJob, JobRecord
<1> HIDE DEF J
<1>3. /\ jobs' \in [Jobs -> JobRecord] /\ jobs'["command"] = jobs["command"]
      /\ jobs'["quarantine"] = J
  BY <1>2 DEF IInv, Types, Jobs, J
<1>4. /\ phase' \in [Instances -> Phases]
      /\ \A i \in Instances : /\ phase'[i] = "none" <=> phase[i] = "none"
                              /\ phase'[i] = "disposed" <=> phase[i] = "disposed"
                              /\ phase'[i] # "active"
  <2>1. phase' \in [Instances -> Phases]
    BY BlockedFacts DEF IInv
  <2>2. ASSUME NEW i \in Instances
        PROVE  /\ phase'[i] = "none" <=> phase[i] = "none"
               /\ phase'[i] = "disposed" <=> phase[i] = "disposed"
               /\ phase'[i] # "active"
    BY <1>1, BlockedFacts DEF IInv, Alive
  <2> QED BY <2>1, <2>2
<1>5. /\ plans' \in [Plans -> Plan]
      /\ \A p \in Plans : plans'[p].status \notin {"compiling", "issued"}
  BY InvalidatedFacts DEF IInv, Types
<1>6. Types'
  <2>1. pc' \in Points /\ (pc' # "idle" => cmd' \in Commands)
    BY DEF IInv, Types, Points, Underway
  <2> QED BY <1>1, <1>3, <1>4, <1>5, <2>1 DEF IInv, Types
<1>7. Budget'
  BY DEF IInv, Types, Budget, Reserve, Underway
<1>8. PlansAreCurrent'
  BY <1>5 DEF PlansAreCurrent
<1>9. Records'
  <2>2. Covering(jobs["quarantine"])'
    <3>1. \A i \in remaining, c \in Instances :
            i \in bound[c] /\ phase[c] # "disposed" => c \in Consumers(i, Execution)
      BY OwnedConsumers DEF IInv
    <3> QED BY <1>2, <1>3, <1>4, <3>1 DEF Covering, Consumers
  <2>3. Covering(jobs["command"])'
    BY <1>3, <1>4 DEF IInv, Records, Covering, Consumers, Jobs
  <2>4. ASSUME NEW j \in Jobs
        PROVE  /\ jobs'[j].running \subseteq jobs'[j].targets
               /\ \A i \in jobs'[j].targets : phase'[i] # "none"
               /\ Covering(jobs[j])'
    <3>1. CASE j = "command"
      BY <1>3, <1>4, <2>3, <3>1 DEF IInv, Types, Records, Jobs, JobRecord
    <3>2. CASE j = "quarantine"
      BY <1>1, <1>2, <1>3, <1>4, <2>2, <3>2
    <3> QED BY <2>4, <3>1, <3>2 DEF Jobs
  <2>5. /\ \A i \in Instances : phase'[i] = "none" => /\ bound'[i] = {} /\ ~Busy(i)' /\ i \notin shown'
        /\ \A i \in Instances : phase'[i] # "none" => i[2] <= generation'
        /\ \A c \in Instances : \A p \in bound'[c] : phase'[p] # "none"
        /\ \A i \in shown' : setup'[i] = "done" /\ (phase'[i] = "active" => i \in live')
    BY <1>4 DEF IInv, Types, Records, Busy
  <2> QED BY <2>4, <2>5 DEF Records
<1>10. ConsumersFirst' /\ BorrowsAreSafe'
  BY SealingIsSafe
<1>11. Closed'
  <2>1. unresolved' = {i \in Instances : Alive(i)'}
    BY <1>1, <1>4 DEF Alive
  <2> QED BY <1>2, <1>3, <1>4, <2>1 DEF Closed
<1>12. Gathered'
  BY <1>3 DEF IInv, Gathered, Gated, Underway, Healthy
<1>13. Accounts' /\ Transit' /\ Departed' /\ Layered'
  BY DEF Accounts, Transit, Departed, Layered, Healthy
<1> QED BY <1>6, <1>7, <1>8, <1>9, <1>10, <1>11, <1>12, <1>13 DEF IInv

\* A command that is under way when the Host is quarantined joins it.
LEMMA JoiningStep ==
    ASSUME IInv, ~Healthy, Underway, pc' = "joining",
           UNCHANGED <<stateVars, planVars, generation, jobs, instVars>>,
           UNCHANGED <<cmd, transition, affected, scopes, passed, layer>>
    PROVE  IInv'
<1>1. Types'
  BY DEF IInv, Types, Points, Underway, stateVars, planVars, instVars
<1>2. Budget'
  BY DEF IInv, Types, Budget, Reserve, Underway, planVars
<1>3. Gathered' /\ Accounts' /\ Transit' /\ Departed' /\ Layered'
  BY DEF Gathered, Gated, Accounts, Transit, Departed, Layered, Healthy, stateVars
<1> QED BY <1>1, <1>2, <1>3, Frames DEF IInv, stateVars, planVars, instVars

LEMMA QuarantineOrJoinStep ==
    ASSUME IInv, Underway, QuarantineOrJoin,
           UNCHANGED <<cmd, transition, affected, scopes, passed, layer>>,
           UNCHANGED <<queue, submitted, generation>>,
           UNCHANGED <<setup, foreground, bound, tainted, rejected, shown>>
    PROVE  IInv'
<1>1. CASE Healthy
  <2>1. Quarantine /\ pc' = "joining"
    BY <1>1 DEF QuarantineOrJoin
  <2>2. revision' \in Nat /\ graph' \in Graphs /\ Valid(graph')
    BY <2>1 DEF IInv, Types, Quarantine
  <2>3. tainted' \subseteq Instances
    BY DEF IInv, Types
  <2> QED BY <1>1, <2>1, <2>2, <2>3, QuarantineStep DEF Quarantine
<1>2. CASE ~Healthy
  BY <1>2, JoiningStep DEF QuarantineOrJoin, planVars, instVars
<1> QED BY <1>1, <1>2

LEMMA StopFailsStep == ASSUME IInv, StopFails PROVE IInv'
BY QuarantineOrJoinStep DEF StopFails, Underway

LEMMA UndoFailsStep == ASSUME IInv, UndoFails PROVE IInv'
BY QuarantineOrJoinStep DEF UndoFails, Underway

\* A failed release outside of the command puts a healthy Host in quarantine.
LEMMA ReleaseFailedStep ==
    ASSUME IInv, NEW i \in Instances, ReleaseFailed(i), tainted' \subseteq Instances,
           UNCHANGED <<queue, submitted, generation, cmdVars>>,
           UNCHANGED <<setup, foreground, bound, rejected, shown>>
    PROVE  IInv'
<1>1. CASE Healthy /\ i \in Owned
  <2>1. Quarantine
    BY <1>1 DEF ReleaseFailed
  <2>2. revision' \in Nat /\ graph' \in Graphs /\ Valid(graph')
    BY <2>1 DEF IInv, Types, Quarantine
  <2> QED BY <1>1, <2>1, <2>2, QuarantineStep DEF Quarantine, cmdVars
<1>2. CASE ~(Healthy /\ i \in Owned)
  <2>1. UNCHANGED <<stateVars, plans, phase, jobs>>
    BY <1>2 DEF ReleaseFailed
  <2>2. Types'
    BY <2>1 DEF IInv, Types, stateVars, cmdVars
  <2>3. Records'
    BY <2>1 DEF IInv, Records, Busy, Covering, Consumers, stateVars
  <2>4. Gathered' /\ Transit' /\ Layered'
    BY <2>1 DEF IInv, Gathered, Gated, Transit, Layered, Underway, Preparing, Healthy, Target, Scope,
                Bystanders, Serving, Affected, Candidates, stateVars, cmdVars
  <2> QED BY <2>1, <2>2, <2>3, <2>4, Frames DEF IInv, stateVars, cmdVars
<1> QED BY <1>1, <1>2

LEMMA EarlyFailureStep == ASSUME IInv, NEW i \in Instances, EarlyFailure(i) PROVE IInv'
<1>1. tainted' \subseteq Instances
  BY DEF IInv, Types, EarlyFailure
<1> QED BY <1>1, ReleaseFailedStep DEF EarlyFailure

LEMMA DescendantStep == ASSUME IInv, NEW i \in Instances, DescendantDeadline(i) PROVE IInv'
<1>1. tainted' \subseteq Instances
  BY DEF IInv, Types, DescendantDeadline
<1> QED BY <1>1, ReleaseFailedStep DEF DescendantDeadline

LEMMA QuarantineEndsStep == ASSUME IInv, QuarantineEnds PROVE IInv'
<1>1. /\ jobs["quarantine"].on /\ jobs' = [jobs EXCEPT !["quarantine"] = NoJob]
      /\ unresolved' = {i \in jobs["quarantine"].targets : phase[i] # "disposed"}
      /\ UNCHANGED <<hostPhase, revision, graph, live, planVars, generation, cmdVars, instVars>>
  BY DEF QuarantineEnds, Over
<1>2. ~Healthy
  BY <1>1 DEF IInv, Accounts, NoJob
<1>3. /\ jobs' \in [Jobs -> JobRecord] /\ jobs'["command"] = jobs["command"]
      /\ jobs'["quarantine"] = NoJob
  <2>1. NoJob \in JobRecord
    BY DEF NoJob, JobRecord
  <2> QED BY <1>1, <2>1 DEF IInv, Types, Jobs
<1>4. /\ jobs["quarantine"].targets \subseteq Instances
      /\ \A i \in jobs["quarantine"].targets : phase[i] # "none"
  BY DEF IInv, Types, Records, Jobs, JobRecord
<1>5. unresolved' = unresolved
  BY <1>1, <1>2, <1>4 DEF IInv, Closed, Alive
<1>6. Types'
  BY <1>1, <1>3, <1>5 DEF IInv, Types, planVars, cmdVars, instVars
<1>7. Records'
  <2>1. ASSUME NEW j \in Jobs
        PROVE  /\ jobs'[j].running \subseteq jobs'[j].targets
               /\ \A i \in jobs'[j].targets : phase'[i] # "none"
               /\ Covering(jobs[j])'
    <3>1. CASE j = "command"
      BY <1>1, <1>3, <3>1 DEF IInv, Records, Covering, Consumers, Jobs, instVars
    <3>2. CASE j = "quarantine"
      BY <1>3, <3>2 DEF NoJob, Covering
    <3> QED BY <2>1, <3>1, <3>2 DEF Jobs
  <2> QED BY <1>1, <2>1 DEF IInv, Records, Busy, instVars
<1>8. Closed' /\ Gathered'
  BY <1>1, <1>2, <1>3, <1>5 DEF IInv, Closed, Alive, Gathered, Gated, Healthy, NoJob, cmdVars, instVars
<1>9. Accounts' /\ Transit' /\ Departed' /\ Layered'
  BY <1>1, <1>2 DEF Accounts, Transit, Departed, Layered, Healthy
<1> QED BY <1>1, <1>6, <1>7, <1>8, <1>9, Frames DEF IInv, planVars, cmdVars, instVars

LEMMA JoinStep == ASSUME IInv, Join PROVE IInv'
<1>1. /\ pc = "joining" /\ Finish
      /\ UNCHANGED <<stateVars, planVars, generation, instVars>>
  BY DEF Join
<1>2. ~Healthy
  BY <1>1 DEF IInv, Accounts
<1>3. /\ jobs' \in [Jobs -> JobRecord] /\ jobs'["command"] = NoJob
      /\ jobs'["quarantine"] = jobs["quarantine"]
  <2>1. NoJob \in JobRecord
    BY DEF NoJob, JobRecord
  <2> QED BY <1>1, <2>1 DEF IInv, Types, Jobs, Finish
<1>4. Types'
  BY <1>1, <1>3 DEF IInv, Types, Points, Finish, stateVars, planVars, instVars
<1>5. Budget'
  BY <1>1 DEF IInv, Types, Budget, Reserve, Underway, Finish, planVars
<1>6. Records'
  <2>1. ASSUME NEW j \in Jobs
        PROVE  /\ jobs'[j].running \subseteq jobs'[j].targets
               /\ \A i \in jobs'[j].targets : phase'[i] # "none"
               /\ Covering(jobs[j])'
    <3>1. CASE j = "quarantine"
      BY <1>1, <1>3, <3>1 DEF IInv, Records, Covering, Consumers, Jobs, instVars
    <3>2. CASE j = "command"
      BY <1>3, <3>2 DEF NoJob, Covering
    <3> QED BY <2>1, <3>1, <3>2 DEF Jobs
  <2> QED BY <1>1, <2>1 DEF IInv, Records, Busy, stateVars, instVars
<1>7. Closed' /\ Gathered'
  BY <1>1, <1>2, <1>3 DEF IInv, Closed, Alive, Gathered, Gated, Healthy, Finish, stateVars, instVars
<1>8. Accounts' /\ Transit' /\ Departed' /\ Layered'
  BY <1>1, <1>2 DEF Accounts, Transit, Departed, Layered, Healthy, stateVars
<1> QED BY <1>1, <1>4, <1>5, <1>6, <1>7, <1>8, Frames DEF IInv, stateVars, planVars, instVars

-----------------------------------------------------------------------------
(* The preparation fails.                                                  *)

\* The scopes of a transition under way.
LEMMA TransitFacts ==
    ASSUME IInv, Underway, Healthy
    PROVE  /\ Len(scopes) = CASE pc = "stopping" -> 1
                              [] pc \in {"preparing", "undoing"} -> 2
                              [] OTHER -> 3
           /\ Len(scopes) \in DOMAIN scopes /\ 1 \in DOMAIN scopes
           /\ DOMAIN scopes = 1 .. Len(scopes)
           /\ \A k \in DOMAIN scopes : /\ Linked(scopes[k]) /\ scopes[k] \in Scopes
                                       /\ scopes[k] \in Execution
           /\ Candidates \subseteq Scope.instances /\ Scope.instances \subseteq Instances
           /\ \A i \in Candidates : i \in Instances /\ phase[i] # "none"
<1>1. /\ Len(scopes) = CASE pc = "stopping" -> 1
                         [] pc \in {"preparing", "undoing"} -> 2
                         [] OTHER -> 3
      /\ scopes \in Seq(Scopes)
  BY DEF IInv, Types, Transit
<1>2. Len(scopes) \in DOMAIN scopes /\ 1 \in DOMAIN scopes /\ DOMAIN scopes = 1 .. Len(scopes)
  <2>1. Len(scopes) \in {1, 2, 3}
    BY <1>1
  <2>2. DOMAIN scopes = 1 .. Len(scopes)
    BY DEF IInv, Types
  <2> QED BY <2>1, <2>2
<1>3. \A k \in DOMAIN scopes : /\ Linked(scopes[k]) /\ scopes[k] \in Scopes
                               /\ scopes[k] \in Execution
  BY <1>1 DEF IInv, Accounts, Execution
<1>4. Candidates \subseteq Scope.instances /\ Scope.instances \subseteq Instances
  BY <1>2, <1>3 DEF Candidates, Affected, Scope, Scopes
<1>5. \A i \in Candidates : i \in Instances /\ phase[i] # "none"
  BY <1>2, <1>3, <1>4 DEF Scope, Linked
<1> QED BY <1>1, <1>2, <1>3, <1>4, <1>5

\* The consumers of a candidate are in the last scope.
LEMMA CandidateConsumers ==
    ASSUME IInv, Preparing, Healthy, NEW i \in Candidates, NEW c \in Instances,
           i \in bound[c], phase[c] # "disposed"
    PROVE  c \in Consumers(i, {Scope})
<1>1. Underway
  BY DEF Preparing, Underway
<1>2. i[2] = generation /\ i \in Instances
  BY <1>1, TransitFacts DEF IInv, Departed, Preparing
<1>3. c \in Owned
  <2>1. phase[c] # "none"
    BY DEF IInv, Records
  <2> QED BY <2>1 DEF IInv, Accounts, Alive
<1>4. PICK s \in Execution : c \in s.instances
  BY <1>3 DEF Owned
<1>5. i \in s.instances /\ Linked(s)
  BY <1>4, LinkedConsumes DEF IInv, Accounts
<1>6. \A k \in 1 .. Len(scopes) - 1 : s.instances # scopes[k].instances
  BY <1>1, <1>2, <1>5 DEF IInv, Departed, Preparing, Types, Instances, Generations
<1>7. s.instances # scopes[1].instances
  <2>1. Len(scopes) \in {2, 3}
    BY <1>1, TransitFacts DEF Preparing
  <2> QED BY <1>6, <2>1
<1>8. s # Committed
  BY <1>1, <1>7 DEF IInv, Transit, Committed, Preparing
<1>9. PICK k \in DOMAIN scopes : s = scopes[k]
  BY <1>4, <1>8 DEF Execution
<1>10. s = Scope
  BY <1>1, <1>6, <1>9, TransitFacts DEF Scope
<1> QED BY <1>4, <1>5, <1>10, LinkedConsumes

\* The job that undoes a preparation.
LEMMA UndoJob ==
    ASSUME IInv, Preparing, Healthy, jobs' = [jobs EXCEPT !["command"] = Job({Scope}, Candidates)],
           UNCHANGED <<phase, bound>>
    PROVE  /\ jobs' \in [Jobs -> JobRecord] /\ jobs'["quarantine"] = jobs["quarantine"]
           /\ jobs'["command"].on /\ jobs'["command"].targets = Candidates
           /\ \A j \in Jobs : /\ jobs'[j].running \subseteq jobs'[j].targets
                              /\ \A i \in jobs'[j].targets : phase'[i] # "none"
                              /\ Covering(jobs[j])'
<1>1. Underway
  BY DEF Preparing, Underway
<1>2. Scope \in Scopes /\ Candidates \subseteq Instances /\ \A i \in Candidates : phase[i] # "none"
  BY <1>1, TransitFacts DEF Scope
<1> DEFINE J == Job({Scope}, Candidates)
<1>3. /\ J \in JobRecord /\ J.on /\ J.scopes = {Scope} /\ J.targets = Candidates
      /\ J.running = {} /\ J.done = {}
  BY <1>2 DEF Job, NoJob, JobRecord
<1> HIDE DEF J
<1>4. /\ jobs' \in [Jobs -> JobRecord] /\ jobs'["quarantine"] = jobs["quarantine"]
      /\ jobs'["command"] = J
  BY <1>3 DEF IInv, Types, Jobs, J
<1>5. Covering(jobs["command"])'
  BY <1>3, <1>4, CandidateConsumers DEF Covering, Consumers
<1>6. /\ jobs["quarantine"].running \subseteq jobs["quarantine"].targets
      /\ \A i \in jobs["quarantine"].targets : phase[i] # "none"
      /\ Covering(jobs["quarantine"])'
  BY <1>4 DEF IInv, Records, Covering, Consumers, Jobs
<1> QED BY <1>2, <1>3, <1>4, <1>5, <1>6 DEF Jobs

LEMMA UndoStep == ASSUME IInv, Undo PROVE IInv'
<1>1. /\ Preparing /\ Underway
      /\ UNCHANGED <<cmd, transition, affected, scopes, passed, layer>>
      /\ UNCHANGED <<stateVars, planVars, generation, instVars>>
  BY DEF Undo, Preparing, Underway
<1>2. CASE ~Healthy
  BY <1>1, <1>2, JoiningStep DEF Undo
<1>3. CASE Healthy
  <2>1. /\ jobs' = [jobs EXCEPT !["command"] = Job({Scope}, Candidates)]
        /\ pc' = IF pc = "preparing" THEN "undoing" ELSE "undoingRestore"
    BY <1>3 DEF Undo
  <2>2. /\ jobs' \in [Jobs -> JobRecord] /\ jobs'["quarantine"] = jobs["quarantine"]
        /\ jobs'["command"].on /\ jobs'["command"].targets = Candidates
        /\ \A j \in Jobs : /\ jobs'[j].running \subseteq jobs'[j].targets
                           /\ \A i \in jobs'[j].targets : phase'[i] # "none"
                           /\ Covering(jobs[j])'
    BY <1>1, <1>3, <2>1, UndoJob DEF instVars
  <2>3. Types'
    BY <1>1, <2>1, <2>2 DEF IInv, Types, Points, Preparing, stateVars, planVars, instVars
  <2>4. Budget'
    BY <1>1, <2>1 DEF IInv, Budget, Reserve, Preparing, Underway, planVars
  <2>5. Records'
    <3>1. /\ \A i \in Instances : phase'[i] = "none" => /\ bound'[i] = {} /\ ~Busy(i)' /\ i \notin shown'
          /\ \A i \in Instances : phase'[i] # "none" => i[2] <= generation'
          /\ \A c \in Instances : \A p \in bound'[c] : phase'[p] # "none"
          /\ \A i \in shown' : setup'[i] = "done" /\ (phase'[i] = "active" => i \in live')
      BY <1>1 DEF IInv, Records, Busy, stateVars, instVars
    <3> QED BY <2>2, <3>1 DEF Records
  <2>6. Closed' /\ Gathered'
    BY <1>1, <1>3, <2>1 DEF Closed, Healthy, Gathered, Gated, stateVars
  <2>7. Accounts'
    BY <1>1, <1>3, <2>1, <2>2 DEF IInv, Accounts, Alive, Healthy, Execution, Committed, Owned, Linked,
                                  stateVars, instVars
  <2>8. Transit'
    BY <1>1, <1>3, <2>1 DEF IInv, Transit, Underway, Preparing, Healthy, Scope, Bystanders, Serving,
                            stateVars, instVars
  <2>9. Departed'
    BY <1>1, <1>3, <2>1, <2>2 DEF IInv, Departed, Underway, Undoing, Preparing, Healthy, Affected,
                                  Scope, Candidates, stateVars, instVars
  <2>10. Layered'
    BY <2>1 DEF Layered, Preparing
  <2> QED BY <1>1, <2>3, <2>4, <2>5, <2>6, <2>7, <2>8, <2>9, <2>10, Frames
          DEF IInv, stateVars, planVars, instVars
<1> QED BY <1>2, <1>3

-----------------------------------------------------------------------------
(* A command ends with a new revision, or prepares.                        *)

\* The command's job is over; quarantine's is not touched.
LEMMA NoCommandJob ==
    ASSUME IInv, jobs' = [jobs EXCEPT !["command"] = NoJob], UNCHANGED <<phase, bound>>
    PROVE  /\ jobs' \in [Jobs -> JobRecord]
           /\ jobs'["command"] = NoJob /\ jobs'["quarantine"] = jobs["quarantine"]
           /\ \A j \in Jobs : /\ jobs'[j].running \subseteq jobs'[j].targets
                              /\ \A i \in jobs'[j].targets : phase'[i] # "none"
                              /\ Covering(jobs[j])'
<1>1. NoJob \in JobRecord
  BY DEF NoJob, JobRecord
<1>2. /\ jobs' \in [Jobs -> JobRecord]
      /\ jobs'["command"] = NoJob /\ jobs'["quarantine"] = jobs["quarantine"]
  BY <1>1 DEF IInv, Types, Jobs
<1>3. /\ jobs["quarantine"].running \subseteq jobs["quarantine"].targets
      /\ \A i \in jobs["quarantine"].targets : phase[i] # "none"
      /\ Covering(jobs["quarantine"])'
  BY <1>2 DEF IInv, Records, Covering, Consumers, Jobs
<1>4. /\ NoJob.running = {} /\ NoJob.targets = {}
      /\ Covering(jobs["command"])'
  BY <1>2 DEF NoJob, Covering
<1> QED BY <1>2, <1>3, <1>4 DEF Jobs

\* A new revision ends the command when all that is alive is committed and serves.
LEMMA RevisionStep ==
    ASSUME IInv, Healthy, Underway, Finish, plans' = Invalidated(plans), revision' = revision + 1,
           hostPhase' \in {"stopped", "running"}, graph' \in Graphs, Valid(graph'),
           live' \subseteq Instances, shown' \subseteq Instances,
           Linked([graph |-> graph', instances |-> live']),
           \A i \in Instances : Alive(i) => i \in live',
           \A i \in shown' : setup[i] = "done" /\ phase[i] # "none",
           \A i \in live' : /\ phase[i] = "active" /\ i \in shown' /\ setup[i] = "done"
                            /\ \A k \in live' : k[1] = i[1] => k = i,
           hostPhase' = "stopped" => live' = {},
           hostPhase' = "running" => \A x \in Members(graph') : \E i \in live' : i[1] = x,
           UNCHANGED <<unresolved, queue, submitted, generation>>,
           UNCHANGED <<phase, setup, foreground, bound, tainted, rejected>>
    PROVE  IInv'
<1>1. /\ pc' = "idle" /\ affected' = {} /\ scopes' = <<>> /\ passed' = {} /\ layer' = {}
      /\ jobs' = [jobs EXCEPT !["command"] = NoJob] /\ cmd' = cmd
  BY DEF Finish
<1>2. /\ jobs' \in [Jobs -> JobRecord]
      /\ jobs'["command"] = NoJob /\ jobs'["quarantine"] = jobs["quarantine"]
      /\ \A j \in Jobs : /\ jobs'[j].running \subseteq jobs'[j].targets
                         /\ \A i \in jobs'[j].targets : phase'[i] # "none"
                         /\ Covering(jobs[j])'
  BY <1>1, NoCommandJob
<1>3. /\ plans' \in [Plans -> Plan]
      /\ \A p \in Plans : plans'[p].status \notin {"compiling", "issued"}
  BY InvalidatedFacts DEF IInv, Types
<1>4. Types'
  <2>1. hostPhase' \in {"stopped", "running", "quarantined"} /\ revision' \in Nat
    BY DEF IInv, Types
  <2> QED BY <1>1, <1>2, <1>3, <2>1 DEF IInv, Types, Points
<1>5. Budget'
  BY <1>1 DEF IInv, Types, Budget, Reserve, Underway
<1>6. PlansAreCurrent'
  BY <1>3 DEF PlansAreCurrent
<1>7. Records'
  <2>1. /\ \A i \in Instances : phase'[i] = "none" => /\ bound'[i] = {} /\ ~Busy(i)' /\ i \notin shown'
        /\ \A i \in Instances : phase'[i] # "none" => i[2] <= generation'
        /\ \A c \in Instances : \A p \in bound'[c] : phase'[p] # "none"
        /\ \A i \in shown' : setup'[i] = "done" /\ (phase'[i] = "active" => i \in live')
    BY DEF IInv, Records, Busy, Alive
  <2> QED BY <1>2, <2>1 DEF Records
<1>8. Closed'
  BY DEF Closed, Healthy
<1>9. Accounts'
  <2>1. /\ Execution' = {Committed'} /\ Owned' = live'
        /\ Committed' = [graph |-> graph', instances |-> live']
    BY <1>1 DEF Execution, Owned, Committed
  <2>2. Linked(Committed)'
    BY <2>1 DEF Linked
  <2>3. \A s \in Execution' : Linked(s)'
    BY <2>1, <2>2 DEF Linked
  <2> QED BY <1>1, <1>2, <2>1, <2>3 DEF IInv, Accounts, Alive, Healthy
<1>10. Gathered'
  BY <1>1, <1>2 DEF Gathered, Serving
<1>11. Transit' /\ Departed' /\ Layered'
  BY <1>1 DEF Transit, Departed, Layered, Underway, Preparing
<1> QED BY <1>4, <1>5, <1>6, <1>7, <1>8, <1>9, <1>10, <1>11, Frames DEF IInv

\* A stop leaves nobody, neither among its targets nor besides.
LEMMA CommitStopStep == ASSUME IInv, CommitStop PROVE IInv'
<1>1. /\ pc = "stopping" /\ Underway /\ Healthy /\ Clean(jobs["command"]) /\ cmd.kind = "stop"
      /\ hostPhase' = "stopped" /\ revision' = revision + 1 /\ live' = {} /\ Finish
      /\ plans' = Invalidated(plans)
      /\ UNCHANGED <<graph, unresolved, queue, submitted, generation, instVars>>
  BY DEF CommitStop, StopSucceeds, Underway
<1>2. \A i \in live : phase[i] = "disposed"
  <2>1. Len(scopes) = 1 /\ live = scopes[1].instances /\ affected = Members(graph)
    BY <1>1 DEF IInv, Transit
  <2>2. \A i \in live : i[1] \in affected
    <3>1. Linked(Committed)
      BY <1>1 DEF IInv, Accounts, Execution
    <3> QED BY <2>1, <3>1 DEF Linked, Committed
  <2> QED BY <1>1, <2>2 DEF IInv, Departed, Clean
<1>3. \A i \in Instances : ~Alive(i)
  <2>1. Owned = live
    <3>1. Len(scopes) = 1 /\ live = scopes[1].instances /\ DOMAIN scopes = 1 .. Len(scopes)
      BY <1>1, TransitFacts DEF IInv, Transit
    <3>2. \A s \in Execution : s.instances = live
      BY <3>1 DEF Execution, Committed
    <3>3. Committed \in Execution /\ Committed.instances = live
      BY DEF Execution, Committed
    <3> QED BY <3>2, <3>3 DEF Owned
  <2> QED BY <1>1, <1>2, <2>1 DEF IInv, Accounts, Alive
<1>4. Linked([graph |-> graph', instances |-> live'])
  BY <1>1 DEF Linked
<1>5. /\ graph' \in Graphs /\ Valid(graph') /\ shown' \subseteq Instances
      /\ \A i \in shown' : setup[i] = "done" /\ phase[i] # "none"
  BY <1>1 DEF IInv, Types, Records, instVars
<1> QED BY <1>1, <1>3, <1>4, <1>5, RevisionStep DEF instVars

\* After a start that failed and was undone nobody is left.
LEMMA StartFailsStep == ASSUME IInv, StartFails PROVE IInv'
<1>1. /\ pc = "undoing" /\ Underway /\ Undoing /\ Healthy /\ Clean(jobs["command"])
      /\ hostPhase = "stopped" /\ revision' = revision + 1 /\ Finish
      /\ plans' = Invalidated(plans)
      /\ UNCHANGED <<hostPhase, graph, live, unresolved, queue, submitted, generation, instVars>>
  BY DEF StartFails, UndoSucceeds, Underway, Undoing
<1>2. live = {} /\ Len(scopes) = 2 /\ live = scopes[1].instances
  BY <1>1 DEF IInv, Accounts, Transit
<1>3. /\ Scope = scopes[2] /\ \A i \in Scope.instances : i[1] \in affected
      /\ \A i \in Candidates : phase[i] = "disposed"
  <2>1. {i \in scopes[2].instances : i[1] \notin affected} = {}
    BY <1>1, <1>2 DEF IInv, Transit, Bystanders
  <2> QED BY <1>1, <1>2, <2>1 DEF IInv, Departed, Clean, Scope
<1>4. \A i \in Owned : phase[i] = "disposed"
  <2>1. DOMAIN scopes = {1, 2}
    BY <1>1, <1>2, TransitFacts
  <2>2. \A s \in Execution : s.instances = {} \/ s = Scope
    BY <1>2, <1>3, <2>1 DEF Execution, Committed
  <2> QED BY <1>3, <2>2 DEF Owned, Candidates, Affected
<1>5. \A i \in Instances : ~Alive(i)
  BY <1>1, <1>4 DEF IInv, Accounts, Alive
<1>6. Linked([graph |-> graph', instances |-> live'])
  BY <1>1, <1>2 DEF Linked
<1>7. /\ graph' \in Graphs /\ Valid(graph') /\ shown' \subseteq Instances
      /\ \A i \in shown' : setup[i] = "done" /\ phase[i] # "none"
  BY <1>1 DEF IInv, Types, Records, instVars
<1> QED BY <1>1, <1>2, <1>5, <1>6, <1>7, RevisionStep DEF instVars

\* A new generation in a new scope: the bystanders, and nobody else yet.
LEMMA PrepareStep ==
    ASSUME IInv, Healthy, NEW g \in Graphs, Valid(g), Covers(graph, g, affected), NEW point,
           \/ pc = "stopping" /\ point = "preparing"
           \/ pc = "undoing" /\ point = "restoring" /\ g = graph,
           Clean(jobs["command"]), Prepare(g, point),
           UNCHANGED <<stateVars, planVars, instVars>>
    PROVE  IInv'
<1> DEFINE s == [graph |-> g, instances |-> Bystanders]
<1>1. /\ generation' = generation + 1 /\ passed' = {} /\ layer' = {} /\ pc' = point
      /\ jobs' = [jobs EXCEPT !["command"] = NoJob]
      /\ UNCHANGED <<cmd, transition, affected>>
      /\ scopes' = Append(scopes, s)
  BY DEF Prepare, Bystanders
<1>2. /\ Underway /\ point \in {"preparing", "restoring"}
      /\ Len(scopes) = IF pc = "stopping" THEN 1 ELSE 2
  BY DEF IInv, Transit, Underway
<1>3. /\ DOMAIN scopes = 1 .. Len(scopes) /\ Linked(scopes[1]) /\ scopes[1] \in Scopes
      /\ scopes \in Seq(Scopes) /\ generation \in Nat
      /\ \A k \in DOMAIN scopes : Linked(scopes[k]) /\ scopes[k] \in Scopes
  BY <1>2, TransitFacts DEF IInv, Types
<1>4. /\ graph = scopes[1].graph /\ live = scopes[1].instances
      /\ Bystanders \subseteq scopes[1].instances
      /\ \A i \in scopes[1].instances : i \in Bystanders <=> i[1] \notin affected
  BY <1>2 DEF IInv, Transit, Bystanders
<1>5. s \in Scopes /\ s.graph = g /\ s.instances = Bystanders
  BY <1>3, <1>4 DEF Scopes
<1>6. Linked(s)
  <2>1. ASSUME NEW c \in Bystanders
        PROVE  /\ c[1] \in Members(g) /\ phase[c] # "none"
               /\ bound[c] = {p \in Bystanders : p[1] \in Needs(g, c[1])}
    <3>1. /\ c[1] \in Members(graph) /\ c[1] \notin affected /\ phase[c] # "none"
          /\ bound[c] = {p \in scopes[1].instances : p[1] \in Needs(graph, c[1])}
      BY <1>3, <1>4 DEF Linked
    <3>2. /\ c[1] \in Members(g)
          /\ Needs(graph, c[1]) = Needs(g, c[1]) /\ Needs(graph, c[1]) \intersect affected = {}
      BY <3>1 DEF Covers
    <3> QED BY <1>4, <3>1, <3>2
  <2> QED BY <1>5, <2>1 DEF Linked
<1> HIDE DEF s
<1>7. /\ Len(scopes') = Len(scopes) + 1 /\ scopes' \in Seq(Scopes) /\ DOMAIN scopes' = 1 .. Len(scopes')
      /\ scopes'[Len(scopes')] = s /\ \A k \in DOMAIN scopes : scopes'[k] = scopes[k]
  BY <1>1, <1>3, <1>5
<1>8. Scope' = s /\ Candidates' = {} /\ Bystanders' = Bystanders
  <2>1. Scope' = s
    BY <1>7 DEF Scope
  <2>2. Candidates' = {}
    BY <1>1, <1>4, <1>5, <2>1 DEF Candidates, Affected
  <2>3. scopes'[1] = scopes[1]
    BY <1>2, <1>3, <1>7
  <2> QED BY <1>1, <2>1, <2>2, <2>3 DEF Bystanders
<1>9. /\ jobs' \in [Jobs -> JobRecord]
      /\ jobs'["command"] = NoJob /\ jobs'["quarantine"] = jobs["quarantine"]
      /\ \A j \in Jobs : /\ jobs'[j].running \subseteq jobs'[j].targets
                         /\ \A i \in jobs'[j].targets : phase'[i] # "none"
                         /\ Covering(jobs[j])'
  BY <1>1, NoCommandJob DEF instVars
<1>10. Types'
  BY <1>1, <1>2, <1>7, <1>9 DEF IInv, Types, Points, Underway, stateVars, planVars, instVars
<1>11. Budget'
  BY <1>1, <1>2 DEF IInv, Types, Budget, Reserve, Underway, planVars
<1>12. Records'
  <2>1. /\ \A i \in Instances : phase'[i] = "none" => /\ bound'[i] = {} /\ ~Busy(i)' /\ i \notin shown'
        /\ \A i \in Instances : phase'[i] # "none" => i[2] <= generation'
        /\ \A c \in Instances : \A p \in bound'[c] : phase'[p] # "none"
        /\ \A i \in shown' : setup'[i] = "done" /\ (phase'[i] = "active" => i \in live')
    BY <1>1, <1>3 DEF IInv, Records, Busy, Instances, Generations, stateVars, instVars
  <2> QED BY <1>9, <2>1 DEF Records
<1>13. Closed' /\ Gathered'
  BY <1>1, <1>2 DEF Closed, Gathered, Gated, Healthy, stateVars
<1>14. Accounts'
  <2>1. Committed' = Committed
    BY DEF Committed, stateVars
  <2>2. Execution' = Execution \union {s}
    BY <1>7, <1>3, <2>1 DEF Execution
  <2>3. Owned' = Owned
    <3>1. Bystanders \subseteq Owned
      <4>1. Committed \in Execution /\ Committed.instances = live
        BY DEF Execution, Committed
      <4> QED BY <4>1, <1>4 DEF Owned
    <3> QED BY <2>2, <3>1, <1>5 DEF Owned
  <2>4. \A x \in Execution' : Linked(x)'
    BY <1>6, <2>2 DEF IInv, Accounts, Linked, instVars
  <2> QED BY <1>1, <1>2, <1>9, <2>3, <2>4 DEF IInv, Accounts, Alive, Healthy, stateVars, instVars
<1>15. Transit'
  <2>1. /\ graph' = scopes'[1].graph /\ live' = scopes'[1].instances
        /\ \A i \in Bystanders' : /\ Serving(i)'
                                  /\ \A k \in Bystanders' : k[1] = i[1] => k = i
        /\ \A x \in Members(graph') \ affected' : \E i \in Bystanders' : i[1] = x
    <3>1. /\ \A i \in Bystanders : /\ Serving(i)
                                   /\ \A k \in Bystanders : k[1] = i[1] => k = i
          /\ \A x \in Members(graph) \ affected : \E i \in Bystanders : i[1] = x
      BY <1>2 DEF IInv, Transit
    <3> QED BY <1>1, <1>2, <1>3, <1>4, <1>7, <1>8, <3>1 DEF Serving, stateVars, instVars
  <2>2. ASSUME NEW k \in 2 .. Len(scopes')
        PROVE  /\ Covers(graph', scopes'[k].graph, affected') /\ Valid(scopes'[k].graph)
               /\ {i \in scopes'[k].instances : i[1] \notin affected'} = Bystanders'
    <3>1. CASE k = Len(scopes')
      BY <1>1, <1>4, <1>5, <1>7, <1>8, <3>1 DEF stateVars
    <3>2. CASE k # Len(scopes')
      <4>1. k \in 2 .. Len(scopes) /\ scopes'[k] = scopes[k]
        BY <1>2, <1>3, <1>7, <3>2
      <4> QED BY <1>1, <1>2, <1>8, <4>1 DEF IInv, Transit, stateVars
    <3> QED BY <3>1, <3>2
  <2>3. pc' \in {"restoring", "undoingRestore"} => Scope'.graph = graph'
    BY <1>1, <1>5, <1>8 DEF stateVars
  <2> QED BY <1>1, <1>2, <1>7, <2>1, <2>2, <2>3 DEF Transit
<1>16. Departed'
  <2>1. \A i \in Affected(scopes[1].instances) : phase[i] = "disposed"
    BY <1>2, <1>4 DEF IInv, Departed, Clean, Affected
  <2>2. pc = "undoing" => \A i \in Affected(scopes[2].instances) : phase[i] = "disposed"
    BY <1>2 DEF IInv, Departed, Undoing, Clean, Candidates, Scope
  <2>3. \A k \in DOMAIN scopes : \A i \in scopes[k].instances : i[2] < generation + 1
    BY <1>3 DEF IInv, Records, Types, Linked, Scopes, Instances, Generations
  <2>4. \A i \in Instances : phase[i] # "none" => i[2] # generation + 1
    BY <1>3 DEF IInv, Records, Instances, Generations
  <2>5. ~jobs'["command"].on
    BY <1>9 DEF NoJob
  <2>6. \A k \in 1 .. Len(scopes') - 1 : scopes'[k] = scopes[k] /\ k \in DOMAIN scopes
    BY <1>2, <1>3, <1>7
  <2>7. /\ Affected(scopes[1].instances)' = Affected(scopes[1].instances)
        /\ pc = "undoing" => Affected(scopes[2].instances)' = Affected(scopes[2].instances)
    BY <1>1, <1>2, <2>6, <1>7 DEF Affected
  <2> QED BY <1>1, <1>2, <1>8, <2>1, <2>2, <2>3, <2>4, <2>5, <2>6, <2>7
          DEF Departed, Undoing, instVars
<1>17. Layered'
  BY <1>1, <1>8 DEF Layered
<1> QED BY <1>10, <1>11, <1>12, <1>13, <1>14, <1>15, <1>16, <1>17, Frames
        DEF IInv, stateVars, planVars, instVars

LEMMA BeginPrepareStep == ASSUME IInv, BeginPrepare PROVE IInv'
<1>1. /\ pc = "stopping" /\ Underway /\ Healthy /\ Clean(jobs["command"])
      /\ Prepare(Target, "preparing") /\ UNCHANGED <<stateVars, planVars, instVars>>
  BY DEF BeginPrepare, StopSucceeds, Underway
<1>2. Covers(graph, Target, affected) /\ Valid(Target)
  BY <1>1 DEF IInv, Transit
<1>3. Target \in Graphs
  BY <1>1 DEF IInv, Types, Plan, Commands, Target
<1> QED BY <1>1, <1>2, <1>3, PrepareStep

LEMMA BeginRestoreStep == ASSUME IInv, BeginRestore PROVE IInv'
<1>1. /\ pc = "undoing" /\ Underway /\ Healthy /\ Clean(jobs["command"])
      /\ Prepare(graph, "restoring") /\ UNCHANGED <<stateVars, planVars, instVars>>
  BY DEF BeginRestore, UndoSucceeds, Underway
<1>2. Covers(graph, graph, affected)
  <2>1. 2 \in 2 .. Len(scopes)
    BY <1>1 DEF IInv, Transit
  <2> QED BY <1>1, <2>1, CoversItself DEF IInv, Transit
<1> QED BY <1>1, <1>2, PrepareStep DEF IInv, Types

-----------------------------------------------------------------------------
(* The layers of a preparation.                                            *)

\* The execution scope under preparation: candidates, and bystanders that need none.
LEMMA ScopeUnderPreparation ==
    ASSUME IInv, Preparing, Healthy
    PROVE  /\ Len(scopes) \in {2, 3} /\ DOMAIN scopes = 1 .. Len(scopes)
           /\ Scope \in Scopes /\ Scope \in Execution /\ Linked(Scope)
           /\ Valid(Scope.graph) /\ Covers(graph, Scope.graph, affected)
           /\ {i \in Scope.instances : i[1] \notin affected} = Bystanders
           /\ \A i \in Scope.instances : i \notin Candidates =>
                /\ Serving(i) /\ i[1] \notin affected
                /\ Needs(Scope.graph, i[1]) \intersect affected = {}
<1>1. Underway
  BY DEF Preparing, Underway
<1>2. Len(scopes) \in {2, 3} /\ DOMAIN scopes = 1 .. Len(scopes)
  BY <1>1, TransitFacts DEF Preparing
<1>3. Scope \in Scopes /\ Scope \in Execution /\ Linked(Scope)
  BY <1>1, <1>2, TransitFacts DEF Scope
<1>4. /\ Valid(Scope.graph) /\ Covers(graph, Scope.graph, affected)
      /\ {i \in Scope.instances : i[1] \notin affected} = Bystanders
  BY <1>1, <1>2 DEF IInv, Transit, Scope
<1>5. ASSUME NEW i \in Scope.instances, i \notin Candidates
      PROVE  /\ Serving(i) /\ i[1] \notin affected
             /\ Needs(Scope.graph, i[1]) \intersect affected = {}
  <2>1. i[1] \notin affected /\ i \in Bystanders
    BY <1>4, <1>5 DEF Candidates, Affected
  <2>2. i[1] \in Members(Scope.graph)
    BY <1>3 DEF Linked
  <2> QED BY <1>1, <1>4, <2>1, <2>2 DEF IInv, Transit, Covers
<1> QED BY <1>2, <1>3, <1>4, <1>5

LEMMA NextLayerStep == ASSUME IInv, NextLayer PROVE IInv'
<1> DEFINE g == Scope.graph
           next == Frontier(g, passed)
           new == {<<x, generation>> : x \in next \intersect affected}
           grown == [Scope EXCEPT !.instances = @ \union new]
<1>1. /\ Preparing /\ Healthy /\ layer = {} /\ Underway
      /\ passed' = passed \union next /\ layer' = new
      /\ scopes' = [scopes EXCEPT ![Len(scopes)] = grown]
      /\ phase' = [i \in Instances |-> IF i \in new THEN "active" ELSE phase[i]]
      /\ setup' = [i \in Instances |-> IF i \in new THEN "running" ELSE setup[i]]
      /\ bound' = [i \in Instances |->
           IF i \in new THEN {p \in Scope.instances : p[1] \in Needs(g, i[1])} ELSE bound[i]]
      /\ UNCHANGED <<pc, cmd, transition, affected, stateVars, planVars>>
      /\ UNCHANGED <<generation, jobs, foreground, tainted, rejected, shown>>
  BY DEF NextLayer, Preparing, Underway, Scope
<1>2. /\ Len(scopes) \in {2, 3} /\ DOMAIN scopes = 1 .. Len(scopes) /\ scopes \in Seq(Scopes)
      /\ Scope \in Scopes /\ Scope \in Execution /\ Linked(Scope) /\ g \in Graphs
      /\ Scope.instances \subseteq Instances
      /\ Covers(graph, g, affected)
      /\ {i \in Scope.instances : i[1] \notin affected} = Bystanders
      /\ \A i \in Scope.instances : i \notin Candidates =>
           /\ Serving(i) /\ i[1] \notin affected /\ Needs(g, i[1]) \intersect affected = {}
  BY <1>1, ScopeUnderPreparation DEF IInv, Types, Scopes
<1>3. /\ passed \subseteq Members(g)
      /\ \A x \in passed : Needs(g, x) \subseteq passed
      /\ \A i \in Candidates : /\ i[1] \in passed /\ phase[i] = "active" /\ setup[i] = "done"
      /\ \A x \in passed \intersect affected : <<x, generation>> \in Scope.instances
  BY <1>1 DEF IInv, Layered
<1>4. /\ next \subseteq Members(g) \ passed /\ next \subseteq Installations
      /\ \A x \in next : Needs(g, x) \subseteq passed
  BY <1>2, GraphFacts DEF Frontier
<1>5. generation \in Generations
  <2>1. /\ generation \in Nat /\ Len(queue) \in Nat /\ Reserve \in Nat /\ submitted \in Nat
        /\ generation >= 1 /\ submitted <= MaxCommands
        /\ generation + 2 * Len(queue) + Reserve <= 2 * submitted
    BY <1>1 DEF IInv, Types, Budget, Preparing, Reserve
  <2> QED BY <2>1, BoundAssumption DEF Generations
<1> HIDE DEF g, next
<1>6. /\ new \subseteq Instances
      /\ \A i \in new : i[1] \in next /\ i[1] \in affected /\ i[2] = generation
      /\ \A x \in next \intersect affected : <<x, generation>> \in new
  BY <1>4, <1>5 DEF Instances
<1> HIDE DEF new
<1>7. \A i \in new : phase[i] = "none"
  BY <1>1, <1>3, <1>4, <1>6 DEF IInv, Departed, Preparing
<1>8. /\ grown \in Scopes /\ grown.graph = g /\ grown.instances = Scope.instances \union new
  BY <1>2, <1>6 DEF Scopes, g
<1> HIDE DEF grown
<1>9. /\ scopes' \in Seq(Scopes) /\ Len(scopes') = Len(scopes) /\ DOMAIN scopes' = DOMAIN scopes
      /\ scopes'[Len(scopes)] = grown
      /\ \A k \in DOMAIN scopes : k # Len(scopes) => scopes'[k] = scopes[k]
  BY <1>1, <1>2, <1>8
<1>10. /\ Scope' = grown /\ Candidates' = Candidates \union new /\ Bystanders' = Bystanders
       /\ Committed' = Committed
  <2>1. Scope' = grown
    BY <1>9 DEF Scope
  <2>2. scopes'[1] = scopes[1]
    BY <1>2, <1>9
  <2> QED BY <1>1, <1>6, <1>8, <2>1, <2>2 DEF Candidates, Affected, Bystanders, Committed, stateVars
<1>11. /\ phase' \in [Instances -> Phases]
       /\ \A i \in new : phase'[i] = "active" /\ setup'[i] = "running"
       /\ \A i \in new : bound'[i] = {p \in Scope.instances : p[1] \in Needs(g, i[1])}
       /\ \A i \in Instances : i \notin new =>
            phase'[i] = phase[i] /\ setup'[i] = setup[i] /\ bound'[i] = bound[i]
       /\ \A i \in Instances : phase[i] # "none" => i \notin new
  BY <1>1, <1>6, <1>7 DEF IInv, Types, Phases
<1>12. ASSUME NEW c \in Instances, NEW p \in bound'[c]
       PROVE  p \notin new /\ phase[p] # "none"
  <2>1. \A q \in Scope.instances : phase[q] # "none"
    BY <1>2 DEF Linked
  <2>2. CASE c \in new
    BY <1>2, <1>11, <1>12, <2>1, <2>2
  <2>3. CASE c \notin new
    <3>1. p \in bound[c]
      BY <1>11, <1>12, <2>3
    <3> QED BY <1>11, <3>1 DEF IInv, Types, Records
  <2> QED BY <2>2, <2>3
<1>13. Types'
  <2>1. setup' \in [Instances -> {"none", "running", "done", "failed"}]
    BY <1>1 DEF IInv, Types
  <2>2. bound' \in [Instances -> SUBSET Instances]
    BY <1>1, <1>2 DEF IInv, Types
  <2> QED BY <1>1, <1>4, <1>6, <1>9, <1>11, <2>1, <2>2 DEF IInv, Types, stateVars, planVars
<1>14. Records'
  <2>1. ASSUME NEW j \in Jobs
        PROVE  /\ jobs'[j].running \subseteq jobs'[j].targets
               /\ \A i \in jobs'[j].targets : phase'[i] # "none"
               /\ Covering(jobs[j])'
    <3>1. ~jobs[j].on
      BY <1>1 DEF IInv, Departed, Accounts, Undoing, Preparing, NoJob, Jobs
    <3>2. \A i \in jobs[j].targets : i \in Instances
      BY DEF IInv, Types, JobRecord
    <3> QED BY <1>1, <1>11, <3>1, <3>2 DEF IInv, Records, Covering
  <2>2. \A i \in Instances : phase'[i] = "none" => /\ bound'[i] = {} /\ ~Busy(i)' /\ i \notin shown'
    BY <1>1, <1>11 DEF IInv, Records, Busy
  <2>3. \A i \in Instances : phase'[i] # "none" => i[2] <= generation'
    BY <1>1, <1>5, <1>6, <1>11 DEF IInv, Records, Generations
  <2>4. \A c \in Instances : \A p \in bound'[c] : phase'[p] # "none"
    BY <1>11, <1>12, <1>13 DEF Types
  <2>5. \A i \in shown' : setup'[i] = "done" /\ (phase'[i] = "active" => i \in live')
    BY <1>1, <1>11 DEF IInv, Types, Records, stateVars
  <2> QED BY <2>1, <2>2, <2>3, <2>4, <2>5 DEF Records
<1>15. ConsumersFirst'
  <2>1. SUFFICES ASSUME NEW c \in Instances, NEW p \in Instances, p \in bound'[c],
                        phase'[p] \in {"disposing", "late", "broken", "disposed"}
                 PROVE  phase'[c] = "disposed"
    BY DEF ConsumersFirst
  <2>2. phase[p] = phase'[p]
    BY <1>11, <2>1
  <2>3. c \notin new
    <3>1. \A q \in Scope.instances : phase[q] = "active"
      BY <1>2, <1>3 DEF Serving
    <3> QED BY <1>11, <2>1, <2>2, <3>1
  <2> QED BY <1>11, <2>1, <2>2, <2>3 DEF IInv, ConsumersFirst
<1>16. BorrowsAreSafe'
  BY <1>1, <1>11, <1>12, <1>13 DEF IInv, Types, BorrowsAreSafe, Records, Busy
<1>17. Closed' /\ Gathered'
  BY <1>1 DEF Closed, Gathered, Gated, Preparing, Healthy, stateVars
<1>18. Accounts'
  <2>1. \A c \in grown.instances :
          /\ c[1] \in Members(grown.graph) /\ phase'[c] # "none"
          /\ bound'[c] = {p \in grown.instances : p[1] \in Needs(grown.graph, c[1])}
    <3>1. ASSUME NEW c \in Scope.instances \union new
          PROVE  /\ c[1] \in Members(g) /\ phase'[c] # "none"
                 /\ {p \in Scope.instances \union new : p[1] \in Needs(g, c[1])}
                      = {p \in Scope.instances : p[1] \in Needs(g, c[1])}
      <4>1. CASE c \in new
        BY <1>4, <1>6, <1>11, <4>1
      <4>2. CASE c \in Scope.instances
        <5>1. c[1] \in Members(g) /\ phase[c] # "none" /\ phase'[c] = phase[c]
          BY <1>2, <1>11, <4>2 DEF Linked, g
        <5>2. \A p \in new : p[1] \notin Needs(g, c[1])
          BY <1>2, <1>3, <1>4, <1>6, <4>2
        <5> QED BY <5>1, <5>2
      <4> QED BY <4>1, <4>2
    <3>2. ASSUME NEW c \in Scope.instances \union new
          PROVE  bound'[c] = {p \in Scope.instances : p[1] \in Needs(g, c[1])}
      BY <1>2, <1>11, <3>2 DEF Linked, g
    <3> QED BY <1>8, <3>1, <3>2
  <2>2. ASSUME NEW s \in Execution, s.instances \subseteq Instances, Linked(s)
        PROVE  Linked(s)'
    BY <1>11, <2>2 DEF Linked
  <2>3. \A s \in Execution' : s \in Execution \/ s = grown
    BY <1>9, <1>10 DEF Execution
  <2>4. \A s \in Execution' : Linked(s)'
    <3>1. \A s \in Execution : s.instances \subseteq Instances /\ Linked(s)
      BY <1>1, ScopeFacts DEF IInv, Accounts, Scopes
    <3>2. \A s \in Execution : Linked(s)'
      BY <2>2, <3>1
    <3> QED BY <2>1, <2>3, <3>2 DEF Linked
  <2>5. Owned \subseteq Owned' /\ new \subseteq Owned'
    <3>1. grown \in Execution' /\ Committed \in Execution'
      BY <1>2, <1>9, <1>10 DEF Execution
    <3>2. \A s \in Execution : s = Scope \/ s \in Execution'
      BY <1>2, <1>9, <1>10 DEF Execution, Scope
    <3> QED BY <1>8, <3>1, <3>2 DEF Owned
  <2> QED BY <1>1, <1>11, <2>4, <2>5 DEF IInv, Accounts, Alive, Healthy, stateVars
<1>19. Transit'
  <2>1. /\ graph' = scopes'[1].graph /\ live' = scopes'[1].instances
        /\ \A i \in Bystanders' : /\ Serving(i)'
                                  /\ \A k \in Bystanders' : k[1] = i[1] => k = i
        /\ \A x \in Members(graph') \ affected' : \E i \in Bystanders' : i[1] = x
    <3>1. /\ \A i \in Bystanders : /\ Serving(i)
                                   /\ \A k \in Bystanders : k[1] = i[1] => k = i
          /\ \A x \in Members(graph) \ affected : \E i \in Bystanders : i[1] = x
          /\ graph = scopes[1].graph /\ live = scopes[1].instances
      BY <1>1 DEF IInv, Transit, Preparing
    <3>2. Bystanders \subseteq Instances /\ scopes'[1] = scopes[1]
      BY <1>2, <1>9
    <3> QED BY <1>1, <1>10, <1>11, <3>1, <3>2 DEF Serving, stateVars
  <2>2. ASSUME NEW k \in 2 .. Len(scopes')
        PROVE  /\ Covers(graph', scopes'[k].graph, affected') /\ Valid(scopes'[k].graph)
               /\ {i \in scopes'[k].instances : i[1] \notin affected'} = Bystanders'
    <3>1. /\ Covers(graph, scopes[k].graph, affected) /\ Valid(scopes[k].graph)
          /\ {i \in scopes[k].instances : i[1] \notin affected} = Bystanders
      BY <1>1, <1>9, <2>2 DEF IInv, Transit
    <3>2. CASE k = Len(scopes)
      BY <1>1, <1>6, <1>8, <1>9, <1>10, <3>1, <3>2 DEF g, Scope, stateVars
    <3>3. CASE k # Len(scopes)
      <4>1. scopes'[k] = scopes[k]
        <5>1. k \in 2 .. Len(scopes) /\ Len(scopes) \in Nat /\ DOMAIN scopes = 1 .. Len(scopes)
          BY <1>2, <1>9, <2>2
        <5>2. k \in DOMAIN scopes
          BY <5>1
        <5> QED BY <1>9, <3>3, <5>2
      <4> QED BY <1>1, <1>10, <3>1, <4>1 DEF stateVars
    <3> QED BY <3>2, <3>3
  <2>3. pc' = "restoring" => Scope'.graph = graph'
    BY <1>1, <1>8, <1>10 DEF IInv, Transit, g, stateVars
  <2>4. Len(scopes') = CASE pc' = "stopping" -> 1
                         [] pc' \in {"preparing", "undoing"} -> 2
                         [] OTHER -> 3
    BY <1>1, <1>9 DEF IInv, Transit
  <2> QED BY <1>1, <2>1, <2>2, <2>3, <2>4 DEF Transit, Preparing
<1>20. Departed'
  <2>1. /\ ~jobs["command"].on
        /\ \A i \in Affected(scopes[1].instances) : phase[i] = "disposed"
        /\ \A k \in 1 .. Len(scopes) - 1 : \A i \in scopes[k].instances : i[2] < generation
        /\ \A i \in Candidates : i[2] = generation
        /\ \A i \in Instances : phase[i] # "none" /\ i[2] = generation => i \in Candidates
        /\ pc = "restoring" => \A i \in Affected(scopes[2].instances) : phase[i] = "disposed"
    BY <1>1 DEF IInv, Departed, Preparing, Undoing
  <2>2. \A k \in 1 .. Len(scopes) - 1 : /\ scopes'[k] = scopes[k]
                                        /\ scopes[k].instances \subseteq Instances
    BY <1>2, <1>9, ScopeFacts DEF IInv
  <2>3. pc = "restoring" => Len(scopes) = 3
    BY <1>1 DEF IInv, Transit
  <2>4. \A k \in 1 .. Len(scopes) - 1 :
          /\ Affected(scopes[k].instances)' = Affected(scopes[k].instances)
          /\ Affected(scopes[k].instances) \subseteq Instances
    BY <1>1, <2>2 DEF Affected
  <2>5. 1 \in 1 .. Len(scopes) - 1 /\ (pc = "restoring" => 2 \in 1 .. Len(scopes) - 1)
    BY <1>2, <2>3
  <2>6. /\ \A i \in Affected(scopes[1].instances)' : phase'[i] = "disposed"
        /\ pc = "restoring" => \A i \in Affected(scopes[2].instances)' : phase'[i] = "disposed"
    BY <1>11, <2>1, <2>4, <2>5
  <2>7. /\ \A k \in 1 .. Len(scopes') - 1 : \A i \in scopes'[k].instances : i[2] < generation
        /\ \A i \in Candidates' : i[2] = generation
        /\ \A i \in Instances : phase'[i] # "none" /\ i[2] = generation => i \in Candidates'
    BY <1>6, <1>9, <1>10, <1>11, <2>1, <2>2
  <2> QED BY <1>1, <2>1, <2>6, <2>7 DEF Departed, Preparing, Undoing
<1>21. Layered'
  <2>1. /\ passed' \subseteq Members(g) /\ \A x \in passed' : Needs(g, x) \subseteq passed'
        /\ \A i \in Candidates' : i[1] \in passed'
        /\ \A x \in passed' \intersect affected : <<x, generation>> \in Scope'.instances
    BY <1>1, <1>3, <1>4, <1>6, <1>8, <1>10
  <2>2. \A i \in Candidates' : /\ phase'[i] = "active" /\ (i \notin new => setup'[i] = "done")
    BY <1>1, <1>3, <1>10, <1>11, TransitFacts
  <2> QED BY <1>1, <1>8, <1>10, <2>1, <2>2 DEF Layered
<1>22. Budget' /\ PlansAreCurrent'
  BY <1>1, Frames DEF stateVars, planVars
<1> QED BY <1>13, <1>14, <1>15, <1>16, <1>17, <1>18, <1>19, <1>20, <1>21, <1>22 DEF IInv

LEMMA LayerReadyStep == ASSUME IInv, LayerReady PROVE IInv'
<1>1. /\ Preparing /\ Healthy /\ \A i \in layer : setup[i] = "done"
      /\ layer' = {}
      /\ UNCHANGED <<pc, cmd, transition, affected, scopes, passed>>
      /\ UNCHANGED <<stateVars, planVars, generation, jobs, instVars>>
  BY DEF LayerReady
<1>2. Types'
  BY <1>1 DEF IInv, Types, stateVars, planVars, instVars
<1>3. Gathered'
  BY <1>1 DEF Gathered, Gated, Preparing
<1>4. Layered'
  BY <1>1 DEF IInv, Layered, Preparing, Healthy, Affected, Scope, Candidates, stateVars, instVars
<1> QED BY <1>1, <1>2, <1>3, <1>4, Frames DEF IInv, stateVars, planVars, instVars

-----------------------------------------------------------------------------
(* The preparation is complete.                                            *)

\* A complete preparation has the declared instances, and nobody else is alive.
LEMMA PreparedFacts ==
    ASSUME IInv, Prepared, Healthy
    PROVE  /\ passed = Members(Scope.graph)
           /\ \A i \in Candidates : phase[i] = "active" /\ setup[i] = "done"
           /\ \A i \in Scope.instances :
                /\ phase[i] = "active" /\ setup[i] = "done"
                /\ i \in shown \/ i \in Candidates
                /\ \A k \in Scope.instances : k[1] = i[1] => k = i
           /\ \A x \in Members(Scope.graph) : \E i \in Scope.instances : i[1] = x
           /\ \A i \in Instances : Alive(i) => i \in Scope.instances
           /\ Scope.graph \in Graphs /\ Valid(Scope.graph)
           /\ Scope.instances \subseteq Instances /\ Candidates \subseteq Scope.instances
<1>1. /\ Preparing /\ Underway /\ layer = {} /\ Frontier(Scope.graph, passed) = {}
  BY DEF Prepared, Preparing, Underway
<1>2. /\ Len(scopes) \in {2, 3} /\ DOMAIN scopes = 1 .. Len(scopes)
      /\ Scope \in Scopes /\ Valid(Scope.graph) /\ Covers(graph, Scope.graph, affected)
      /\ {i \in Scope.instances : i[1] \notin affected} = Bystanders
      /\ \A i \in Scope.instances : i \notin Candidates => Serving(i) /\ i[1] \notin affected
  BY <1>1, ScopeUnderPreparation
<1>3. /\ passed \subseteq Members(Scope.graph)
      /\ \A x \in passed \intersect affected : <<x, generation>> \in Scope.instances
      /\ \A i \in Candidates : phase[i] = "active" /\ setup[i] = "done"
  BY <1>1 DEF IInv, Layered
<1>4. passed = Members(Scope.graph)
  BY <1>1, <1>2, <1>3, LayersComplete
<1>5. /\ Scope.graph \in Graphs /\ Scope.instances \subseteq Instances
      /\ Candidates \subseteq Scope.instances
  BY <1>2 DEF Scopes, Candidates, Affected
<1>6. ASSUME NEW i \in Scope.instances, NEW k \in Scope.instances, k[1] = i[1]
      PROVE  k = i
  <2>1. CASE i[1] \in affected
    <3>1. i \in Candidates /\ k \in Candidates
      BY <1>6, <2>1 DEF Candidates, Affected
    <3>2. i[2] = generation /\ k[2] = generation
      BY <1>1, <3>1 DEF IInv, Departed, Preparing
    <3> QED BY <1>5, <1>6, <3>2 DEF Instances
  <2>2. CASE i[1] \notin affected
    <3>1. i \in Bystanders /\ k \in Bystanders
      BY <1>2, <1>6, <2>2
    <3> QED BY <1>1, <1>6, <3>1 DEF IInv, Transit
  <2> QED BY <2>1, <2>2
<1>7. ASSUME NEW x \in Members(Scope.graph) PROVE \E i \in Scope.instances : i[1] = x
  <2>1. CASE x \in affected
    <3>1. <<x, generation>> \in Scope.instances /\ <<x, generation>>[1] = x
      BY <1>3, <1>4, <1>7, <2>1
    <3> QED BY <3>1, Zenon
  <2>2. CASE x \notin affected
    <3>1. x \in Members(graph) \ affected
      BY <1>2, <1>7, <2>2 DEF Covers
    <3>2. PICK i \in Bystanders : i[1] = x
      BY <1>1, <3>1 DEF IInv, Transit
    <3> QED BY <1>2, <3>2
  <2> QED BY <2>1, <2>2
<1>8. ASSUME NEW i \in Instances, Alive(i) PROVE i \in Scope.instances
  <2>1. i \in Owned /\ phase[i] # "disposed"
    BY <1>8 DEF IInv, Accounts, Alive
  <2>2. live = scopes[1].instances
    BY <1>1 DEF IInv, Transit, Preparing
  <2>3. PICK k \in DOMAIN scopes : i \in scopes[k].instances
    <3>1. PICK s \in Execution : i \in s.instances
      BY <2>1 DEF Owned
    <3>2. CASE s = Committed
      BY <1>2, <2>2, <3>1, <3>2 DEF Committed
    <3> QED BY <3>1, <3>2 DEF Execution
  <2>4. CASE i[1] \in affected
    <3>1. k = Len(scopes)
      <4>1. i \notin Affected(scopes[1].instances)
        BY <1>1, <2>1 DEF IInv, Departed, Preparing
      <4>2. pc = "restoring" => i \notin Affected(scopes[2].instances)
        BY <1>1, <2>1 DEF IInv, Departed
      <4>3. k # 1 /\ (pc = "restoring" => k # 2)
        BY <2>3, <2>4, <4>1, <4>2 DEF Affected
      <4>4. pc = "preparing" => Len(scopes) = 2
        BY <1>1 DEF IInv, Transit
      <4> QED BY <1>1, <1>2, <4>3, <4>4 DEF Preparing
    <3> QED BY <2>3, <3>1 DEF Scope
  <2>5. CASE i[1] \notin affected
    <3>1. CASE k = 1
      BY <1>2, <2>3, <2>5, <3>1 DEF Bystanders
    <3>2. CASE k # 1
      <4>1. k \in 2 .. Len(scopes)
        BY <1>2, <3>2
      <4>2. i \in Bystanders
        BY <1>1, <2>3, <2>5, <4>1 DEF IInv, Transit
      <4> QED BY <1>2, <4>2
    <3> QED BY <3>1, <3>2
  <2> QED BY <2>4, <2>5
<1>9. \A i \in Scope.instances : /\ phase[i] = "active" /\ setup[i] = "done"
                                 /\ i \in shown \/ i \in Candidates
  BY <1>2, <1>3 DEF Serving
<1> QED BY <1>2, <1>3, <1>4, <1>5, <1>6, <1>7, <1>8, <1>9

LEMMA CommitStep == ASSUME IInv, Commit PROVE IInv'
<1>1. /\ Prepared /\ Healthy /\ Underway /\ Preparing
      /\ hostPhase' = "running" /\ revision' = revision + 1 /\ graph' = Scope.graph
      /\ live' = Scope.instances /\ shown' = shown \union Candidates /\ Finish
      /\ plans' = Invalidated(plans)
      /\ UNCHANGED <<unresolved, queue, submitted, generation>>
      /\ UNCHANGED <<phase, setup, foreground, bound, tainted, rejected>>
  BY DEF Commit, Establish, Prepared, Preparing, Underway
<1>2. Linked([graph |-> graph', instances |-> live'])
  BY <1>1, ScopeUnderPreparation DEF Linked
<1>3. /\ graph' \in Graphs /\ Valid(graph') /\ live' \subseteq Instances /\ shown' \subseteq Instances
      /\ \A i \in Instances : Alive(i) => i \in live'
      /\ \A i \in live' : /\ phase[i] = "active" /\ i \in shown' /\ setup[i] = "done"
                          /\ \A k \in live' : k[1] = i[1] => k = i
      /\ \A x \in Members(graph') : \E i \in live' : i[1] = x
  BY <1>1, PreparedFacts DEF IInv, Types
<1>4. \A i \in shown' : setup[i] = "done" /\ phase[i] # "none"
  BY <1>1, PreparedFacts DEF IInv, Types, Records
<1> QED BY <1>1, <1>2, <1>3, <1>4, RevisionStep

LEMMA CommitFailsStep == ASSUME IInv, CommitFails PROVE IInv'
<1>1. /\ Prepared /\ Healthy /\ Underway
      /\ hostPhase' = "quarantined" /\ revision' = revision + 2
      /\ graph' = Scope.graph /\ live' = {}
      /\ unresolved' = {i \in Owned : phase[i] # "disposed"}
      /\ plans' = Invalidated(plans)
      /\ phase' = Blocked({i \in Owned : phase[i] # "disposed"})
      /\ jobs' = [jobs EXCEPT !["quarantine"] =
                    Job(Execution, {i \in Owned : phase[i] # "disposed"})]
      /\ pc' = "joining"
      /\ UNCHANGED <<cmd, transition, affected, scopes, passed, layer>>
      /\ UNCHANGED <<queue, submitted, generation>>
      /\ UNCHANGED <<setup, foreground, bound, tainted, rejected>>
  BY DEF CommitFails, Prepared, Preparing, Underway
<1>2. revision' \in Nat /\ graph' \in Graphs /\ Valid(graph') /\ tainted' \subseteq Instances
  BY <1>1, PreparedFacts DEF IInv, Types
<1>3. \A i \in shown' : i \in shown \/ (i \in Instances /\ setup[i] = "done" /\ phase[i] # "none")
  <2>1. PICK S \in SUBSET Candidates : shown' = shown \union S
    BY DEF CommitFails
  <2> QED BY <1>1, <2>1, PreparedFacts
<1> QED BY <1>1, <1>2, <1>3, QuarantineStep

LEMMA RestoreFailsStep == ASSUME IInv, RestoreFails PROVE IInv'
<1>1. /\ Prepared /\ Preparing /\ Underway /\ pc = "restoring" /\ Healthy
      /\ hostPhase' = "running" /\ revision' = revision + 1 /\ graph' = Scope.graph
      /\ live' = Scope.instances /\ plans' = Invalidated(plans)
      /\ jobs' = [jobs EXCEPT !["command"] = Job({Scope}, Candidates)]
      /\ pc' = "undoingRestore"
      /\ UNCHANGED <<cmd, transition, affected, scopes, passed, layer>>
      /\ UNCHANGED <<unresolved, queue, submitted, generation>>
      /\ UNCHANGED <<phase, setup, foreground, bound, tainted, rejected>>
  BY DEF RestoreFails, Establish, Prepared, Preparing, Underway
<1>2. PICK S \in SUBSET Candidates : shown' = shown \union S
  BY DEF RestoreFails
<1>3. /\ \A i \in Candidates : phase[i] = "active" /\ setup[i] = "done"
      /\ \A i \in Instances : Alive(i) => i \in Scope.instances
      /\ Scope.graph \in Graphs /\ Valid(Scope.graph)
      /\ Scope.instances \subseteq Instances /\ Candidates \subseteq Scope.instances
  BY <1>1, PreparedFacts
<1>4. /\ jobs' \in [Jobs -> JobRecord] /\ jobs'["quarantine"] = jobs["quarantine"]
      /\ jobs'["command"].on /\ jobs'["command"].targets = Candidates
      /\ \A j \in Jobs : /\ jobs'[j].running \subseteq jobs'[j].targets
                         /\ \A i \in jobs'[j].targets : phase'[i] # "none"
                         /\ Covering(jobs[j])'
  BY <1>1, UndoJob
<1>5. /\ plans' \in [Plans -> Plan]
      /\ \A p \in Plans : plans'[p].status \notin {"compiling", "issued"}
  BY <1>1, InvalidatedFacts DEF IInv, Types
<1>6. graph' = graph
  BY <1>1 DEF IInv, Transit
<1>7. Types'
  BY <1>1, <1>2, <1>3, <1>4, <1>5, <1>6 DEF IInv, Types, Points
<1>8. Budget'
  BY <1>1 DEF IInv, Types, Budget, Reserve, Underway
<1>9. PlansAreCurrent'
  BY <1>5 DEF PlansAreCurrent
<1>10. Records'
  <2>1. /\ \A i \in Instances : phase'[i] = "none" => /\ bound'[i] = {} /\ ~Busy(i)' /\ i \notin shown'
        /\ \A i \in Instances : phase'[i] # "none" => i[2] <= generation'
        /\ \A c \in Instances : \A p \in bound'[c] : phase'[p] # "none"
        /\ \A i \in shown' : setup'[i] = "done" /\ (phase'[i] = "active" => i \in live')
    BY <1>1, <1>2, <1>3 DEF IInv, Types, Records, Busy, Alive
  <2> QED BY <1>4, <2>1 DEF Records
<1>11. ConsumersFirst' /\ BorrowsAreSafe'
  BY <1>1, Frames
<1>12. Closed' /\ Gathered'
  BY <1>1 DEF Closed, Healthy, Gathered, Gated
<1>13. Accounts'
  <2>1. /\ Committed'.graph = Scope.graph /\ Committed'.instances = Scope.instances
        /\ Committed' \in Execution'
    BY <1>1 DEF Committed, Execution
  <2>2. \A s \in Execution' : s \in Execution \/ s = Committed'
    BY <1>1 DEF Execution
  <2>3. \A s \in Execution' : Linked(s)'
    BY <1>1, <2>1, <2>2, ScopeUnderPreparation DEF IInv, Accounts, Linked
  <2>4. Scope.instances \subseteq Owned'
    BY <2>1 DEF Owned
  <2> QED BY <1>1, <1>3, <1>4, <2>3, <2>4 DEF IInv, Accounts, Alive, Healthy
<1>14. Transit'
  <2>1. Scope' = Scope /\ Bystanders' = Bystanders
    BY <1>1 DEF Scope, Bystanders
  <2>2. \A i \in Bystanders : Serving(i)'
    BY <1>1, <1>2 DEF IInv, Transit, Serving
  <2> QED BY <1>1, <1>6, <2>1, <2>2 DEF IInv, Transit
<1>15. Departed'
  BY <1>1, <1>4 DEF IInv, Departed, Underway, Undoing, Preparing, Healthy, Affected, Scope, Candidates
<1>16. Layered'
  BY <1>1 DEF Layered, Preparing
<1> QED BY <1>7, <1>8, <1>9, <1>10, <1>11, <1>12, <1>13, <1>14, <1>15, <1>16 DEF IInv

-----------------------------------------------------------------------------
(* What instances do, and the branches that dispose of them.               *)

LEMMA BystandersExist == ASSUME IInv, Underway, Healthy PROVE Bystanders \subseteq Instances
BY TransitFacts DEF Bystanders, Scopes

LEMMA SetupSucceedsStep == ASSUME IInv, NEW i \in Instances, SetupSucceeds(i) PROVE IInv'
<1>1. /\ setup[i] = "running" /\ setup' = [setup EXCEPT ![i] = "done"]
      /\ UNCHANGED <<stateVars, planVars, generation, cmdVars, jobs>>
      /\ UNCHANGED <<phase, foreground, bound, tainted, rejected, shown>>
  BY DEF SetupSucceeds
<1>2. /\ setup' \in [Instances -> {"none", "running", "done", "failed"}]
      /\ \A k \in Instances : setup[k] \in {"done", "failed"} => setup'[k] = setup[k]
  BY <1>1 DEF IInv, Types
<1>3. Types'
  BY <1>1, <1>2 DEF IInv, Types, stateVars, planVars, cmdVars
<1>4. Records'
  BY <1>1, <1>2 DEF IInv, Types, Records, Busy, Covering, Consumers, stateVars
<1>5. Gathered'
  BY <1>1, <1>2 DEF IInv, Types, Gathered, Gated, Healthy, Serving, stateVars, cmdVars
<1>6. Transit'
  <2>1. Underway /\ Healthy => \A k \in Bystanders : k \in Instances
    BY BystandersExist
  <2> QED BY <1>1, <1>2, <2>1 DEF IInv, Transit, Underway, Healthy, Target, Scope, Bystanders, Serving,
                                  stateVars, planVars, cmdVars
<1>7. Layered'
  BY <1>1, <1>2 DEF IInv, Types, Layered, Preparing, Healthy, Affected, Scope, Candidates,
                    stateVars, cmdVars
<1> QED BY <1>1, <1>3, <1>4, <1>5, <1>6, <1>7, Frames DEF IInv, stateVars, planVars, cmdVars

LEMMA SetupFailsStep == ASSUME IInv, NEW i \in Instances, SetupFails(i) PROVE IInv'
<1>1. /\ setup[i] = "running" /\ setup' = [setup EXCEPT ![i] = "failed"]
      /\ phase' = IF i \in layer THEN Blocked(Candidates) ELSE phase
      /\ UNCHANGED <<stateVars, planVars, generation, cmdVars, jobs>>
      /\ UNCHANGED <<foreground, bound, tainted, rejected, shown>>
  BY DEF SetupFails
<1>2. /\ setup' \in [Instances -> {"none", "running", "done", "failed"}] /\ setup'[i] = "failed"
      /\ \A k \in Instances : setup[k] \in {"done", "failed"} => setup'[k] = setup[k]
  BY <1>1 DEF IInv, Types
<1>3. /\ phase' \in [Instances -> Phases]
      /\ \A k \in Instances : \/ phase'[k] = phase[k]
                              \/ /\ i \in layer /\ k \in Candidates
                                 /\ phase[k] = "active" /\ phase'[k] = "sealed"
  BY <1>1, BlockedFacts DEF IInv, Types
<1>4. Types'
  BY <1>1, <1>2, <1>3 DEF IInv, Types, stateVars, planVars, cmdVars
<1>5. Records'
  <2>1. /\ \A k \in Instances : phase'[k] = "none" <=> phase[k] = "none"
        /\ \A k \in Instances : phase'[k] = "disposed" <=> phase[k] = "disposed"
        /\ \A k \in Instances : phase'[k] = "active" => phase[k] = "active"
    BY <1>3
  <2>2. ASSUME NEW j \in Jobs
        PROVE  /\ jobs'[j].running \subseteq jobs'[j].targets
               /\ \A k \in jobs'[j].targets : phase'[k] # "none"
               /\ Covering(jobs[j])'
    BY <1>1, <2>1 DEF IInv, Types, JobRecord, Records, Covering, Consumers
  <2>3. /\ \A k \in Instances : phase'[k] = "none" => /\ bound'[k] = {} /\ ~Busy(k)' /\ k \notin shown'
        /\ \A k \in Instances : phase'[k] # "none" => k[2] <= generation'
        /\ \A c \in Instances : \A p \in bound'[c] : phase'[p] # "none"
        /\ \A k \in shown' : setup'[k] = "done" /\ (phase'[k] = "active" => k \in live')
    BY <1>1, <1>2, <2>1 DEF IInv, Types, Records, Busy, stateVars
  <2> QED BY <2>2, <2>3 DEF Records
<1>6. ConsumersFirst' /\ BorrowsAreSafe'
  BY <1>1, SealingIsSafe, Frames
<1>7. Closed'
  BY <1>1, <1>3 DEF IInv, Closed, Alive, Healthy, stateVars
<1>8. Accounts'
  <2>1. ASSUME Healthy, NEW s \in Execution PROVE Linked(s)'
    <3>1. Linked(s) /\ s.instances \subseteq Instances
      BY <2>1, ScopeFacts DEF IInv, Accounts, Scopes
    <3> QED BY <1>1, <1>3, <3>1 DEF Linked
  <2> QED BY <1>1, <1>3, <2>1 DEF IInv, Accounts, Alive, Healthy, Execution, Committed, Owned,
                                  stateVars, cmdVars
<1>9. Gathered'
  <2>1. Gated /\ Healthy => /\ \A k \in live : k \in Instances
                            /\ \A k \in Instances : phase'[k] = phase[k]
    BY <1>3 DEF IInv, Types, Gathered
  <2> QED BY <1>1, <1>2, <2>1 DEF IInv, Gathered, Gated, Healthy, Serving, stateVars, cmdVars
<1>10. Transit'
  <2>1. Underway /\ Healthy => \A k \in Bystanders : k \in Instances /\ phase'[k] = phase[k]
    BY <1>3, BystandersExist DEF Bystanders, Candidates, Affected
  <2> QED BY <1>1, <1>2, <2>1 DEF IInv, Transit, Underway, Healthy, Target, Scope, Bystanders, Serving,
                                  stateVars, planVars, cmdVars
<1>11. Departed'
  <2>1. Underway /\ Healthy => \A k \in DOMAIN scopes : scopes[k].instances \subseteq Instances
    BY ScopeFacts DEF IInv
  <2>2. Underway /\ Healthy => /\ \A k \in Affected(scopes[1].instances) : k \in Instances
                               /\ pc \in {"restoring", "undoingRestore"} =>
                                    \A k \in Affected(scopes[2].instances) : k \in Instances
    BY <2>1, TransitFacts DEF Affected
  <2> QED BY <1>1, <1>3, <2>2 DEF IInv, Departed, Underway, Undoing, Healthy, Affected, Scope, Candidates,
                                  stateVars, cmdVars
<1>12. Layered'
  <2>1. Preparing /\ Healthy => /\ \A k \in Candidates : k \in Instances
                                /\ layer \subseteq Candidates
    BY ScopeUnderPreparation DEF IInv, Layered, Candidates, Affected, Scopes
  <2>2. ASSUME Preparing, Healthy, NEW k \in Candidates
        PROVE  /\ \/ phase'[k] = "active"
                  \/ phase'[k] = "sealed" /\ \E l \in layer : setup'[l] = "failed"
               /\ k \notin layer => setup'[k] = "done"
    <3>1. /\ \/ phase[k] = "active"
             \/ phase[k] = "sealed" /\ \E l \in layer : setup[l] = "failed"
          /\ k \notin layer => setup[k] = "done"
      BY <2>2 DEF IInv, Layered
    <3> QED BY <1>2, <1>3, <2>1, <2>2, <3>1
  <2> QED BY <1>1, <2>2 DEF IInv, Layered, Preparing, Healthy, Affected, Scope, Candidates,
                            stateVars, cmdVars
<1> QED BY <1>1, <1>4, <1>5, <1>6, <1>7, <1>8, <1>9, <1>10, <1>11, <1>12, Frames
        DEF IInv, stateVars, planVars, cmdVars

\* What is borrowed is active, and so are its providers.
LEMMA BorrowStep == ASSUME IInv, NEW i \in Instances, Borrow(i) PROVE IInv'
<1>1. /\ phase[i] = "active" /\ foreground' = [foreground EXCEPT ![i] = @ + 1]
      /\ UNCHANGED <<stateVars, planVars, generation, cmdVars, jobs>>
      /\ UNCHANGED <<phase, setup, bound, tainted, rejected, shown>>
  BY DEF Borrow
<1>2. Types'
  BY <1>1 DEF IInv, Types, stateVars, planVars, cmdVars
<1>3. Records'
  BY <1>1 DEF IInv, Types, Records, Busy, Covering, Consumers, stateVars
<1>4. BorrowsAreSafe'
  <2>1. \A k \in bound[i] : phase[k] \in {"active", "sealed"}
    BY <1>1 DEF IInv, Types, Phases, Records, ConsumersFirst
  <2> QED BY <1>1, <2>1 DEF IInv, Types, BorrowsAreSafe, Busy
<1>5. ConsumersFirst' /\ Gathered' /\ Transit' /\ Layered'
  BY <1>1 DEF IInv, ConsumersFirst, Gathered, Gated, Transit, Layered, Underway, Preparing, Healthy,
              Target, Scope, Bystanders, Serving, Affected, Candidates, stateVars, planVars, cmdVars
<1> QED BY <1>1, <1>2, <1>3, <1>4, <1>5, Frames DEF IInv, stateVars, planVars, cmdVars

LEMMA ReturnStep == ASSUME IInv, NEW i \in Instances, Return(i) PROVE IInv'
<1>1. /\ Busy(i) /\ foreground' = [foreground EXCEPT ![i] = @ - 1]
      /\ UNCHANGED <<stateVars, planVars, generation, cmdVars, jobs>>
      /\ UNCHANGED <<phase, setup, bound, tainted, rejected, shown>>
  BY DEF Return
<1>2. Types'
  <2>1. foreground' \in [Instances -> Nat]
    BY <1>1 DEF IInv, Types, Busy
  <2> QED BY <1>1, <2>1 DEF IInv, Types, stateVars, planVars, cmdVars
<1>3. Records' /\ BorrowsAreSafe'
  BY <1>1 DEF IInv, Types, Records, Busy, BorrowsAreSafe, Covering, Consumers, stateVars
<1>4. ConsumersFirst' /\ Gathered' /\ Transit' /\ Layered'
  BY <1>1 DEF IInv, ConsumersFirst, Gathered, Gated, Transit, Layered, Underway, Preparing, Healthy,
              Target, Scope, Bystanders, Serving, Affected, Candidates, stateVars, planVars, cmdVars
<1> QED BY <1>1, <1>2, <1>3, <1>4, Frames DEF IInv, stateVars, planVars, cmdVars

\* The shutdown work of an instance goes on: its phase is late, broken or disposed.
LEMMA ShutdownStep ==
    ASSUME IInv, NEW i \in Instances, phase[i] \in {"disposing", "late"},
           NEW v \in {"late", "broken", "disposed"}, phase' = [phase EXCEPT ![i] = v],
           unresolved' = IF v = "disposed" THEN unresolved \ {i} ELSE unresolved,
           rejected' \subseteq Instances,
           UNCHANGED <<hostPhase, revision, graph, live, planVars, generation, cmdVars, jobs>>,
           UNCHANGED <<setup, foreground, bound, tainted, shown>>
    PROVE  IInv'
<1>1. /\ phase' \in [Instances -> Phases] /\ phase'[i] = v
      /\ \A k \in Instances : k # i => phase'[k] = phase[k]
  BY DEF IInv, Types, Phases
<1>2. /\ \A k \in Instances : phase'[k] = "none" <=> phase[k] = "none"
      /\ \A k \in Instances : phase[k] = "disposed" => phase'[k] = "disposed"
      /\ \A k \in Instances : phase[k] \in {"active", "sealed"} => phase'[k] = phase[k]
      /\ \A k \in Instances : phase'[k] = "active" => phase[k] = "active"
      /\ \A k \in Instances : phase'[k] \in {"disposing", "late", "broken", "disposed"}
                                => phase[k] \in {"disposing", "late", "broken", "disposed"}
  BY <1>1 DEF IInv, Types
<1>3. Types'
  BY <1>1 DEF IInv, Types, planVars, cmdVars
<1>4. Records'
  <2>1. ASSUME NEW j \in Jobs
        PROVE  /\ jobs'[j].running \subseteq jobs'[j].targets
               /\ \A k \in jobs'[j].targets : phase'[k] # "none"
               /\ Covering(jobs[j])'
    BY <1>2 DEF IInv, Types, JobRecord, Records, Covering, Consumers
  <2>2. /\ \A k \in Instances : phase'[k] = "none" => /\ bound'[k] = {} /\ ~Busy(k)' /\ k \notin shown'
        /\ \A k \in Instances : phase'[k] # "none" => k[2] <= generation'
        /\ \A c \in Instances : \A p \in bound'[c] : phase'[p] # "none"
        /\ \A k \in shown' : setup'[k] = "done" /\ (phase'[k] = "active" => k \in live')
    BY <1>2 DEF IInv, Types, Records, Busy
  <2> QED BY <2>1, <2>2 DEF Records
<1>5. ConsumersFirst' /\ BorrowsAreSafe'
  BY <1>2 DEF IInv, Types, ConsumersFirst, BorrowsAreSafe, Busy
<1>6. Closed'
  <2>1. ~Healthy => unresolved' = {k \in Instances : Alive(k)'}
    BY <1>1 DEF IInv, Closed, Alive
  <2> QED BY <1>2, <2>1 DEF IInv, Closed, Healthy
<1>7. Accounts'
  <2>1. ASSUME Healthy, NEW s \in Execution PROVE Linked(s)'
    <3>1. Linked(s) /\ s.instances \subseteq Instances
      BY <2>1, ScopeFacts DEF IInv, Accounts, Scopes
    <3> QED BY <1>2, <3>1 DEF Linked
  <2>2. \A k \in Instances : Alive(k)' => Alive(k)
    BY <1>2 DEF Alive
  <2>3. Execution' = Execution /\ Owned' = Owned
    BY DEF Execution, Committed, Owned, cmdVars
  <2> QED BY <2>1, <2>2, <2>3 DEF IInv, Accounts, Healthy, cmdVars
<1>8. Gathered'
  <2>1. live \subseteq Instances
    BY DEF IInv, Types
  <2> QED BY <1>2, <2>1 DEF IInv, Gathered, Gated, Healthy, Serving, cmdVars
<1>9. Transit'
  <2>1. Underway /\ Healthy => \A k \in Bystanders : k \in Instances
    BY BystandersExist
  <2> QED BY <1>2, <2>1 DEF IInv, Transit, Underway, Healthy, Target, Scope, Bystanders, Serving,
                            planVars, cmdVars
<1>10. Departed'
  <2>1. Underway /\ Healthy => \A k \in DOMAIN scopes : scopes[k].instances \subseteq Instances
    BY ScopeFacts DEF IInv
  <2>2. Underway /\ Healthy => /\ \A k \in Affected(scopes[1].instances) : k \in Instances
                               /\ pc \in {"restoring", "undoingRestore"} =>
                                    \A k \in Affected(scopes[2].instances) : k \in Instances
    BY <2>1, TransitFacts DEF Affected
  <2> QED BY <1>2, <2>2 DEF IInv, Departed, Underway, Undoing, Healthy, Affected, Scope, Candidates,
                            cmdVars
<1>11. Layered'
  <2>1. Preparing /\ Healthy => \A k \in Candidates : k \in Instances
    BY ScopeUnderPreparation DEF Candidates, Affected, Scopes
  <2> QED BY <1>2, <2>1 DEF IInv, Layered, Preparing, Healthy, Affected, Scope, Candidates, cmdVars
<1> QED BY <1>3, <1>4, <1>5, <1>6, <1>7, <1>8, <1>9, <1>10, <1>11, Frames
        DEF IInv, planVars, cmdVars

LEMMA LifetimeEndsStep == ASSUME IInv, NEW i \in Instances, LifetimeEnds(i) PROVE IInv'
<1>1. phase[i] \in {"disposing", "late"} /\ rejected' \subseteq Instances
  BY DEF LifetimeEnds, IInv, Types
<1>2. /\ UNCHANGED <<hostPhase, revision, graph, live, planVars, generation, cmdVars, jobs>>
      /\ UNCHANGED <<setup, foreground, bound, tainted, shown>>
  BY DEF LifetimeEnds
<1>3. CASE phase' = [phase EXCEPT ![i] = "disposed"] /\ unresolved' = unresolved \ {i}
  BY <1>1, <1>2, <1>3, ShutdownStep
<1>4. CASE phase' = [phase EXCEPT ![i] = "broken"] /\ unresolved' = unresolved
  BY <1>1, <1>2, <1>4, ShutdownStep
<1> QED BY <1>3, <1>4 DEF LifetimeEnds

LEMMA RootDeadlineStep == ASSUME IInv, NEW i \in Instances, RootDeadline(i) PROVE IInv'
<1>1. /\ phase[i] \in {"disposing", "late"} /\ phase' = [phase EXCEPT ![i] = "late"]
      /\ unresolved' = unresolved /\ rejected' \subseteq Instances
  BY DEF RootDeadline, IInv, Types, stateVars
<1>2. /\ UNCHANGED <<hostPhase, revision, graph, live, planVars, generation, cmdVars, jobs>>
      /\ UNCHANGED <<setup, foreground, bound, tainted, shown>>
  BY DEF RootDeadline, stateVars
<1> QED BY <1>1, <1>2, ShutdownStep

\* A branch works for a job that is on.
LEMMA JobProgress ==
    ASSUME IInv, NEW j \in Jobs, jobs[j].on, NEW J \in JobRecord,
           J.on, J.scopes = jobs[j].scopes, J.targets = jobs[j].targets, J.running \subseteq J.targets,
           jobs' = [jobs EXCEPT ![j] = J]
    PROVE  /\ jobs' \in [Jobs -> JobRecord]
           /\ \A k \in Jobs : /\ jobs'[k].on = jobs[k].on /\ jobs'[k].scopes = jobs[k].scopes
                              /\ jobs'[k].targets = jobs[k].targets
                              /\ jobs'[k].running \subseteq jobs'[k].targets
           /\ Healthy => j = "command" /\ jobs'["quarantine"] = NoJob
           /\ Healthy => pc = "stopping" \/ Undoing
           /\ Gated => jobs'["command"] = NoJob /\ j = "quarantine"
<1>1. jobs' \in [Jobs -> JobRecord]
  BY DEF IInv, Types
<1>2. \A k \in Jobs : jobs[k].on \in BOOLEAN /\ jobs[k].running \subseteq jobs[k].targets
  BY DEF IInv, Types, JobRecord, Records
<1>3. \A k \in Jobs : /\ jobs'[k].on = jobs[k].on /\ jobs'[k].scopes = jobs[k].scopes
                      /\ jobs'[k].targets = jobs[k].targets
                      /\ jobs'[k].running \subseteq jobs'[k].targets
  BY <1>1, <1>2 DEF IInv, Types, JobRecord
<1>4. Healthy => j = "command" /\ jobs'["quarantine"] = NoJob
  <2>1. ~NoJob.on
    BY DEF NoJob
  <2>2. j # "quarantine" => jobs'["quarantine"] = jobs["quarantine"]
    BY DEF IInv, Types, Jobs
  <2> QED BY <2>1, <2>2 DEF IInv, Accounts, Jobs
<1>5. Gated => jobs'["command"] = NoJob /\ j = "quarantine"
  <2>1. ~NoJob.on
    BY DEF NoJob
  <2>2. j # "command" => jobs'["command"] = jobs["command"]
    BY DEF IInv, Types, Jobs
  <2> QED BY <2>1, <2>2 DEF IInv, Gathered, Jobs
<1>6. Healthy => pc = "stopping" \/ Undoing
  BY <1>4, <1>5 DEF IInv, Types, Points, Accounts, Departed, Gated, Underway, Undoing
<1> QED BY <1>1, <1>3, <1>4, <1>5, <1>6

\* A branch that only takes note of what has happened.
LEMMA NotedStep ==
    ASSUME IInv, NEW j \in Jobs, jobs[j].on, NEW J \in JobRecord,
           J.on, J.scopes = jobs[j].scopes, J.targets = jobs[j].targets, J.running \subseteq J.targets,
           jobs' = [jobs EXCEPT ![j] = J],
           UNCHANGED <<stateVars, planVars, generation, cmdVars, instVars>>
    PROVE  IInv'
<1>1. /\ jobs' \in [Jobs -> JobRecord]
      /\ \A k \in Jobs : /\ jobs'[k].on = jobs[k].on /\ jobs'[k].scopes = jobs[k].scopes
                         /\ jobs'[k].targets = jobs[k].targets
                         /\ jobs'[k].running \subseteq jobs'[k].targets
      /\ Healthy => jobs'["quarantine"] = NoJob
      /\ Gated => jobs'["command"] = NoJob
  BY JobProgress
<1>2. Types'
  BY <1>1 DEF IInv, Types, stateVars, planVars, cmdVars, instVars
<1>3. Records'
  <2>1. ASSUME NEW k \in Jobs
        PROVE  /\ jobs'[k].running \subseteq jobs'[k].targets
               /\ \A i \in jobs'[k].targets : phase'[i] # "none"
               /\ Covering(jobs[k])'
    BY <1>1 DEF IInv, Records, Covering, Consumers, instVars
  <2> QED BY <2>1 DEF IInv, Records, Busy, stateVars, instVars
<1>4. Closed' /\ Gathered'
  BY <1>1 DEF IInv, Closed, Alive, Healthy, Gathered, Gated, Serving, Jobs, stateVars, cmdVars, instVars
<1>5. Accounts'
  BY <1>1 DEF IInv, Accounts, Alive, Healthy, Execution, Committed, Owned, Linked,
              stateVars, cmdVars, instVars
<1>6. Departed'
  BY <1>1 DEF IInv, Departed, Underway, Undoing, Healthy, Affected, Scope, Candidates, Jobs,
              stateVars, cmdVars, instVars
<1> QED BY <1>2, <1>3, <1>4, <1>5, <1>6, Frames DEF IInv, stateVars, planVars, cmdVars, instVars

LEMMA BranchSkipsStep ==
    ASSUME IInv, NEW j \in Jobs, NEW i \in Instances, BranchSkips(j, i) PROVE IInv'
<1> DEFINE J == [jobs[j] EXCEPT !.done = @ \union {i}]
<1>1. /\ jobs[j].on /\ jobs' = [jobs EXCEPT ![j] = J]
      /\ UNCHANGED <<stateVars, planVars, generation, cmdVars, instVars>>
  BY DEF BranchSkips, BranchReady
<1>2. /\ J \in JobRecord /\ J.on /\ J.scopes = jobs[j].scopes /\ J.targets = jobs[j].targets
      /\ J.running = jobs[j].running /\ jobs[j].running \subseteq jobs[j].targets
  <2>1. jobs[j] \in JobRecord /\ jobs[j].running \subseteq jobs[j].targets
    BY DEF IInv, Types, Records
  <2>2. J \in JobRecord
    BY <2>1 DEF JobRecord
  <2> QED BY <1>1, <2>1, <2>2 DEF JobRecord
<1> HIDE DEF J
<1> QED BY <1>1, <1>2, NotedStep

LEMMA BranchSettlesStep ==
    ASSUME IInv, NEW j \in Jobs, NEW i \in Instances, BranchSettles(j, i) PROVE IInv'
<1> DEFINE J == [jobs[j] EXCEPT !.running = @ \ {i}, !.done = @ \union {i},
                                !.failed = @ \/ i \in rejected]
<1>1. /\ jobs[j].on /\ jobs' = [jobs EXCEPT ![j] = J]
      /\ UNCHANGED <<stateVars, planVars, generation, cmdVars, instVars>>
  BY DEF BranchSettles
<1>2. /\ J \in JobRecord /\ J.on /\ J.scopes = jobs[j].scopes /\ J.targets = jobs[j].targets
      /\ J.running \subseteq jobs[j].targets
  <2>1. jobs[j] \in JobRecord /\ jobs[j].running \subseteq jobs[j].targets
    BY DEF IInv, Types, Records
  <2>2. J \in JobRecord
    BY <2>1 DEF JobRecord
  <2> QED BY <1>1, <2>1, <2>2 DEF JobRecord
<1> HIDE DEF J
<1> QED BY <1>1, <1>2, NotedStep

\* Who is disposed has no consumer left, and is not in use.
LEMMA BranchDisposesStep ==
    ASSUME IInv, NEW j \in Jobs, NEW i \in Instances, BranchDisposes(j, i) PROVE IInv'
<1> DEFINE J == [jobs[j] EXCEPT !.running = @ \union {i}]
<1>1. /\ jobs[j].on /\ jobs' = [jobs EXCEPT ![j] = J] /\ i \in jobs[j].targets
      /\ ~Busy(i) /\ phase[i] \notin {"late", "broken", "disposed"}
      /\ \A c \in Consumers(i, jobs[j].scopes) : phase[c] = "disposed"
      /\ phase' = [phase EXCEPT ![i] = "disposing"]
      /\ UNCHANGED <<stateVars, planVars, generation, cmdVars>>
      /\ UNCHANGED <<setup, foreground, bound, tainted, rejected, shown>>
  BY DEF BranchDisposes, BranchReady, Retained, Quarantined
<1>2. /\ J \in JobRecord /\ J.on /\ J.scopes = jobs[j].scopes /\ J.targets = jobs[j].targets
      /\ J.running \subseteq J.targets
  <2>1. jobs[j] \in JobRecord /\ jobs[j].running \subseteq jobs[j].targets
    BY DEF IInv, Types, Records
  <2>2. J \in JobRecord
    BY <2>1 DEF JobRecord
  <2> QED BY <1>1, <2>1, <2>2 DEF JobRecord
<1> HIDE DEF J
<1>3. /\ jobs' \in [Jobs -> JobRecord]
      /\ \A k \in Jobs : /\ jobs'[k].on = jobs[k].on /\ jobs'[k].scopes = jobs[k].scopes
                         /\ jobs'[k].targets = jobs[k].targets
                         /\ jobs'[k].running \subseteq jobs'[k].targets
      /\ Healthy => j = "command" /\ jobs'["quarantine"] = NoJob
      /\ Healthy => pc = "stopping" \/ Undoing
      /\ Gated => jobs'["command"] = NoJob
  BY <1>1, <1>2, JobProgress
<1>4. phase[i] # "none" /\ \A c \in Instances : i \in bound[c] => phase[c] = "disposed"
  BY <1>1 DEF IInv, Records, Covering
<1>5. /\ phase' \in [Instances -> Phases] /\ phase'[i] = "disposing"
      /\ \A k \in Instances : k # i => phase'[k] = phase[k]
      /\ \A k \in Instances : phase'[k] = "none" <=> phase[k] = "none"
      /\ \A k \in Instances : phase'[k] = "disposed" <=> phase[k] = "disposed"
      /\ \A k \in Instances : phase'[k] = "active" => phase[k] = "active"
  BY <1>1, <1>4 DEF IInv, Types, Phases
<1>6. Types'
  BY <1>1, <1>3, <1>5 DEF IInv, Types, stateVars, planVars, cmdVars
<1>7. Records'
  <2>1. ASSUME NEW k \in Jobs
        PROVE  /\ jobs'[k].running \subseteq jobs'[k].targets
               /\ \A t \in jobs'[k].targets : phase'[t] # "none"
               /\ Covering(jobs[k])'
    BY <1>1, <1>3, <1>5 DEF IInv, Types, JobRecord, Records, Covering, Consumers
  <2>2. /\ \A k \in Instances : phase'[k] = "none" => /\ bound'[k] = {} /\ ~Busy(k)' /\ k \notin shown'
        /\ \A k \in Instances : phase'[k] # "none" => k[2] <= generation'
        /\ \A c \in Instances : \A p \in bound'[c] : phase'[p] # "none"
        /\ \A k \in shown' : setup'[k] = "done" /\ (phase'[k] = "active" => k \in live')
    BY <1>1, <1>5 DEF IInv, Types, Records, Busy, stateVars
  <2> QED BY <2>1, <2>2 DEF Records
<1>8. ConsumersFirst'
  BY <1>1, <1>4, <1>5 DEF IInv, ConsumersFirst
<1>9. BorrowsAreSafe'
  <2>1. SUFFICES ASSUME NEW c \in Instances, Busy(c)', NEW k \in bound'[c] \union {c}
                 PROVE  phase'[k] \in {"active", "sealed"}
    BY DEF BorrowsAreSafe
  <2>2. Busy(c) /\ k \in bound[c] \union {c} /\ k \in Instances
    BY <1>1, <2>1 DEF IInv, Types, Busy
  <2>3. phase[c] \in {"active", "sealed"} /\ phase[k] \in {"active", "sealed"}
    BY <2>2 DEF IInv, BorrowsAreSafe
  <2>4. k # i
    BY <1>1, <1>4, <2>2, <2>3
  <2> QED BY <1>5, <2>2, <2>3, <2>4
<1>10. Closed'
  BY <1>1, <1>3, <1>5 DEF IInv, Closed, Alive, Healthy, Jobs, stateVars
<1>11. Accounts'
  <2>1. ASSUME Healthy, NEW s \in Execution PROVE Linked(s)'
    <3>1. Linked(s) /\ s.instances \subseteq Instances
      BY <2>1, ScopeFacts DEF IInv, Accounts, Scopes
    <3> QED BY <1>1, <1>5, <3>1 DEF Linked
  <2>2. \A k \in Instances : Alive(k)' => Alive(k)
    BY <1>5 DEF Alive
  <2>3. Execution' = Execution /\ Owned' = Owned
    BY <1>1 DEF Execution, Committed, Owned, stateVars, cmdVars
  <2> QED BY <1>1, <1>3, <2>1, <2>2, <2>3 DEF IInv, Accounts, Healthy, stateVars, cmdVars
<1>12. Gathered'
  BY <1>1, <1>3 DEF IInv, Gathered, Gated, Undoing, Healthy, stateVars, cmdVars
<1>13. Underway /\ Healthy => i[1] \in affected
  BY <1>1, <1>3 DEF IInv, Departed, Underway, Undoing, Candidates, Affected
<1>14. Transit'
  <2>1. Underway /\ Healthy => \A k \in Bystanders : k \in Instances /\ phase'[k] = phase[k]
    BY <1>5, <1>13, BystandersExist DEF Bystanders
  <2> QED BY <1>1, <2>1 DEF IInv, Transit, Underway, Healthy, Target, Scope, Bystanders, Serving,
                            stateVars, planVars, cmdVars
<1>15. Departed'
  <2>1. Underway /\ Healthy => \A k \in DOMAIN scopes : scopes[k].instances \subseteq Instances
    BY ScopeFacts DEF IInv
  <2>2. Underway /\ Healthy => /\ \A k \in Affected(scopes[1].instances) : k \in Instances
                               /\ pc \in {"restoring", "undoingRestore"} =>
                                    \A k \in Affected(scopes[2].instances) : k \in Instances
    BY <2>1, TransitFacts DEF Affected
  <2> QED BY <1>1, <1>3, <1>5, <2>2 DEF IInv, Departed, Underway, Undoing, Healthy, Affected, Scope,
                            Candidates, Jobs, stateVars, cmdVars
<1>16. Layered'
  BY <1>1, <1>3 DEF Layered, Preparing, Undoing, Healthy, stateVars, cmdVars
<1>17. Budget' /\ PlansAreCurrent'
  BY <1>1, Frames DEF stateVars, planVars, cmdVars
<1> QED BY <1>6, <1>7, <1>8, <1>9, <1>10, <1>11, <1>12, <1>14, <1>15, <1>16, <1>17 DEF IInv

-----------------------------------------------------------------------------
(* The theorems.                                                           *)

LEMMA StutteringStep == ASSUME IInv, UNCHANGED vars PROVE IInv'
<1>1. UNCHANGED <<stateVars, planVars, generation, cmdVars, jobs, instVars>>
  BY DEF vars
<1>2. Types'
  BY <1>1 DEF IInv, Types, stateVars, planVars, cmdVars, instVars
<1> QED BY <1>1, <1>2, Frames DEF IInv, stateVars, planVars, cmdVars, instVars

LEMMA NextStep == ASSUME IInv, [Next]_vars PROVE IInv'
<1>1. CASE \E p \in Plans : CompilePlan(p) \/ IssuePlan(p)
  BY <1>1, CompileStep, IssueStep
<1>2. CASE \E c \in Commands : Submit(c)
  BY <1>2, SubmitStep
<1>3. CASE Gate
  BY <1>3, TakeStep, ValidatedStep, ValidationFailsStep, RejectStep, CommitStoppedStep, BeginStep
     DEF Gate
<1>4. CASE Execute
  <2>1. CASE StopFails \/ CommitStop \/ BeginPrepare \/ Join
    BY <2>1, StopFailsStep, CommitStopStep, BeginPrepareStep, JoinStep
  <2>2. CASE NextLayer \/ LayerReady \/ Undo \/ UndoFails \/ StartFails \/ BeginRestore
    BY <2>2, NextLayerStep, LayerReadyStep, UndoStep, UndoFailsStep, StartFailsStep, BeginRestoreStep
  <2>3. CASE Commit \/ CommitFails \/ RestoreFails
    BY <2>3, CommitStep, CommitFailsStep, RestoreFailsStep
  <2> QED BY <1>4, <2>1, <2>2, <2>3 DEF Execute
<1>5. CASE QuarantineEnds
  BY <1>5, QuarantineEndsStep
<1>6. ASSUME NEW i \in Instances, NEW j \in Jobs, Branch(j, i) PROVE IInv'
  BY <1>6, BranchSkipsStep, BranchDisposesStep, BranchSettlesStep DEF Branch
<1>7. ASSUME NEW i \in Instances,
             Settle(i) \/ Borrow(i) \/ Return(i) \/ EarlyFailure(i) \/ DescendantDeadline(i)
               \/ LifetimeEnds(i) \/ RootDeadline(i)
      PROVE  IInv'
  BY <1>7, SetupSucceedsStep, SetupFailsStep, BorrowStep, ReturnStep, EarlyFailureStep,
     DescendantStep, LifetimeEndsStep, RootDeadlineStep DEF Settle
<1>8. CASE UNCHANGED vars
  BY <1>8, StutteringStep
<1> QED BY <1>1, <1>2, <1>3, <1>4, <1>5, <1>6, <1>7, <1>8 DEF Next, Jobs

\* The invariant: what a command may rely on after each of its awaits, and what
\* quarantine accounts for (engine.ts 337-757).
THEOREM Invariance == Spec => []IInv
<1>1. Init => IInv
  BY InitInvariant
<1>2. IInv /\ [Next]_vars => IInv'
  BY NextStep
<1> QED BY <1>1, <1>2, PTL DEF Spec

\* Between commands a healthy Host holds exactly the instances it declares, each
\* active, published and bound to the current instances of its providers, and a
\* stopped one none (engine.ts 493-580).
THEOREM DeclaredBetweenCommands == Spec => []IdleIsDeclared
<1>1. IInv => RunningIsDeclared
  <2>1. SUFFICES ASSUME IInv, pc = "idle", hostPhase = "running"
                 PROVE  /\ {i[1] : i \in live} = Members(graph)
                        /\ \A i \in live :
                             /\ phase[i] = "active" /\ i \in shown /\ setup[i] = "done"
                             /\ \A k \in live : k[1] = i[1] => k = i
                             /\ bound[i] = {p \in live : p[1] \in Needs(graph, i[1])}
    BY DEF RunningIsDeclared
  <2>2. Gated /\ Healthy
    BY <2>1 DEF Gated, Healthy
  <2>3. Linked(Committed)
    BY <2>1, <2>2 DEF IInv, Accounts, Execution
  <2>4. \A i \in live : /\ i[1] \in Members(graph)
                        /\ bound[i] = {p \in live : p[1] \in Needs(graph, i[1])}
    BY <2>3 DEF Linked, Committed
  <2>5. /\ \A x \in Members(graph) : \E i \in live : i[1] = x
        /\ \A i \in live : Serving(i) /\ \A k \in live : k[1] = i[1] => k = i
    BY <2>1, <2>2 DEF IInv, Gathered
  <2> QED BY <2>4, <2>5 DEF Serving
<1>2. IInv => StoppedIsEmpty
  <2>1. SUFFICES ASSUME IInv, Gated, hostPhase = "stopped", NEW i \in Instances, Alive(i)
                 PROVE  FALSE
    BY DEF StoppedIsEmpty, Gated
  <2>2. Healthy /\ scopes = <<>> /\ live = {}
    BY <2>1 DEF IInv, Healthy, Gathered, Accounts
  <2>3. Owned = {}
    BY <2>2 DEF Owned, Execution, Committed
  <2> QED BY <2>1, <2>2, <2>3 DEF IInv, Accounts
<1> QED BY <1>1, <1>2, Invariance, PTL DEF IdleIsDeclared

\* Consumers reach a candidate only once it is committed, and an instance whose
\* setup failed never (engine.ts 629-656).
THEOREM PublicationIsAtomic == Spec => []NoEarlyPublication
<1>1. IInv => NoEarlyPublication
  BY DEF IInv, Types, Records, NoEarlyPublication
<1> QED BY <1>1, Invariance, PTL

\* Whatever is alive belongs to the committed state, to the running transition
\* or to the unresolved instances, which in quarantine are exactly those alive;
\* nobody is active then (engine.ts 709-757).
THEOREM EverybodyIsAccountedFor == Spec => []NobodyIsForgotten
<1>1. IInv => NoOrphan
  BY DEF IInv, Accounts, Closed, NoOrphan
<1>2. IInv => QuarantineIsHonest
  BY DEF IInv, Closed, Healthy, QuarantineIsHonest
<1> QED BY <1>1, <1>2, Invariance, PTL DEF NobodyIsForgotten

\* A provider starts to shut down only after everybody bound to it has been
\* disposed, and nobody who is borrowed loses a provider, whatever fails and
\* whichever job disposes (engine.ts 760-798).
THEOREM ConsumersGoFirst == Spec => []ProvidersOutlive
<1>1. IInv => ProvidersOutlive
  BY DEF IInv, ProvidersOutlive
<1> QED BY <1>1, Invariance, PTL

\* A plan that is still issued was compiled for the committed state, and what it
\* replaces is closed under the bindings of the live instances (plan.ts 124-165).
THEOREM IssuedPlansAreCurrent == Spec => []UsablePlanIsCurrent
<1>1. IInv => UsablePlanIsCurrent
  <2>1. SUFFICES ASSUME IInv, NEW p \in Plans, plans[p].status = "issued"
                 PROVE  /\ Healthy /\ plans[p].base = revision
                        /\ \A c \in live : (\E k \in bound[c] : k[1] \in plans[p].affected)
                              => c[1] \in plans[p].affected
    BY DEF UsablePlanIsCurrent
  <2>2. /\ Healthy /\ plans[p].base = revision
        /\ Covers(graph, plans[p].graph, plans[p].affected)
    BY <2>1 DEF IInv, PlansAreCurrent
  <2>3. Linked(Committed)
    BY <2>1, <2>2 DEF IInv, Accounts, Execution
  <2>4. \A c \in live : /\ c[1] \in Members(graph)
                        /\ \A k \in bound[c] : k[1] \in Needs(graph, c[1])
    BY <2>3 DEF Linked, Committed
  <2> QED BY <2>2, <2>4 DEF Covers
<1> QED BY <1>1, Invariance, PTL

LEMMA TerminalStep ==
    ASSUME IInv, [Next]_vars, hostPhase = "quarantined"
    PROVE  /\ hostPhase' = "quarantined" /\ revision' = revision /\ shown' = shown
           /\ \A i \in Instances : phase'[i] # phase[i] => phase'[i] # "active"
<1> DEFINE Goal == /\ hostPhase' = "quarantined" /\ revision' = revision /\ shown' = shown
                   /\ \A i \in Instances : phase'[i] # phase[i] => phase'[i] # "active"
<1>1. ~Healthy
  BY DEF Healthy
<1>2. ASSUME UNCHANGED <<stateVars, shown, phase>> PROVE Goal
  BY <1>2 DEF stateVars
<1>3. CASE \E p \in Plans : CompilePlan(p) \/ IssuePlan(p)
  BY <1>2, <1>3 DEF CompilePlan, IssuePlan, instVars
<1>4. CASE \E c \in Commands : Submit(c)
  BY <1>2, <1>4 DEF Submit, instVars
<1>5. CASE Gate
  <2>1. ~Proceed
    BY <1>1 DEF Proceed
  <2> QED BY <1>2, <1>5, <2>1 DEF Gate, TakeCommand, Validated, ValidationFails, Reject, CommitStopped,
                                  BeginTransition, instVars
<1>6. CASE Execute
  <2>1. ~(CommitStop \/ BeginPrepare \/ NextLayer \/ LayerReady \/ StartFails \/ BeginRestore
          \/ Commit \/ CommitFails \/ RestoreFails)
    BY <1>1 DEF CommitStop, BeginPrepare, StopSucceeds, NextLayer, LayerReady, StartFails, BeginRestore,
                UndoSucceeds, Commit, CommitFails, RestoreFails
  <2> QED BY <1>1, <1>2, <1>6, <2>1 DEF Execute, StopFails, UndoFails, QuarantineOrJoin, Undo, Join, instVars
<1>7. CASE QuarantineEnds
  BY <1>7 DEF QuarantineEnds, instVars
<1>8. ASSUME NEW i \in Instances, NEW j \in Jobs, Branch(j, i) PROVE Goal
  <2>1. CASE BranchSkips(j, i) \/ BranchSettles(j, i)
    BY <1>2, <2>1 DEF BranchSkips, BranchSettles, instVars
  <2>2. CASE BranchDisposes(j, i)
    BY <2>2 DEF BranchDisposes, IInv, Types, stateVars
  <2> QED BY <1>8, <2>1, <2>2 DEF Branch
<1>9. ASSUME NEW i \in Instances, Settle(i) PROVE Goal
  <2>1. CASE SetupSucceeds(i)
    BY <1>2, <2>1 DEF SetupSucceeds
  <2>2. CASE SetupFails(i)
    BY <2>2, BlockedFacts DEF SetupFails, IInv, stateVars
  <2> QED BY <1>9, <2>1, <2>2 DEF Settle
<1>10. ASSUME NEW i \in Instances,
              Borrow(i) \/ Return(i) \/ EarlyFailure(i) \/ DescendantDeadline(i)
       PROVE  Goal
  BY <1>1, <1>2, <1>10 DEF Borrow, Return, EarlyFailure, DescendantDeadline, ReleaseFailed
<1>11. ASSUME NEW i \in Instances, LifetimeEnds(i) \/ RootDeadline(i) PROVE Goal
  BY <1>11 DEF LifetimeEnds, RootDeadline, IInv, Types, stateVars
<1>12. CASE UNCHANGED vars
  BY <1>2, <1>12 DEF vars, instVars
<1> QED BY <1>3, <1>4, <1>5, <1>6, <1>7, <1>8, <1>9, <1>10, <1>11, <1>12 DEF Next, Jobs

LEMMA BystanderStep ==
    ASSUME IInv, [Next]_vars, Healthy, Healthy', NEW i \in live, phase'[i] # phase[i]
    PROVE  i[1] \in affected' \union affected
<1>1. i \in Instances
  BY DEF IInv, Types
<1>2. UNCHANGED phase => FALSE
  OBVIOUS
<1>3. ~Quarantine
  BY DEF Quarantine, Healthy
<1>4. CASE \E p \in Plans : CompilePlan(p) \/ IssuePlan(p)
  BY <1>2, <1>4 DEF CompilePlan, IssuePlan, instVars
<1>5. CASE \E c \in Commands : Submit(c)
  BY <1>2, <1>5 DEF Submit, instVars
<1>6. CASE Gate
  <2>1. CASE BeginTransition
    BY <1>1, <2>1, BlockedFacts DEF BeginTransition, IInv, Leaving
  <2> QED BY <1>2, <1>6, <2>1 DEF Gate, TakeCommand, Validated, ValidationFails, Reject, CommitStopped,
                                  instVars
<1>7. CASE Execute
  <2>1. CASE NextLayer
    BY <1>1, <2>1 DEF NextLayer
  <2>2. CASE StopFails \/ UndoFails
    BY <1>2, <1>3, <2>2 DEF StopFails, UndoFails, QuarantineOrJoin
  <2>3. ~CommitFails
    BY DEF CommitFails, Healthy
  <2> QED BY <1>2, <1>7, <2>1, <2>2, <2>3 DEF Execute, CommitStop, BeginPrepare, LayerReady, Undo, StartFails,
                                  BeginRestore, Commit, RestoreFails, Join, instVars
<1>8. CASE QuarantineEnds
  BY <1>2, <1>8 DEF QuarantineEnds, instVars
<1>9. ASSUME NEW k \in Instances, NEW j \in Jobs, Branch(j, k) PROVE i[1] \in affected
  <2>1. BranchDisposes(j, k)
    BY <1>2, <1>9 DEF Branch, BranchSkips, BranchSettles, instVars
  <2>2. k = i /\ jobs[j].on /\ i \in jobs[j].targets
    BY <1>1, <2>1 DEF BranchDisposes, BranchReady, IInv, Types
  <2>3. j = "command" /\ ~Gated
    <3>1. ~NoJob.on
      BY DEF NoJob
    <3> QED BY <2>2, <3>1 DEF IInv, Accounts, Gathered, Jobs
  <2>4. Underway /\ (pc = "stopping" \/ Undoing)
    BY <2>2, <2>3 DEF IInv, Types, Points, Accounts, Gated, Underway, Departed
  <2> QED BY <2>2, <2>3, <2>4 DEF IInv, Departed, Candidates, Affected
<1>10. ASSUME NEW k \in Instances, Settle(k) PROVE i[1] \in affected
  <2>1. SetupFails(k) /\ phase' = Blocked(Candidates)
    BY <1>2, <1>10 DEF Settle, SetupSucceeds, SetupFails
  <2> QED BY <1>1, <2>1, BlockedFacts DEF IInv, Candidates, Affected
<1>11. ASSUME NEW k \in Instances,
              Borrow(k) \/ Return(k) \/ EarlyFailure(k) \/ DescendantDeadline(k)
       PROVE  FALSE
  BY <1>2, <1>3, <1>11 DEF Borrow, Return, EarlyFailure, DescendantDeadline, ReleaseFailed
<1>12. ASSUME NEW k \in Instances, LifetimeEnds(k) \/ RootDeadline(k) PROVE i[1] \in affected
  <2>1. phase[i] # "active"
    <3>1. k = i
      BY <1>1, <1>12 DEF LifetimeEnds, RootDeadline, IInv, Types
    <3> QED BY <1>12, <3>1 DEF LifetimeEnds, RootDeadline
  <2>2. Underway
    BY <2>1 DEF IInv, Types, Points, Gathered, Serving, Accounts, Gated, Underway
  <2>3. i[1] \notin affected => i \in Bystanders
    <3>1. CASE live = scopes[1].instances
      BY <3>1 DEF Bystanders
    <3>2. CASE pc = "undoingRestore" /\ live = Scope.instances
      <4>1. Len(scopes) = 3
        BY <2>2, <3>2 DEF IInv, Transit
      <4>2. {x \in Scope.instances : x[1] \notin affected} = Bystanders
        BY <2>2, <4>1 DEF IInv, Transit, Scope
      <4> QED BY <3>2, <4>2
    <3> QED BY <2>2, <3>1, <3>2 DEF IInv, Transit
  <2> QED BY <2>1, <2>2, <2>3 DEF IInv, Transit, Serving
<1>13. CASE UNCHANGED vars
  BY <1>2, <1>13 DEF vars, instVars
<1> QED BY <1>4, <1>5, <1>6, <1>7, <1>8, <1>9, <1>10, <1>11, <1>12, <1>13 DEF Next, Jobs

\* Quarantine is terminal, and a command of a healthy Host seals and disposes
\* only what it said it would affect (engine.ts 516-545, 699-757).
THEOREM NothingElseIsTouched == Spec => TransitionsAreContained
<1>1. IInv /\ [Next]_vars =>
        [hostPhase = "quarantined" =>
           /\ hostPhase' = "quarantined" /\ revision' = revision
           /\ shown' = shown
           /\ \A i \in Instances : phase'[i] # phase[i] => phase'[i] # "active"]_vars
  BY TerminalStep
<1>2. IInv /\ [Next]_vars =>
        [\A i \in live : Healthy /\ Healthy' /\ phase'[i] # phase[i] =>
           i[1] \in affected' \union affected]_vars
  BY BystanderStep
<1>3. Spec => QuarantineIsTerminal
  BY <1>1, Invariance, PTL DEF Spec, QuarantineIsTerminal
<1>4. Spec => BystandersUntouched
  BY <1>2, Invariance, PTL DEF Spec, BystandersUntouched
<1> QED BY <1>3, <1>4 DEF TransitionsAreContained

-----------------------------------------------------------------------------
(* The engine implements the abstract Host.                                *)

\* What the kind of a command says about the Host while the command runs, and
\* that plans of submitted commands exist.
Errands ==
    Healthy =>
        /\ pc # "idle" /\ cmd.kind = "start" => hostPhase = "stopped"
        /\ pc # "idle" /\ cmd.kind = "stop" =>
             hostPhase = "running" /\ pc \in {"validating", "ready", "stopping"}
        /\ Underway /\ cmd.kind = "apply" => hostPhase = "running"
        /\ pc \in {"restoring", "undoingRestore"} => hostPhase = "running"
        /\ pc = "stopping" => /\ layer = {}
                              /\ \A i \in live : i[1] \in affected => phase[i] # "active"
        /\ \A k \in DOMAIN queue : queue[k].kind = "apply" => plans[queue[k].plan].status # "none"
        /\ pc = "validating" => cmd.kind # "apply"
        /\ pc = "ready" /\ cmd.kind = "apply" => plans[cmd.plan].status # "none"

\* A step that starts nothing.
LEMMA ErrandsFrame ==
    ASSUME Errands, UNCHANGED <<stateVars, queue, pc, cmd, affected, layer>>,
           \A i \in Instances : phase'[i] = "active" => phase[i] = "active",
           \A p \in Plans : plans[p].status # "none" => plans'[p].status # "none",
           live \subseteq Instances, queue \in Seq(Commands), pc # "idle" => cmd \in Commands
    PROVE  Errands'
<1>1. \A k \in DOMAIN queue : queue[k].kind = "apply" => queue[k].plan \in Plans
  <2>1. \A k \in DOMAIN queue : queue[k] \in Commands
    OBVIOUS
  <2> QED BY <2>1 DEF Commands
<1>2. pc = "ready" /\ cmd.kind = "apply" => cmd.plan \in Plans
  BY DEF Commands
<1> QED BY <1>1, <1>2 DEF Errands, Healthy, Underway, stateVars

LEMMA ErrandsStep == ASSUME IInv, IInv', Errands, [Next]_vars PROVE Errands'
<1>1. CASE ~Healthy'
  BY <1>1 DEF Errands
<1>2. CASE Healthy'
  <2>0. Healthy /\ ~Quarantine
    BY <1>2, TerminalStep DEF Healthy, Quarantine
  <2>a. /\ live \subseteq Instances /\ queue \in Seq(Commands) /\ (pc # "idle" => cmd \in Commands)
        /\ plans \in [Plans -> Plan] /\ pc \in Points
    BY DEF IInv, Types
  <2>b. /\ \A k \in DOMAIN queue : queue[k].kind = "apply" => queue[k].plan \in Plans
        /\ pc = "ready" /\ cmd.kind = "apply" => cmd.plan \in Plans
    <3>1. \A k \in DOMAIN queue : queue[k] \in Commands
      BY <2>a
    <3> QED BY <2>a, <3>1 DEF Commands
  <2>c. ASSUME UNCHANGED <<hostPhase, queue, live, pc, cmd, affected, layer>>,
               \A i \in Instances : phase'[i] = "active" => phase[i] = "active",
               \A p \in Plans : plans[p].status # "none" => plans'[p].status # "none"
        PROVE  Errands'
    BY <2>0, <2>a, <2>b, <2>c DEF Errands, Healthy, Underway
  <2>d. ASSUME Finish, queue' = queue,
               \A p \in Plans : plans[p].status # "none" => plans'[p].status # "none"
        PROVE  Errands'
    BY <2>0, <2>b, <2>d DEF Errands, Finish, Underway
  <2>e. \A p \in Plans : Invalidated(plans)[p].status # "none" \/ plans[p].status = "none"
    BY <2>a, InvalidatedFacts DEF Invalidated, Plan
  <2>1. ASSUME NEW p \in Plans, CompilePlan(p) \/ IssuePlan(p) PROVE Errands'
    <3>1. \A q \in Plans : plans[q].status # "none" => plans'[q].status # "none"
      <4>1. CASE CompilePlan(p)
        BY <2>a, <4>1 DEF CompilePlan
      <4>2. CASE IssuePlan(p)
        BY <2>a, <4>2 DEF IssuePlan, Plan
      <4> QED BY <2>1, <4>1, <4>2
    <3> QED BY <2>1, <2>c, <3>1 DEF CompilePlan, IssuePlan, stateVars, cmdVars, instVars
  <2>2. ASSUME NEW c \in Commands, Submit(c) PROVE Errands'
    <3>1. /\ queue' = Append(queue, c)
          /\ c.kind = "apply" => plans[c.plan].status \in {"issued", "stale", "consumed"}
          /\ UNCHANGED <<stateVars, plans, generation, cmdVars, jobs, instVars>>
      BY <2>2 DEF Submit
    <3>2. \A k \in DOMAIN queue' : queue'[k].kind = "apply" => plans'[queue'[k].plan].status # "none"
      BY <2>0, <2>a, <3>1 DEF Errands
    <3> QED BY <2>0, <3>1, <3>2 DEF Errands, Healthy, Underway, stateVars, cmdVars, instVars
  <2>3. CASE TakeCommand
    <3>1. /\ queue # <<>> /\ queue' = Tail(queue) /\ cmd' = Head(queue) /\ pc = "idle"
          /\ cmd' \in Commands /\ cmd' = queue[1] /\ 1 \in DOMAIN queue
          /\ UNCHANGED <<stateVars, plans, layer, instVars>>
      BY <2>3, <2>a DEF TakeCommand
    <3>2. \A k \in DOMAIN queue' : queue'[k].kind = "apply" => plans'[queue'[k].plan].status # "none"
      BY <2>0, <2>a, <3>1 DEF Errands
    <3>3. cmd'.kind = "apply" => plans'[cmd'.plan].status # "none"
      BY <2>0, <3>1 DEF Errands
    <3>4. \/ pc' = "ready" /\ cmd'.kind = "apply"
          \/ pc' = "validating" /\ cmd'.kind = "start" /\ hostPhase = "stopped"
          \/ pc' = "validating" /\ cmd'.kind = "stop" /\ hostPhase = "running"
          \/ pc' = "idle"
      BY <2>3, <3>1 DEF TakeCommand
    <3> QED BY <3>1, <3>2, <3>3, <3>4 DEF Errands, Underway, stateVars
  <2>4. CASE Validated
    BY <2>0, <2>4, <2>b DEF Validated, Errands, Underway, stateVars, planVars, instVars, Healthy
  <2>5. CASE ValidationFails
    BY <2>5, <2>d DEF ValidationFails, planVars
  <2>6. CASE Reject
    <3>1. \A p \in Plans : Consumed[p].status # "none" \/ plans[p].status = "none"
      BY <2>a DEF Consumed, Plan
    <3> QED BY <2>6, <2>d, <3>1 DEF Reject
  <2>7. CASE CommitStopped
    <3>1. pc = "ready" /\ Consumed \in [Plans -> Plan]
      BY <2>7, ConsumedFacts DEF CommitStopped, Proceed, IInv
    <3>2. \A p \in Plans : Consumed[p].status # "none" \/ plans[p].status = "none"
      BY <2>a DEF Consumed, Plan
    <3>3. \A p \in Plans : plans[p].status # "none" => plans'[p].status # "none"
      BY <2>7, <3>1, <3>2, InvalidatedFacts DEF CommitStopped, Invalidated, Plan
    <3> QED BY <2>7, <2>d, <3>3 DEF CommitStopped
  <2>8. CASE BeginTransition
    <3>1. /\ pc = "ready" /\ pc' = "stopping" /\ affected' = ToChange /\ phase' = Blocked(Leaving)
          /\ plans' = Consumed /\ (hostPhase = "running" \/ cmd.kind = "start") /\ cmd \in Commands
          /\ UNCHANGED <<cmd, layer, stateVars, queue>>
      BY <2>8, <2>a DEF BeginTransition, Proceed
    <3>2. layer = {}
      BY <3>1 DEF IInv, Gathered, Gated
    <3>3. \A i \in live : i[1] \in affected' => phase'[i] # "active"
      BY <2>a, <3>1, BlockedFacts DEF Leaving, IInv
    <3>4. \A p \in Plans : Consumed[p].status # "none" \/ plans[p].status = "none"
      BY <2>a DEF Consumed, Plan
    <3>5. \A k \in DOMAIN queue' : queue'[k].kind = "apply" => plans'[queue'[k].plan].status # "none"
      BY <2>0, <2>b, <3>1, <3>4 DEF Errands
    <3>6. /\ cmd'.kind = "start" => hostPhase' = "stopped"
          /\ cmd'.kind = "stop" => hostPhase' = "running"
          /\ cmd'.kind = "apply" => hostPhase' = "running"
      BY <2>0, <3>1 DEF Errands, stateVars
    <3> QED BY <3>1, <3>2, <3>3, <3>5, <3>6 DEF Errands, stateVars
  <2>9. CASE StopFails \/ UndoFails
    BY <2>0, <2>9 DEF StopFails, UndoFails, QuarantineOrJoin
  <2>10. CASE CommitStop \/ StartFails \/ Commit
    BY <2>10, <2>d, <2>e DEF CommitStop, StartFails, Commit, Establish
  <2>11. CASE BeginPrepare \/ BeginRestore
    <3>1. /\ UNCHANGED <<stateVars, planVars, cmd>>
          /\ \/ pc = "stopping" /\ pc' = "preparing" /\ cmd.kind # "stop"
             \/ pc = "undoing" /\ pc' = "restoring" /\ hostPhase = "running"
      BY <2>11 DEF BeginPrepare, BeginRestore, StopSucceeds, UndoSucceeds, Prepare
    <3> QED BY <2>0, <2>b, <3>1 DEF Errands, Underway, stateVars, planVars
  <2>12. CASE NextLayer \/ LayerReady
    <3>1. Preparing /\ UNCHANGED <<stateVars, planVars, cmd, pc>>
      BY <2>12 DEF NextLayer, LayerReady
    <3> QED BY <2>0, <3>1 DEF Errands, Underway, Preparing, stateVars, planVars
  <2>13. CASE Undo
    <3>1. /\ UNCHANGED <<stateVars, planVars, cmd>>
          /\ \/ pc = "preparing" /\ pc' = "undoing"
             \/ pc = "restoring" /\ pc' = "undoingRestore"
      BY <2>0, <2>13 DEF Undo, Preparing
    <3> QED BY <2>0, <3>1 DEF Errands, Underway, stateVars, planVars
  <2>14. ~CommitFails /\ ~Join
    BY <1>2, <2>0 DEF CommitFails, Join, Healthy, IInv, Accounts
  <2>15. CASE RestoreFails
    <3>1. /\ UNCHANGED <<cmd, queue>> /\ pc = "restoring" /\ pc' = "undoingRestore"
          /\ hostPhase' = "running" /\ plans' = Invalidated(plans)
      BY <2>15 DEF RestoreFails, Establish
    <3> QED BY <2>0, <2>b, <2>e, <3>1 DEF Errands, Underway
  <2>16. CASE QuarantineEnds
    BY <2>16, <2>c DEF QuarantineEnds, planVars, cmdVars, instVars
  <2>17. ASSUME NEW i \in Instances, NEW j \in Jobs, Branch(j, i) PROVE Errands'
    <3>1. \A k \in Instances : phase'[k] = "active" => phase[k] = "active"
      <4>1. CASE BranchSkips(j, i) \/ BranchSettles(j, i)
        BY <4>1 DEF BranchSkips, BranchSettles, instVars
      <4>2. CASE BranchDisposes(j, i)
        BY <4>2 DEF BranchDisposes, IInv, Types
      <4> QED BY <2>17, <4>1, <4>2 DEF Branch
    <3> QED BY <2>17, <2>c, <3>1 DEF Branch, BranchSkips, BranchSettles, BranchDisposes,
                                     stateVars, planVars, cmdVars
  <2>18. ASSUME NEW i \in Instances, Settle(i) PROVE Errands'
    <3>1. \A k \in Instances : phase'[k] = "active" => phase[k] = "active"
      BY <2>18, BlockedFacts DEF Settle, SetupSucceeds, SetupFails, IInv
    <3> QED BY <2>18, <2>c, <3>1 DEF Settle, SetupSucceeds, SetupFails, stateVars, planVars, cmdVars
  <2>19. ASSUME NEW i \in Instances,
                Borrow(i) \/ Return(i) \/ EarlyFailure(i) \/ DescendantDeadline(i)
         PROVE  Errands'
    BY <2>0, <2>19, <2>c DEF Borrow, Return, EarlyFailure, DescendantDeadline, ReleaseFailed,
                             stateVars, planVars, cmdVars
  <2>20. ASSUME NEW i \in Instances, LifetimeEnds(i) \/ RootDeadline(i) PROVE Errands'
    <3>1. \A k \in Instances : phase'[k] = "active" => phase[k] = "active"
      BY <2>20 DEF LifetimeEnds, RootDeadline, IInv, Types
    <3> QED BY <2>20, <2>c, <3>1 DEF LifetimeEnds, RootDeadline, stateVars, planVars, cmdVars
  <2>21. CASE UNCHANGED vars
    BY <2>21, <2>c DEF vars, stateVars, planVars, cmdVars, instVars
  <2>22. CASE Gate
    BY <2>22, <2>3, <2>4, <2>5, <2>6, <2>7, <2>8 DEF Gate
  <2>23. CASE Execute
    BY <2>23, <2>9, <2>10, <2>11, <2>12, <2>13, <2>14, <2>15 DEF Execute
  <2> QED BY <2>1, <2>2, <2>16, <2>17, <2>18, <2>19, <2>20, <2>21, <2>22, <2>23 DEF Next, Jobs
<1> QED BY <1>1, <1>2

LEMMA InitErrands == Init => Errands
BY DEF Init, Errands, Underway

LEMMA HostInit == Init => Promised!Init
<1>1. SUFFICES ASSUME Init PROVE Promised!Init
  OBVIOUS
<1>2. graph \in ValidGraphs
  BY <1>1, GraphAssumption DEF Init, ValidGraphs
<1>3. Attempt = "none" /\ Aim = graph
  BY <1>1 DEF Init, Attempt, Aim, Healthy
<1>4. Ticket = [p \in Plans |-> "none"] /\ Goals = [p \in Plans |-> graph]
  BY <1>1 DEF Init, Ticket, Goals, TicketOf
<1>5. Reachable = {}
  BY <1>1 DEF Init, Reachable
<1> QED BY <1>1, <1>2, <1>3, <1>4, <1>5 DEF Init, Promised!Init

-----------------------------------------------------------------------------
(* The mapping.                                                            *)

\* What a step does to the tickets.
LEMMA TicketsKept ==
    ASSUME plans' = plans
    PROVE  Ticket' = Ticket /\ Goals' = Goals
BY DEF Ticket, Goals

LEMMA TicketsVoid ==
    ASSUME Types, plans' = Invalidated(plans)
    PROVE  /\ Ticket' = [p \in Plans |-> IF Ticket[p] = "open" THEN "void" ELSE Ticket[p]]
           /\ Goals' = Goals
<1>1. plans \in [Plans -> Plan]
  BY DEF Types
<1>2. ASSUME NEW p \in Plans
      PROVE  /\ TicketOf(plans'[p].status) =
                  IF TicketOf(plans[p].status) = "open" THEN "void" ELSE TicketOf(plans[p].status)
             /\ plans'[p].graph = plans[p].graph
  <2>1. CASE plans[p].status \in {"compiling", "issued"}
    <3>1. plans'[p] = [plans[p] EXCEPT !.status = "stale"]
      BY <2>1 DEF Invalidated
    <3>2. plans'[p].status = "stale" /\ plans'[p].graph = plans[p].graph
      BY <1>1, <3>1 DEF Plan
    <3> QED BY <2>1, <3>2 DEF TicketOf
  <2>2. CASE plans[p].status \notin {"compiling", "issued"}
    <3>1. plans'[p] = plans[p]
      BY <2>2 DEF Invalidated
    <3>2. TicketOf(plans[p].status) # "open"
      BY <2>2 DEF TicketOf
    <3> QED BY <3>1, <3>2
  <2> QED BY <2>1, <2>2
<1>3. \A p \in Plans : Ticket[p] = TicketOf(plans[p].status) /\ Goals[p] = plans[p].graph
  BY DEF Ticket, Goals
<1>4. Ticket' = [p \in Plans |-> TicketOf(plans'[p].status)] /\ Goals' = [p \in Plans |-> plans'[p].graph]
  BY DEF Ticket, Goals
<1> QED BY <1>2, <1>3, <1>4 DEF Goals

\* Executing a plan closes its ticket.
LEMMA TicketSpent ==
    ASSUME Types, cmd \in Commands, cmd.kind = "apply", plans' = Consumed
    PROVE  /\ cmd.plan \in Plans
           /\ plans[cmd.plan].status # "none" => Ticket' = [Ticket EXCEPT ![cmd.plan] = "void"]
           /\ Goals' = Goals
<1>1. plans \in [Plans -> Plan] /\ cmd.plan \in Plans
  BY DEF Types, Commands
<1>2. plans' = [plans EXCEPT ![cmd.plan].status = "consumed"]
  BY DEF Consumed
<1>3. \A p \in Plans : /\ plans'[p].graph = plans[p].graph
                       /\ p # cmd.plan => plans'[p] = plans[p]
                       /\ plans'[cmd.plan].status = "consumed"
  BY <1>1, <1>2 DEF Plan
<1>4. TicketOf("consumed") = "void"
  BY DEF TicketOf
<1>5. Ticket' = [p \in Plans |-> TicketOf(plans'[p].status)] /\ Goals' = [p \in Plans |-> plans'[p].graph]
  BY DEF Ticket, Goals
<1> QED BY <1>1, <1>3, <1>4, <1>5 DEF Ticket, Goals

\* A step that the application cannot see.
LEMMA Unseen ==
    ASSUME UNCHANGED <<hostPhase, revision, graph, shown>>, Attempt' = Attempt, Aim' = Aim,
           Reachable' = Reachable, Ticket' = Ticket, Goals' = Goals
    PROVE  UNCHANGED Promised!vars
BY DEF Promised!vars

LEMMA SameReach ==
    ASSUME IInv, shown' = shown, \A i \in Instances : phase'[i] = "active" <=> phase[i] = "active"
    PROVE  Reachable' = Reachable
BY DEF IInv, Types, Reachable

\* Attempt and Aim at each control point of a healthy Host.
LEMMA Attempts ==
    ASSUME Healthy
    PROVE  /\ Gated => Attempt = "none" /\ Aim = graph
           /\ pc = "joining" => Attempt = "none" /\ Aim = graph
           /\ pc = "stopping" => Aim = Target
           /\ pc = "preparing" => Aim = Scope.graph
           /\ pc \in {"stopping", "preparing"} =>
                Attempt = IF cmd.kind = "apply" THEN "change" ELSE cmd.kind
           /\ pc \in {"undoing", "restoring"} => Attempt = "back" /\ Aim = graph
           /\ pc = "undoingRestore" => Attempt = "doomed" /\ Aim = graph
BY DEF Attempt, Aim, Gated

LEMMA NoAttempt == ASSUME ~Healthy PROVE Attempt = "none" /\ Aim = graph
BY DEF Attempt, Aim

\* Everybody who serves is live, and nobody leaves without those who need it.
LEMMA ReachableFacts ==
    ASSUME IInv
    PROVE  /\ Reachable \subseteq Instances /\ Reachable \subseteq live
           /\ \A i \in Reachable : phase[i] = "active" /\ i \in shown /\ i[1] \in Installations
           /\ Healthy => \A i \in live : i[1] \in Members(graph)
<1>1. Reachable \subseteq Instances /\ Reachable \subseteq live
  BY DEF IInv, Types, Records, Reachable
<1>2. \A i \in Reachable : i[1] \in Installations
  BY <1>1 DEF Instances
<1>3. Healthy => Linked(Committed)
  BY DEF IInv, Accounts, Execution
<1> QED BY <1>1, <1>2, <1>3 DEF Reachable, Linked, Committed

LEMMA Withdrawal ==
    ASSUME IInv, shown' = shown, Reachable' \subseteq Reachable,
           \A c \in Reachable', p \in Reachable : p[1] \in Needs(graph, c[1]) => p \in Reachable'
    PROVE  Promised!Withdraw
<1>1. graph \in Graphs
  BY DEF IInv, Types
<1>2. \A c \in Reachable' : c[1] \in Installations
  BY ReachableFacts
<1>3. \A c \in Reachable' :
        [g \in Graphs |-> [x \in Installations |-> Needs(g, x)]][graph][c[1]] = Needs(graph, c[1])
  BY <1>1, <1>2
<1> QED BY <1>3 DEF Promised!Withdraw

LEMMA PartOfIs ==
    ASSUME NEW g \in Graphs, NEW S
    PROVE  /\ Promised!PartOf(g, S) <=> /\ \A i \in S : i[1] \in Members(g)
                                        /\ \A i, k \in S : i[1] = k[1] => i = k
           /\ Promised!Whole(g, S) <=> /\ Promised!PartOf(g, S)
                                       /\ \A x \in Members(g) : \E i \in S : i[1] = x
<1>1. [h \in Graphs |-> Members(h)][g] = Members(g)
  OBVIOUS
<1> QED BY <1>1 DEF Promised!PartOf, Promised!Whole

\* Whoever is being prepared or undone before a commit is not reachable.
LEMMA CandidatesAreHidden ==
    ASSUME IInv, Healthy, pc \in {"preparing", "undoing", "restoring"}
    PROVE  Candidates \intersect Reachable = {}
<1>1. Underway /\ live = scopes[1].instances /\ Len(scopes) \in {2, 3}
  BY DEF IInv, Transit, Underway
<1>2. \A i \in scopes[1].instances : i[2] < generation
  BY <1>1 DEF IInv, Departed
<1>3. \A i \in Candidates : i[2] = generation
  BY <1>1 DEF IInv, Departed
<1>4. \A i \in Candidates : i \in live => FALSE
  <2>1. generation \in Nat
    BY DEF IInv, Types
  <2> QED BY <1>1, <1>2, <1>3, <2>1
<1> QED BY <1>4, ReachableFacts

\* Whoever of the candidates recedes, its consumers recede with it.
LEMMA Bystanding ==
    ASSUME IInv, Healthy, Preparing \/ Undoing, NEW c \in Reachable, c \notin Candidates,
           NEW p \in Candidates
    PROVE  p[1] \notin Needs(graph, c[1])
<1>1. Underway
  BY DEF Preparing, Undoing, Underway
<1>2. p[1] \in affected
  BY DEF Candidates, Affected
<1>3. c \in live /\ c[1] \in Members(graph)
  BY ReachableFacts
<1>4. Len(scopes) \in {2, 3} /\ Covers(graph, Scope.graph, affected)
  BY <1>1 DEF IInv, Transit, Scope, Preparing, Undoing
<1>5. c[1] \notin affected
  <2>1. CASE live = Scope.instances
    BY <1>3, <2>1 DEF Candidates, Affected
  <2>2. CASE live = scopes[1].instances
    <3>1. \A i \in Affected(scopes[1].instances) : phase[i] = "disposed"
      BY <1>1 DEF IInv, Departed, Preparing, Undoing
    <3> QED BY <1>3, <2>2, <3>1, ReachableFacts DEF Affected
  <2> QED BY <1>1, <2>1, <2>2 DEF IInv, Transit
<1> QED BY <1>2, <1>3, <1>4, <1>5 DEF Covers

\* Candidates that are all prepared complete what is reachable to a composition.
LEMMA Completion ==
    ASSUME IInv, Errands, Prepared, Healthy
    PROVE  /\ Promised!Completing /\ Aim = Scope.graph /\ Scope.graph \in Graphs
           /\ Scope.instances = Reachable \union Candidates
           /\ \A i \in Candidates : phase[i] = "active"
           /\ Promised!Whole(Scope.graph, Scope.instances)
           /\ \A S \in SUBSET Scope.instances : Promised!PartOf(Scope.graph, S)
<1>1. Preparing /\ Underway
  BY DEF Prepared, Preparing, Underway
<1>2. pc = "preparing" => Attempt \in {"change", "start"} /\ Aim = Scope.graph
  <2>1. cmd.kind \in {"apply", "start", "stop"}
    BY <1>1 DEF IInv, Types, Preparing, Commands
  <2> QED BY <2>1, Attempts DEF Errands
<1>3. pc = "restoring" => Attempt = "back" /\ Aim = Scope.graph /\ hostPhase = "running"
  BY <1>1, Attempts DEF Errands, IInv, Transit
<1>4. Promised!Completing /\ Aim = Scope.graph
  BY <1>1, <1>2, <1>3 DEF Preparing, Promised!Completing
<1>5. /\ Scope.graph \in Graphs /\ Candidates \subseteq Scope.instances
      /\ \A i \in Scope.instances : /\ phase[i] = "active"
                                    /\ i \in shown \/ i \in Candidates
                                    /\ \A k \in Scope.instances : k[1] = i[1] => k = i
      /\ \A x \in Members(Scope.graph) : \E i \in Scope.instances : i[1] = x
      /\ \A i \in Instances : Alive(i) => i \in Scope.instances
  BY PreparedFacts
<1>6. \A i \in Scope.instances : i[1] \in Members(Scope.graph)
  BY <1>1, ScopeUnderPreparation DEF Linked
<1>7. Scope.instances = Reachable \union Candidates
  <2>1. \A i \in Reachable : i \in Instances /\ Alive(i)
    BY ReachableFacts DEF Alive
  <2> QED BY <1>5, <2>1 DEF Reachable
<1>8. \A S \in SUBSET Scope.instances : Promised!PartOf(Scope.graph, S)
  BY <1>5, <1>6, PartOfIs
<1>9. Promised!Whole(Scope.graph, Scope.instances)
  BY <1>5, <1>8, PartOfIs
<1> QED BY <1>4, <1>5, <1>7, <1>8, <1>9

\* The steps by which the Host is quarantined.
LEMMA CollapseStep ==
    ASSUME IInv, IInv', Errands, [Next]_vars, Healthy, ~Healthy'
    PROVE  Promised!Collapse
<1>1. UNCHANGED hostPhase => FALSE
  BY DEF Healthy
<1>2. (Quarantine /\ UNCHANGED shown) \/ CommitFails
  <2>1. CASE \E p \in Plans : CompilePlan(p) \/ IssuePlan(p)
    BY <1>1, <2>1 DEF CompilePlan, IssuePlan, stateVars
  <2>2. CASE \E c \in Commands : Submit(c)
    BY <1>1, <2>2 DEF Submit, stateVars
  <2>3. CASE Gate
    BY <1>1, <2>3 DEF Gate, TakeCommand, Validated, ValidationFails, Reject, CommitStopped,
                      BeginTransition, stateVars
  <2>4. CASE Execute
    <3>1. CASE StopFails \/ UndoFails
      BY <3>1 DEF StopFails, UndoFails, QuarantineOrJoin
    <3>2. ~(CommitStop \/ Commit \/ RestoreFails)
      BY DEF CommitStop, Commit, RestoreFails, Establish, Healthy
    <3> QED BY <1>1, <2>4, <3>1, <3>2 DEF Execute, BeginPrepare, NextLayer, LayerReady, Undo, StartFails,
                                          BeginRestore, Join, stateVars
  <2>5. CASE QuarantineEnds
    BY <1>1, <2>5 DEF QuarantineEnds
  <2>6. ASSUME NEW k \in Instances, NEW j \in Jobs, Branch(j, k) PROVE FALSE
    BY <1>1, <2>6 DEF Branch, BranchSkips, BranchSettles, BranchDisposes, stateVars
  <2>7. ASSUME NEW k \in Instances,
               Settle(k) \/ Borrow(k) \/ Return(k) \/ LifetimeEnds(k) \/ RootDeadline(k)
        PROVE  FALSE
    BY <1>1, <2>7 DEF Settle, SetupSucceeds, SetupFails, Borrow, Return, LifetimeEnds, RootDeadline,
                      stateVars
  <2>8. ASSUME NEW k \in Instances, EarlyFailure(k) \/ DescendantDeadline(k)
        PROVE  Quarantine /\ UNCHANGED shown
    BY <1>1, <2>8 DEF EarlyFailure, DescendantDeadline, ReleaseFailed, stateVars
  <2>9. CASE UNCHANGED vars
    BY <1>1, <2>9 DEF vars, stateVars
  <2> QED BY <2>1, <2>2, <2>3, <2>4, <2>5, <2>6, <2>7, <2>8, <2>9 DEF Next, Jobs
<1>3. /\ hostPhase # "quarantined" /\ hostPhase' = "quarantined" /\ plans' = Invalidated(plans)
      /\ Attempt' = "none" /\ Aim' = graph'
  BY <1>2, NoAttempt DEF Healthy, Quarantine, CommitFails, Attempt, Aim
<1>4. Reachable' = {}
  BY DEF IInv, Types, Closed, Reachable
<1>5. /\ Ticket' = [p \in Plans |-> IF Ticket[p] = "open" THEN "void" ELSE Ticket[p]]
      /\ Goals' = Goals
  BY <1>3, TicketsVoid DEF IInv
<1>6. CASE Quarantine /\ UNCHANGED shown
  <2>1. Promised!Revise(1)
    BY <1>3, <1>5, <1>6 DEF Promised!Revise, Quarantine
  <2> QED BY <1>3, <1>4, <1>6, <2>1 DEF Promised!Collapse, Quarantine
<1>7. CASE CommitFails
  <2>1. PICK S \in SUBSET Candidates : shown' = shown \union S
    BY <1>7 DEF CommitFails
  <2>2. Prepared /\ Preparing /\ graph' = Scope.graph /\ revision' = revision + 2
    BY <1>7 DEF CommitFails, Prepared
  <2>3. Promised!Revise(2)
    BY <1>3, <1>5, <2>2 DEF Promised!Revise
  <2>4. /\ Aim = Scope.graph /\ Promised!Completing
        /\ Promised!PartOf(Scope.graph, shown' \ shown)
    <3>1. shown' \ shown \in SUBSET Scope.instances
      BY <2>1, <2>2, Completion
    <3> QED BY <2>2, <3>1, Completion
  <2> QED BY <1>3, <1>4, <2>1, <2>2, <2>3, <2>4 DEF Promised!Collapse
<1> QED BY <1>2, <1>6, <1>7

\* The steps of a healthy Host that stays healthy.
LEMMA GateKeeps ==
    ASSUME IInv, Errands, Gate, Healthy, Healthy'
    PROVE  [Promised!Next]_(Promised!vars)
<1>1. Gated /\ Attempt = "none" /\ Aim = graph
  BY Attempts DEF Gate, TakeCommand, Validated, ValidationFails, Reject, CommitStopped,
     BeginTransition, Proceed, Gated
<1>2. ASSUME UNCHANGED <<stateVars, instVars>>, Gated', plans' = plans
      PROVE  UNCHANGED Promised!vars
  <2>1. Attempt' = "none" /\ Aim' = graph'
    BY <1>2 DEF Attempt, Aim, Gated
  <2>2. Reachable' = Reachable
    BY <1>2 DEF Reachable, instVars
  <2> QED BY <1>1, <1>2, <2>1, <2>2, TicketsKept, Unseen DEF stateVars, instVars
<1>3. CASE TakeCommand
  <2>1. Gated'
    BY <1>3 DEF TakeCommand, Gated
  <2> QED BY <1>2, <1>3, <2>1 DEF TakeCommand
<1>4. CASE Validated \/ ValidationFails
  BY <1>2, <1>4 DEF Validated, ValidationFails, Finish, Gated, planVars
<1>5. CASE Reject
  <2>1. CASE plans' = plans
    BY <1>2, <1>5, <2>1 DEF Reject, Finish, Gated
  <2>2. CASE plans' = Consumed /\ cmd.kind = "apply"
    <3>1. cmd \in Commands /\ plans[cmd.plan].status # "none" /\ cmd.plan \in Plans
      BY <1>5, <2>2 DEF Reject, IInv, Types, Errands, Commands
    <3>2. Ticket' = [Ticket EXCEPT ![cmd.plan] = "void"] /\ Goals' = Goals
      BY <2>2, <3>1, TicketSpent DEF IInv
    <3>3. Attempt' = "none" /\ Aim' = graph'
      BY <1>5 DEF Attempt, Aim, Reject, Finish
    <3>4. UNCHANGED <<hostPhase, revision, graph, shown, Reachable>>
      BY <1>5 DEF Reject, Reachable, stateVars, instVars
    <3>5. CASE Ticket[cmd.plan] = "open"
      BY <1>1, <3>1, <3>2, <3>3, <3>4, <3>5 DEF Promised!Next, Promised!Spend
    <3>6. CASE Ticket[cmd.plan] # "open"
      <4>1. Ticket[cmd.plan] = "void"
        BY <3>1, <3>6 DEF Ticket, TicketOf, IInv, Types, Plan
      <4>2. Ticket' = Ticket
        BY <3>1, <3>2, <4>1 DEF Ticket
      <4> QED BY <1>1, <3>2, <3>3, <3>4, <4>2, Unseen
    <3> QED BY <3>5, <3>6
  <2>3. CASE plans' = Consumed /\ cmd.kind # "apply"
    BY <2>1, <2>3 DEF Consumed
  <2> QED BY <1>5, <2>1, <2>2, <2>3 DEF Reject
<1>6. CASE CommitStopped
  <2>1. /\ pc = "ready" /\ Usable /\ hostPhase = "stopped" /\ cmd.kind = "apply"
        /\ cmd \in Commands /\ cmd.plan \in Plans
        /\ graph' = plans[cmd.plan].graph /\ revision' = revision + 1
        /\ plans' = Invalidated(Consumed) /\ pc' = "idle"
        /\ UNCHANGED <<hostPhase, shown, Reachable>>
    BY <1>6 DEF CommitStopped, Proceed, Errands, IInv, Types, Commands, Target, Finish, Reachable, instVars
  <2>2. Ticket[cmd.plan] = "open" /\ Goals[cmd.plan] = graph'
    BY <2>1 DEF Usable, Ticket, TicketOf, Goals
  <2>3. /\ Ticket' = [p \in Plans |-> IF Ticket[p] = "open" THEN "void" ELSE Ticket[p]]
        /\ Goals' = Goals
    <3>1. /\ Consumed \in [Plans -> Plan] /\ Consumed[cmd.plan].status = "consumed"
          /\ \A p \in Plans : Consumed[p].graph = plans[p].graph
          /\ \A p \in Plans \ {cmd.plan} : Consumed[p] = plans[p]
      BY <2>1, ConsumedFacts DEF IInv, Types, Consumed
    <3> HIDE DEF Consumed
    <3>2. ASSUME NEW p \in Plans
          PROVE  /\ plans'[p].graph = plans[p].graph
                 /\ TicketOf(plans'[p].status) =
                      IF Ticket[p] = "open" THEN "void" ELSE Ticket[p]
      <4>1. plans'[p] = IF Consumed[p].status \in {"compiling", "issued"}
                        THEN [Consumed[p] EXCEPT !.status = "stale"] ELSE Consumed[p]
        BY <2>1 DEF Invalidated
      <4>2. plans'[p].graph = plans[p].graph
        BY <3>1, <4>1 DEF Plan
      <4>3. CASE Consumed[p].status \in {"compiling", "issued"}
        <5>1. plans'[p].status = "stale" /\ p # cmd.plan
          BY <3>1, <4>1, <4>3 DEF Plan
        <5>2. TicketOf(plans'[p].status) = "void"
          BY <5>1 DEF TicketOf
        <5>3. plans[p].status \in {"compiling", "issued"}
          BY <3>1, <4>3, <5>1
        <5>4. Ticket[p] = "open"
          BY <5>3 DEF Ticket, TicketOf
        <5> QED BY <4>2, <5>2, <5>4
      <4>4. CASE Consumed[p].status \notin {"compiling", "issued"}
        <5>1. CASE p = cmd.plan
          BY <2>2, <3>1, <4>1, <4>4, <5>1 DEF TicketOf
        <5>2. CASE p # cmd.plan
          BY <3>1, <4>1, <4>4, <5>2 DEF Ticket, TicketOf
        <5> QED BY <5>1, <5>2
      <4> QED BY <4>2, <4>3, <4>4
    <3>3. Ticket' = [p \in Plans |-> TicketOf(plans'[p].status)] /\ Goals' = [p \in Plans |-> plans'[p].graph]
      BY DEF Ticket, Goals
    <3> QED BY <3>2, <3>3 DEF Goals
  <2>4. Attempt' = "none" /\ Aim' = graph'
    BY <2>1 DEF Attempt, Aim
  <2>5. Promised!Revise(1)
    BY <2>1, <2>3, <2>4 DEF Promised!Revise
  <2> QED BY <1>1, <2>1, <2>2, <2>5 DEF Promised!Next, Promised!TakeNote
<1>7. CASE BeginTransition
  <2> DEFINE A == ToChange
  <2>1. /\ pc = "ready" /\ pc' = "stopping" /\ Usable /\ cmd' = cmd /\ cmd \in Commands
        /\ phase' = Blocked(Leaving) /\ plans' = Consumed
        /\ hostPhase = "running" \/ cmd.kind = "start"
        /\ UNCHANGED <<hostPhase, revision, graph, shown, live>>
    BY <1>7 DEF BeginTransition, Proceed, IInv, Types, stateVars
  <2>2. Attempt' = (IF cmd.kind = "apply" THEN "change" ELSE cmd.kind) /\ Aim' = Target'
    BY <2>1 DEF Attempt, Aim
  <2>3. /\ Reachable' \subseteq Reachable
        /\ \A i \in Reachable : i \in Reachable' <=> i[1] \notin A
    <3>1. \A i \in Instances : IF i \in Leaving /\ phase[i] = "active" THEN phase'[i] = "sealed"
                                ELSE phase'[i] = phase[i]
      BY <2>1, BlockedFacts DEF IInv
    <3>2. \A i \in Reachable : i \in Instances /\ i \in shown /\ phase[i] = "active"
                               /\ (i \in Leaving <=> i[1] \in A)
      BY ReachableFacts DEF Leaving
    <3>3. shown \subseteq Instances
      BY DEF IInv, Types
    <3> HIDE DEF A
    <3> QED BY <2>1, <3>1, <3>2, <3>3 DEF Reachable
  <2>4. ASSUME NEW c \in Reachable', NEW p \in Reachable, p[1] \in Needs(graph, c[1])
        PROVE  p \in Reachable'
    <3>1. c[1] \in Members(graph) /\ c[1] \notin A
      BY <2>3, ReachableFacts
    <3>2. Needs(graph, c[1]) \intersect A = {}
      <4>1. CASE cmd.kind = "apply"
        <5>1. cmd.plan \in Plans /\ plans[cmd.plan].status = "issued"
          BY <2>1, <4>1 DEF Usable, Commands
        <5> QED BY <3>1, <4>1, <5>1 DEF IInv, PlansAreCurrent, Covers, ToChange
      <4>2. CASE cmd.kind # "apply"
        BY <3>1, <4>2 DEF ToChange
      <4> QED BY <4>1, <4>2
    <3> QED BY <2>3, <2>4, <3>2
  <2>5. Promised!Withdraw
    BY <2>1, <2>3, <2>4, Withdrawal
  <2>6. CASE cmd.kind = "apply"
    <3>1. cmd.plan \in Plans /\ plans[cmd.plan].status = "issued" /\ hostPhase = "running"
      BY <2>1, <2>6 DEF Usable, Commands
    <3>2. Ticket' = [Ticket EXCEPT ![cmd.plan] = "void"] /\ Goals' = Goals
      BY <2>1, <2>6, <3>1, TicketSpent DEF IInv
    <3>3. Ticket[cmd.plan] = "open"
      BY <3>1 DEF Ticket, TicketOf
    <3>4. Aim' = Goals[cmd.plan]
      <4>1. Target' = Goals'[cmd.plan]
        BY <2>1, <2>6, <3>1 DEF Target, Goals
      <4> QED BY <2>2, <3>2, <4>1
    <3>5. Promised!Begin
      BY <1>1, <2>1, <2>2, <2>5, <2>6, <3>1, <3>2, <3>3, <3>4 DEF Promised!Begin
    <3> QED BY <3>5 DEF Promised!Next
  <2>7. CASE cmd.kind # "apply"
    <3>1. plans' = plans /\ Aim' = graph
      BY <2>1, <2>2, <2>7 DEF Consumed, Target
    <3>2. \/ cmd.kind = "start" /\ hostPhase = "stopped"
          \/ cmd.kind = "stop" /\ hostPhase = "running"
      <4>1. cmd.kind \in {"start", "stop"}
        BY <2>1, <2>7 DEF Commands
      <4> QED BY <2>1, <4>1 DEF Errands
    <3>3. Reachable' = {}
      <4>1. \A i \in Reachable : i[1] \in A
        BY <2>7, ReachableFacts DEF ToChange
      <4> QED BY <2>3, <4>1
    <3>4. Promised!Begin
      BY <1>1, <2>1, <2>2, <2>5, <2>7, <3>1, <3>2, <3>3, TicketsKept DEF Promised!Begin
    <3> QED BY <3>4 DEF Promised!Next
  <2> QED BY <2>6, <2>7
<1> QED BY <1>3, <1>4, <1>5, <1>6, <1>7 DEF Gate

LEMMA ExecuteKeeps ==
    ASSUME IInv, IInv', Errands, Execute, Healthy, Healthy'
    PROVE  [Promised!Next]_(Promised!vars)
<1>1. ~Quarantine
  BY DEF Quarantine, Healthy
<1>2. ~(StopFails \/ UndoFails \/ CommitFails \/ Join)
  BY <1>1 DEF StopFails, UndoFails, QuarantineOrJoin, CommitFails, Join, Healthy, IInv, Accounts
<1>3. ASSUME plans' = Invalidated(plans), revision' = revision + 1, Finish, UNCHANGED instVars,
             graph' = graph, hostPhase' = "stopped",
             \/ Attempt = "stop" /\ hostPhase = "running"
             \/ Attempt = "back" /\ hostPhase = "stopped"
      PROVE  Promised!Halt
  <2>1. Attempt' = "none" /\ Aim' = graph'
    BY <1>3 DEF Finish, Attempt, Aim
  <2>2. Reachable' = Reachable /\ shown' = shown
    BY <1>3 DEF instVars, Reachable
  <2>3. Promised!Revise(1)
    BY <1>3, <2>1, TicketsVoid DEF Promised!Revise, IInv
  <2> QED BY <1>3, <2>2, <2>3 DEF Promised!Halt
<1>4. CASE CommitStop
  <2>1. Attempt = "stop" /\ hostPhase = "running"
    BY <1>4, Attempts DEF CommitStop, StopSucceeds, Errands
  <2> QED BY <1>3, <1>4, <2>1 DEF CommitStop, Promised!Next
<1>5. CASE StartFails
  <2>1. Attempt = "back"
    BY <1>5, Attempts DEF StartFails, UndoSucceeds
  <2> QED BY <1>3, <1>5, <2>1 DEF StartFails, UndoSucceeds, Promised!Next
<1>6. CASE BeginPrepare \/ BeginRestore
  <2>1. /\ UNCHANGED <<stateVars, planVars, instVars, cmd>>
        /\ \/ /\ pc = "stopping" /\ pc' = "preparing"
              /\ scopes' = Append(scopes, [graph |-> Target,
                   instances |-> {i \in scopes[1].instances : i[1] \notin affected}])
           \/ pc = "undoing" /\ pc' = "restoring"
    BY <1>6 DEF BeginPrepare, BeginRestore, StopSucceeds, UndoSucceeds, Prepare
  <2>2. pc' = "preparing" => Scope'.graph = Target
    BY <2>1 DEF Scope, IInv, Types
  <2>3. Attempt' = Attempt /\ Aim' = Aim
    BY <2>1, <2>2 DEF Attempt, Aim, stateVars, Healthy
  <2>4. Reachable' = Reachable
    BY <2>1 DEF Reachable, instVars
  <2> QED BY <2>1, <2>3, <2>4, TicketsKept, Unseen DEF stateVars, planVars, instVars
<1>7. CASE NextLayer
  <2> DEFINE new == {<<x, generation>> : x \in Frontier(Scope.graph, passed) \intersect affected}
  <2>1. /\ Preparing /\ UNCHANGED <<pc, cmd, stateVars, planVars, shown, generation, affected>>
        /\ phase' = [i \in Instances |-> IF i \in new THEN "active" ELSE phase[i]]
        /\ scopes' = [scopes EXCEPT ![Len(scopes)].instances = @ \union new]
    BY <1>7 DEF NextLayer
  <2> HIDE DEF new
  <2>2. Len(scopes') \in {2, 3} /\ Len(scopes') = Len(scopes) /\ Scope'.graph = Scope.graph
    BY <2>1, ScopeUnderPreparation DEF Scope, IInv, Types, Scopes
  <2>3. Attempt' = Attempt /\ Aim' = Aim
    BY <2>1, <2>2 DEF Attempt, Aim, Preparing, stateVars
  <2>4. ASSUME NEW i \in Instances, i \in new, i \in shown PROVE FALSE
    <3>1. i[1] \in affected /\ i[2] = generation
      BY <2>4 DEF new
    <3>2. i \in live'
      BY <2>1, <2>4 DEF IInv, Records
    <3>3. Underway' /\ live' = scopes'[1].instances /\ 1 \in 1 .. Len(scopes') - 1
      BY <2>1, <2>2 DEF Underway, Preparing, IInv, Transit
    <3>4. i[2] < generation'
      BY <2>1, <3>2, <3>3 DEF IInv, Departed, Preparing
    <3> QED BY <2>1, <3>1, <3>4 DEF IInv, Types
  <2>5. Reachable' = Reachable
    BY <2>1, <2>4 DEF Reachable, IInv, Types
  <2> QED BY <2>1, <2>3, <2>5, TicketsKept, Unseen DEF stateVars, planVars
<1>8. CASE LayerReady
  <2>1. UNCHANGED <<pc, cmd, scopes, stateVars, planVars, instVars>>
    BY <1>8 DEF LayerReady
  <2>2. Attempt' = Attempt /\ Aim' = Aim /\ Reachable' = Reachable
    BY <2>1 DEF Attempt, Aim, Reachable, Healthy, Target, Scope, stateVars, planVars, instVars
  <2> QED BY <2>1, <2>2, TicketsKept, Unseen DEF stateVars, planVars, instVars
<1>9. CASE Undo
  <2>1. /\ UNCHANGED <<stateVars, planVars, instVars, cmd>>
        /\ \/ pc = "preparing" /\ pc' = "undoing"
           \/ pc = "restoring" /\ pc' = "undoingRestore"
    BY <1>9 DEF Undo, Preparing
  <2>2. /\ UNCHANGED <<hostPhase, revision, graph, shown>>
        /\ Reachable' = Reachable /\ Ticket' = Ticket /\ Goals' = Goals
    BY <2>1, TicketsKept DEF Reachable, stateVars, planVars, instVars
  <2>3. CASE pc = "preparing" /\ pc' = "undoing"
    <3>1. cmd.kind \in {"apply", "start"}
      BY <2>3 DEF IInv, Types, Commands, Errands
    <3>2. Attempt \in {"change", "start"} /\ Attempt' = "back" /\ Aim' = graph
      BY <2>2, <2>3, <3>1, Attempts DEF Attempt, Aim
    <3> QED BY <2>2, <3>2 DEF Promised!Next, Promised!TurnBack
  <2>4. CASE pc = "restoring" /\ pc' = "undoingRestore"
    <3>1. Attempt = "back" /\ Aim = graph /\ hostPhase = "running"
      BY <2>4, Attempts DEF Errands
    <3>2. Attempt' = "doomed" /\ Aim' = graph
      BY <2>2, <2>4 DEF Attempt, Aim
    <3> QED BY <2>2, <3>1, <3>2 DEF Promised!Next, Promised!Falter
  <2> QED BY <2>1, <2>3, <2>4
<1>10. CASE Commit
  <2>1. /\ Prepared /\ hostPhase' = "running" /\ revision' = revision + 1 /\ graph' = Scope.graph
        /\ plans' = Invalidated(plans) /\ shown' = shown \union Candidates
        /\ pc' = "idle" /\ phase' = phase
    BY <1>10 DEF Commit, Establish, Finish
  <2>2. /\ Promised!Completing /\ Aim = graph' /\ Scope.instances = Reachable \union Candidates
        /\ \A i \in Candidates : phase[i] = "active"
        /\ Promised!Whole(Scope.graph, Scope.instances)
    BY <2>1, Completion
  <2>3. Reachable' = Scope.instances
    BY <2>1, <2>2 DEF Reachable
  <2>4. Attempt' = "none" /\ Aim' = graph'
    BY <2>1 DEF Attempt, Aim
  <2>5. Promised!Revise(1)
    BY <2>1, <2>4, TicketsVoid DEF Promised!Revise, IInv
  <2>6. (Reachable' \ Reachable) \intersect shown = {} /\ shown' = shown \union Reachable'
    BY <2>1, <2>2, <2>3 DEF Reachable
  <2>7. Promised!Whole(Aim, Reachable')
    BY <2>1, <2>2, <2>3
  <2> QED BY <2>1, <2>2, <2>3, <2>5, <2>6, <2>7 DEF Promised!Next, Promised!Complete
<1>11. CASE RestoreFails
  <2>1. PICK S \in SUBSET Candidates : shown' = shown \union S
    BY <1>11 DEF RestoreFails
  <2>2. /\ Prepared /\ pc = "restoring" /\ hostPhase' = "running" /\ revision' = revision + 1
        /\ graph' = Scope.graph /\ plans' = Invalidated(plans) /\ pc' = "undoingRestore"
        /\ phase' = phase
    BY <1>11 DEF RestoreFails, Establish
  <2>3. /\ Attempt = "back" /\ Aim = graph /\ hostPhase = "running"
        /\ Attempt' = "doomed" /\ Aim' = graph'
    BY <2>2, Attempts DEF Errands, Attempt, Aim
  <2>4. graph' = graph /\ Reachable \union S \subseteq Scope.instances
    BY <2>1, <2>2, <2>3, Completion
  <2>5. Reachable' = Reachable \union S
    BY <2>1, <2>2, Completion DEF Reachable
  <2>6. Promised!PartOf(graph, Reachable')
    BY <2>2, <2>4, <2>5, Completion
  <2>7. /\ Ticket' = [p \in Plans |-> IF Ticket[p] = "open" THEN "void" ELSE Ticket[p]]
        /\ Goals' = Goals
    BY <2>2, TicketsVoid DEF IInv
  <2>8. (Reachable' \ Reachable) \intersect shown = {} /\ shown' = shown \union Reachable'
    BY <2>1, <2>2, <2>5 DEF Reachable
  <2> QED BY <2>2, <2>3, <2>4, <2>5, <2>6, <2>7, <2>8 DEF Promised!Next, Promised!Falter
<1> QED BY <1>2, <1>4, <1>5, <1>6, <1>7, <1>8, <1>9, <1>10, <1>11 DEF Execute

\* Sealing or disposing of candidates is seen only if they had been published.
LEMMA RecedingKeeps ==
    ASSUME IInv, IInv', Errands, Healthy, Preparing \/ Undoing,
           UNCHANGED <<stateVars, plans, pc, cmd, scopes, shown>>,
           Reachable' \subseteq Reachable,
           \A i \in Reachable : i \in Reachable' \/ i \in Candidates,
           \A c \in Reachable', p \in Candidates : 
               p \in Reachable /\ p[1] \in Needs(graph, c[1]) => p \in Reachable'
    PROVE  [Promised!Next]_(Promised!vars)
<1>1. Attempt' = Attempt /\ Aim' = Aim
  BY DEF Attempt, Aim, Healthy, Target, Scope, stateVars
<1>2. CASE pc \in {"preparing", "undoing", "restoring"}
  <2>1. Reachable' = Reachable
    BY <1>2, CandidatesAreHidden
  <2> QED BY <1>1, <2>1, TicketsKept, Unseen DEF stateVars
<1>3. CASE pc = "undoingRestore"
  <2>1. Promised!Withdraw
    BY Withdrawal
  <2>2. Attempt = "doomed"
    BY <1>3, Attempts
  <2> QED BY <1>1, <2>1, <2>2, TicketsKept DEF Promised!Next, Promised!Recede, stateVars
<1> QED BY <1>2, <1>3 DEF Preparing, Undoing

LEMMA InstancesKeep ==
    ASSUME IInv, IInv', Errands, Healthy, Healthy', NEW i \in Instances,
           (\E j \in Jobs : Branch(j, i)) \/ Settle(i) \/ Borrow(i) \/ Return(i) \/ EarlyFailure(i)
             \/ DescendantDeadline(i) \/ LifetimeEnds(i) \/ RootDeadline(i)
    PROVE  [Promised!Next]_(Promised!vars)
<1>1. ~Quarantine
  BY DEF Quarantine, Healthy
<1>2. ASSUME UNCHANGED <<hostPhase, revision, graph, plans, cmdVars, shown>>,
             \A k \in Instances : phase'[k] = "active" <=> phase[k] = "active"
      PROVE  UNCHANGED Promised!vars
  <2>1. Attempt' = Attempt /\ Aim' = Aim
    BY <1>2 DEF Attempt, Aim, Healthy, Target, Scope, cmdVars
  <2> QED BY <1>2, <2>1, SameReach, TicketsKept, Unseen
<1>3. CASE Borrow(i) \/ Return(i) \/ EarlyFailure(i) \/ DescendantDeadline(i)
  BY <1>1, <1>2, <1>3 DEF Borrow, Return, EarlyFailure, DescendantDeadline, ReleaseFailed,
     stateVars, planVars
<1>4. CASE LifetimeEnds(i) \/ RootDeadline(i)
  <2>1. \A k \in Instances : phase'[k] = "active" <=> phase[k] = "active"
    BY <1>4 DEF LifetimeEnds, RootDeadline, IInv, Types
  <2> QED BY <1>2, <1>4, <2>1 DEF LifetimeEnds, RootDeadline, stateVars, planVars
<1>5. CASE SetupSucceeds(i)
  BY <1>2, <1>5 DEF SetupSucceeds, stateVars, planVars
<1>6. CASE SetupFails(i)
  <2>1. CASE i \notin layer
    BY <1>2, <1>6, <2>1 DEF SetupFails, stateVars, planVars
  <2>2. CASE i \in layer
    <3>1. Preparing \/ Undoing
      BY <2>2 DEF IInv, Types, Points, Accounts, Gathered, Gated, Errands, Preparing, Undoing
    <3>2. /\ phase' = Blocked(Candidates)
          /\ UNCHANGED <<stateVars, plans, pc, cmd, scopes, shown>>
      BY <1>6, <2>2 DEF SetupFails, planVars, cmdVars
    <3>3. \A k \in Reachable : k \in Reachable' <=> k \notin Candidates
      BY <3>2, BlockedFacts, ReachableFacts DEF IInv, Reachable
    <3>4. Reachable' \subseteq Reachable
      BY <3>2, BlockedFacts DEF IInv, Types, Reachable
    <3>5. \A c \in Reachable', p \in Candidates : p[1] \notin Needs(graph, c[1])
      BY <3>1, <3>3, <3>4, Bystanding
    <3> QED BY <3>1, <3>2, <3>3, <3>4, <3>5, RecedingKeeps
  <2> QED BY <2>1, <2>2
<1>7. ASSUME NEW j \in Jobs, BranchSkips(j, i) \/ BranchSettles(j, i)
      PROVE  UNCHANGED Promised!vars
  BY <1>2, <1>7 DEF BranchSkips, BranchSettles, stateVars, planVars, instVars
<1>8. ASSUME NEW j \in Jobs, BranchDisposes(j, i)
      PROVE  [Promised!Next]_(Promised!vars)
  <2>1. /\ jobs[j].on /\ i \in jobs[j].targets /\ phase' = [phase EXCEPT ![i] = "disposing"]
        /\ UNCHANGED <<stateVars, plans, cmdVars, shown>>
    BY <1>8 DEF BranchDisposes, BranchReady, planVars
  <2>2. j = "command" /\ (pc = "stopping" \/ Undoing) /\ Underway
    <3>1. ~NoJob.on
      BY DEF NoJob
    <3>2. j = "command" /\ ~Gated
      BY <2>1, <3>1 DEF IInv, Accounts, Gathered, Jobs
    <3>3. Underway
      BY <3>2 DEF IInv, Types, Points, Accounts, Gated, Underway
    <3> QED BY <2>1, <3>2, <3>3 DEF IInv, Departed
  <2>3. phase'[i] = "disposing" /\ \A k \in Instances \ {i} : phase'[k] = phase[k]
    BY <2>1 DEF IInv, Types
  <2>4. CASE pc = "stopping"
    <3>1. phase[i] # "active"
      BY <2>1, <2>2, <2>4 DEF IInv, Departed, Errands
    <3> QED BY <1>2, <2>1, <2>3, <3>1 DEF stateVars
  <2>5. CASE Undoing
    <3>1. i \in Candidates
      BY <2>1, <2>2, <2>5 DEF IInv, Departed
    <3>2. /\ Reachable' \subseteq Reachable /\ i \notin Reachable'
          /\ \A k \in Reachable : k \in Reachable' \/ k = i
      BY <2>1, <2>3 DEF IInv, Types, Reachable
    <3>3. ASSUME NEW c \in Reachable', NEW p \in Candidates, p \in Reachable, p[1] \in Needs(graph, c[1])
          PROVE  p \in Reachable'
      <4>1. SUFFICES ASSUME p = i PROVE FALSE
        BY <3>2, <3>3
      <4>2. c \in Candidates
        BY <2>5, <3>2, <3>3, Bystanding
      <4>3. pc = "undoingRestore"
        BY <2>5, <3>2, <4>2, CandidatesAreHidden DEF Undoing
      <4>4. Len(scopes) \in DOMAIN scopes /\ Linked(Scope) /\ Candidates \subseteq Scope.instances
        BY <2>2, TransitFacts DEF Scope
      <4>5. Scope.graph = graph
        BY <2>2, <4>3 DEF IInv, Transit
      <4>6. p \in bound[c]
        BY <3>3, <4>2, <4>4, <4>5 DEF Linked
      <4>7. bound'[c] = bound[c] /\ phase'[p] = "disposing" /\ phase'[c] = "active"
        BY <1>8, <2>3, <4>1, <3>2 DEF BranchDisposes, Reachable
      <4>8. c \in Instances /\ p \in Instances
        BY <3>2, <3>3, ReachableFacts
      <4> QED BY <4>6, <4>7, <4>8 DEF IInv, ConsumersFirst
    <3> QED BY <2>1, <2>5, <3>1, <3>2, <3>3, RecedingKeeps DEF cmdVars
  <2> QED BY <2>2, <2>4, <2>5
<1> QED BY <1>3, <1>4, <1>5, <1>6, <1>7, <1>8 DEF Branch, Settle

LEMMA HostStep ==
    ASSUME IInv, IInv', Errands, [Next]_vars
    PROVE  [Promised!Next]_(Promised!vars)
<1>1. CASE ~Healthy
  <2>1. ~Healthy' /\ UNCHANGED <<hostPhase, revision, shown>>
    BY <1>1, TerminalStep DEF Healthy
  <2>2. Attempt = "none" /\ Attempt' = "none" /\ Aim = graph /\ Aim' = graph'
    BY <1>1, <2>1 DEF Attempt, Aim
  <2>3. Reachable = {} /\ Reachable' = {}
    BY <1>1, <2>1 DEF IInv, Types, Closed, Reachable
  <2>4. graph' = graph /\ plans' = plans
    <3>2. CASE \E p \in Plans : CompilePlan(p) \/ IssuePlan(p)
      BY <1>1, <3>2 DEF CompilePlan, IssuePlan, IInv, PlansAreCurrent
    <3>3. CASE \E c \in Commands : Submit(c)
      BY <3>3 DEF Submit, stateVars
    <3>4. CASE Gate
      BY <1>1, <3>4 DEF Gate, TakeCommand, Validated, ValidationFails, Reject, CommitStopped,
                        BeginTransition, Proceed, stateVars, planVars
    <3>5. CASE Execute
      <4>1. ~(CommitStop \/ BeginPrepare \/ NextLayer \/ LayerReady \/ StartFails \/ BeginRestore
              \/ Commit \/ CommitFails \/ RestoreFails)
        BY <1>1 DEF CommitStop, BeginPrepare, StopSucceeds, NextLayer, LayerReady, StartFails,
                    BeginRestore, UndoSucceeds, Commit, CommitFails, RestoreFails
      <4> QED BY <1>1, <3>5, <4>1 DEF Execute, StopFails, UndoFails, QuarantineOrJoin, Undo, Join,
                                      stateVars, planVars
    <3>6. CASE QuarantineEnds
      BY <3>6 DEF QuarantineEnds, planVars
    <3>7. ASSUME NEW i \in Instances, NEW j \in Jobs, Branch(j, i)
          PROVE  graph' = graph /\ plans' = plans
      BY <3>7 DEF Branch, BranchSkips, BranchSettles, BranchDisposes, stateVars, planVars
    <3>8. ASSUME NEW i \in Instances,
                 Settle(i) \/ Borrow(i) \/ Return(i) \/ EarlyFailure(i) \/ DescendantDeadline(i)
                   \/ LifetimeEnds(i) \/ RootDeadline(i)
          PROVE  graph' = graph /\ plans' = plans
      BY <1>1, <3>8 DEF Settle, SetupSucceeds, SetupFails, Borrow, Return, EarlyFailure,
                        DescendantDeadline, ReleaseFailed, LifetimeEnds, RootDeadline, stateVars, planVars
    <3>9. CASE UNCHANGED vars
      BY <3>9 DEF vars, stateVars, planVars
    <3> QED BY <3>2, <3>3, <3>4, <3>5, <3>6, <3>7, <3>8, <3>9 DEF Next, Jobs
  <2> QED BY <2>1, <2>2, <2>3, <2>4, TicketsKept, Unseen
<1>2. CASE Healthy /\ ~Healthy'
  BY <1>2, CollapseStep DEF Promised!Next
<1>3. CASE Healthy /\ Healthy'
  <2>1. ASSUME UNCHANGED <<stateVars, cmdVars, instVars>>,
               pc = "stopping" => Target' = Target
        PROVE  /\ UNCHANGED <<hostPhase, revision, graph, shown>>
               /\ Attempt' = Attempt /\ Aim' = Aim /\ Reachable' = Reachable
    BY <2>1 DEF Attempt, Aim, Healthy, Scope, Reachable, stateVars, cmdVars, instVars
  <2>2. plans \in [Plans -> Plan]
    BY DEF IInv, Types
  <2>3. ASSUME NEW p \in Plans, CompilePlan(p) PROVE [Promised!Next]_(Promised!vars)
    <3>1. PICK h \in ValidGraphs : plans'[p].graph = h /\ plans'[p].status = "compiling"
      BY <2>2, <2>3 DEF CompilePlan, ValidGraphs
    <3>2. /\ plans[p].status = "none" /\ \A q \in Plans \ {p} : plans'[q] = plans[q]
          /\ UNCHANGED <<stateVars, cmdVars, instVars>>
      BY <2>2, <2>3 DEF CompilePlan
    <3>3. pc = "stopping" => Target' = Target
      <4>1. ASSUME pc = "stopping", cmd.kind = "apply"
            PROVE  cmd.plan \in Plans \ {p}
        <5>1. cmd.plan \in Plans
          BY <4>1 DEF IInv, Types, Commands
        <5>2. plans[cmd.plan].status = "consumed"
          BY <1>3, <4>1 DEF IInv, Transit, Underway
        <5> QED BY <3>2, <5>1, <5>2
      <4> QED BY <3>2, <4>1 DEF Target, stateVars, cmdVars
    <3>4. Ticket[p] = "none" /\ Ticket' = [Ticket EXCEPT ![p] = "open"]
      BY <3>1, <3>2 DEF Ticket, TicketOf
    <3>5. Goals' = [Goals EXCEPT ![p] = h]
      BY <3>1, <3>2 DEF Goals
    <3>6. Promised!Offer(p)
      BY <1>3, <2>1, <3>1, <3>2, <3>3, <3>4, <3>5 DEF Promised!Offer, Healthy
    <3> QED BY <3>6 DEF Promised!Next
  <2>4. ASSUME NEW p \in Plans, IssuePlan(p) PROVE UNCHANGED Promised!vars
    <3>1. /\ plans[p].status = "compiling" /\ plans'[p].status = "issued"
          /\ plans'[p].graph = plans[p].graph
          /\ \A q \in Plans \ {p} : plans'[q] = plans[q]
          /\ UNCHANGED <<stateVars, cmdVars, instVars>>
      BY <2>2, <2>4 DEF IssuePlan, Plan
    <3>2. Ticket' = Ticket
      BY <3>1 DEF Ticket, TicketOf
    <3>3. Goals' = Goals
      BY <3>1 DEF Goals
    <3>4. pc = "stopping" => Target' = Target
      <4>1. pc = "stopping" /\ cmd.kind = "apply" => cmd.plan \in Plans
        BY DEF IInv, Types, Commands
      <4> QED BY <3>1, <4>1 DEF Target, stateVars, cmdVars
    <3> QED BY <2>1, <3>1, <3>2, <3>3, <3>4, Unseen
  <2>5. ASSUME plans' = plans, UNCHANGED <<stateVars, cmdVars, instVars>>
        PROVE  UNCHANGED Promised!vars
    <3>1. Target' = Target
      BY <2>5 DEF Target, stateVars, cmdVars
    <3> QED BY <2>1, <2>5, <3>1, TicketsKept, Unseen
  <2>6. CASE \E c \in Commands : Submit(c)
    BY <2>5, <2>6 DEF Submit
  <2>7. CASE QuarantineEnds
    <3>1. ~NoJob.on
      BY DEF NoJob
    <3> QED BY <1>3, <2>7, <3>1 DEF QuarantineEnds, Over, IInv, Accounts
  <2>8. CASE UNCHANGED vars
    BY <2>5, <2>8 DEF vars, planVars
  <2> QED BY <1>3, <2>3, <2>4, <2>6, <2>7, <2>8, GateKeeps, ExecuteKeeps, InstancesKeep DEF Next, Jobs
<1> QED BY <1>1, <1>2, <1>3

\* The engine implements the abstract Host: initial states map to initial states
\* and every step maps to a step or a stutter (engine.ts 256-757).
THEOREM PromiseToTheApplication == Spec => ImplementsHost
<1>1. Init => Promised!Init
  BY HostInit
<1>2. Init => Errands
  BY InitErrands
<1>3. IInv /\ IInv' /\ Errands /\ [Next]_vars => Errands'
  BY ErrandsStep
<1>4. IInv /\ IInv' /\ Errands /\ [Next]_vars => [Promised!Next]_(Promised!vars)
  BY HostStep
<1> QED BY <1>1, <1>2, <1>3, <1>4, Invariance, PTL DEF Spec, ImplementsHost, Promised!Spec

=============================================================================
