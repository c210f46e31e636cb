-------------------------- MODULE CompositionProofs --------------------------
(***************************************************************************)
(* Proofs about Composition, for all drafts, names, kinds and bounds.      *)
(*                                                                         *)
(* That the committed composition is one is not inductive: what is         *)
(* committed was compiled long before, against a state of that time, and   *)
(* executed since.  It was sound when it was compiled, though, and stays   *)
(* so: records and groups are identities that never change.                *)
(***************************************************************************)
EXTENDS Composition, SequenceTheorems, TLAPS

Operations == [on : {"installation", "group"}, do : {"add", "update", "remove"},
               target : Nat, plugin : Plugins]
Declarations == UNION {[S -> Plugins] : S \in SUBSET Nat}
PlanRecords == [state : {"none", "compiling", "issued"}, base : Nat, ok : BOOLEAN,
                empty : BOOLEAN, new : SUBSET Nat, groups : SUBSET Nat,
                declarations : Declarations]

Types ==
    /\ records \in Seq([id : Names, group : Nat])
    /\ nodes \in Seq([id : Names, parent : Nat])
    /\ draft \in [Drafts -> [state : {"none", "open", "taken"},
                             operations : SUBSET Operations]]
    /\ plan \in [Drafts -> PlanRecords]
    /\ state \in [phase : {"stopped", "running", "quarantined"}, revision : Nat,
                  groups : SUBSET Nat, declarations : Declarations]
    /\ transition \in [intent : {"change", "start", "stop", "none"},
                       at : {"rest", "ingress", "preparing", "finally"}, plan : PlanRecords]
    /\ writer \in [phase : {"none", "staged", "committed", "discarded"}, pending : Plugins]
    /\ kind \in Plugins

\* Groups and declarations that could be committed, given all records and groups.
Sound(rs, ns, groups, D) ==
    /\ groups \subseteq 1 .. Len(ns) /\ DOMAIN D \subseteq 1 .. Len(rs)
    /\ \A g \in groups : ns[g].parent \in groups \union {Root}
    /\ \A r \in DOMAIN D : rs[r].group \in groups \union {Root}
    /\ \A a, b \in groups : ns[a].id = ns[b].id => a = b
    /\ \A a, b \in DOMAIN D : rs[a].id = rs[b].id => a = b

\* Operations are about records and groups that exist.
DraftsAreSound ==
    \A d \in Drafts : \A o \in draft[d].operations :
        o.target \in IF o.on = "group" THEN 1 .. Len(nodes) ELSE 1 .. Len(records)

OneKind(D) == \A k, l \in KindsOf(D) : k = l
Promising(p) == p.state = "issued" \/ (p.state = "compiling" /\ p.ok)

StateIsSound == Sound(records, nodes, state.groups, state.declarations)
PlansAreSound ==
    \A d \in Drafts : Promising(plan[d]) =>
        /\ Sound(records, nodes, plan[d].groups, plan[d].declarations)
        /\ OneKind(plan[d].declarations)
TargetIsSound ==
    transition.at # "rest" => Sound(records, nodes, Target.groups, Target.declarations)

\* The writer holds the kind of what it would commit.
WriterHolds ==
    transition.at \in {"ingress", "preparing"} /\ writer.phase = "staged" =>
        KindsOf(Target.declarations) \subseteq {writer.pending}
KindIsKnown == KindsOf(state.declarations) \subseteq {kind}

IInv == Types /\ DraftsAreSound /\ StateIsSound /\ PlansAreSound /\ TargetIsSound
        /\ WriterHolds /\ KindIsKnown

-----------------------------------------------------------------------------
\* What is sound stays so when records and groups are added.
LEMMA SoundGrows ==
    ASSUME NEW rs, NEW ns, NEW rt, NEW nt, NEW groups, NEW D,
           Len(rs) \in Nat, Len(ns) \in Nat, Len(rt) \in Nat, Len(nt) \in Nat,
           Len(rs) <= Len(rt), \A i \in 1 .. Len(rs) : rt[i] = rs[i],
           Len(ns) <= Len(nt), \A i \in 1 .. Len(ns) : nt[i] = ns[i],
           Sound(rs, ns, groups, D)
    PROVE  Sound(rt, nt, groups, D)
BY DEF Sound

\* Kinds and their like among declarations.
LEMMA KindFacts ==
    /\ NoKind \in Plugins
    /\ <<>> \in Declarations
    /\ \A D \in Declarations : /\ DOMAIN D \subseteq Nat
                               /\ KindsOf(D) \subseteq Plugins /\ NoKind \notin KindsOf(D)
                               /\ \A r \in DOMAIN D : D[r] \in Plugins
<1>1. NoKind \in Plugins
  BY DEF Plugins
<1>2. <<>> \in Declarations
  <2>1. <<>> \in [{} -> Plugins]
    OBVIOUS
  <2> QED BY <2>1 DEF Declarations
<1>3. ASSUME NEW D \in Declarations
      PROVE  /\ DOMAIN D \subseteq Nat
             /\ KindsOf(D) \subseteq Plugins /\ NoKind \notin KindsOf(D)
             /\ \A r \in DOMAIN D : D[r] \in Plugins
  <2>1. PICK S \in SUBSET Nat : D \in [S -> Plugins]
    BY DEF Declarations
  <2> QED BY <2>1 DEF KindsOf, Declared
<1> QED BY <1>1, <1>2, <1>3

LEMMA InitInvariant == Init => IInv
<1> SUFFICES ASSUME Init PROVE IInv
  OBVIOUS
<1>1. PICK n \in Names, p \in Plugins :
        /\ records = <<[id |-> n, group |-> 1]>>
        /\ nodes = <<[id |-> n, parent |-> Root]>>
        /\ state = [phase |-> "stopped", revision |-> 0, groups |-> {1}, declarations |-> <<p>>]
        /\ kind = p
  BY DEF Init
<1>2. <<p>> \in Declarations
  <2>1. <<p>> \in [{1} -> Plugins]
    OBVIOUS
  <2> QED BY <2>1 DEF Declarations
<1>3. NoPlan \in PlanRecords
  BY KindFacts DEF NoPlan, PlanRecords
<1>4. Types
  <2>1. records \in Seq([id : Names, group : Nat]) /\ nodes \in Seq([id : Names, parent : Nat])
    BY <1>1 DEF Root
  <2>2. transition \in [intent : {"change", "start", "stop", "none"},
                        at : {"rest", "ingress", "preparing", "finally"}, plan : PlanRecords]
    BY <1>3 DEF Init, Rest
  <2>3. writer \in [phase : {"none", "staged", "committed", "discarded"}, pending : Plugins]
    BY KindFacts DEF Init, NoWriter
  <2>4. state \in [phase : {"stopped", "running", "quarantined"}, revision : Nat,
                   groups : SUBSET Nat, declarations : Declarations]
    BY <1>1, <1>2
  <2>5. draft \in [Drafts -> [state : {"none", "open", "taken"}, operations : SUBSET Operations]]
    BY DEF Init, NoDraft
  <2>6. plan \in [Drafts -> PlanRecords] /\ kind \in Plugins
    BY <1>1, <1>3 DEF Init
  <2> QED BY <2>1, <2>2, <2>3, <2>4, <2>5, <2>6 DEF Types
<1>5. DraftsAreSound
  BY DEF Init, NoDraft, DraftsAreSound
<1>6. StateIsSound
  BY <1>1 DEF StateIsSound, Sound, Root
<1>7. PlansAreSound /\ TargetIsSound /\ WriterHolds
  BY DEF Init, NoPlan, Rest, NoWriter, PlansAreSound, Promising, TargetIsSound, WriterHolds
<1>8. KindIsKnown
  BY <1>1 DEF KindIsKnown, KindsOf, Declared
<1> QED BY <1>4, <1>5, <1>6, <1>7, <1>8 DEF IInv

-----------------------------------------------------------------------------
(* Drafts.                                                                 *)

\* A draft is staged or begun, and nothing else but records and groups is new.
LEMMA DraftStep ==
    ASSUME IInv, Types', DraftsAreSound',
           Len(records) <= Len(records'), \A i \in 1 .. Len(records) : records'[i] = records[i],
           Len(nodes) <= Len(nodes'), \A i \in 1 .. Len(nodes) : nodes'[i] = nodes[i],
           UNCHANGED <<plan, state, transition, writer, kind>>
    PROVE  IInv'
<1>1. /\ Len(records) \in Nat /\ Len(records') \in Nat
      /\ Len(nodes) \in Nat /\ Len(nodes') \in Nat
  BY DEF IInv, Types
<1>2. StateIsSound'
  BY <1>1, SoundGrows DEF IInv, StateIsSound
<1>3. PlansAreSound'
  BY <1>1, SoundGrows DEF IInv, PlansAreSound
<1>4. TargetIsSound'
  BY <1>1, SoundGrows DEF IInv, TargetIsSound, Target
<1>5. WriterHolds' /\ KindIsKnown'
  BY DEF IInv, WriterHolds, KindIsKnown, Target, KindsOf, Declared
<1> QED BY <1>2, <1>3, <1>4, <1>5 DEF IInv

LEMMA ChangeStep ==
    ASSUME IInv, NEW d \in Drafts, Change(d)
    PROVE  IInv'
<1>1. Types'
  BY DEF Change, IInv, Types, NoDraft, handleVars
<1>2. DraftsAreSound'
  BY DEF Change, IInv, Types, DraftsAreSound, NoDraft, handleVars
<1>3. Len(records) \in Nat /\ Len(nodes) \in Nat
  BY DEF IInv, Types
<1> QED BY <1>1, <1>2, <1>3, DraftStep DEF Change, handleVars

\* An operation of the right shape keeps the drafts what they are.
LEMMA StageDrafts ==
    ASSUME IInv, NEW d \in Drafts, NEW operation \in Operations, Stage(d, operation),
           Len(records') \in Nat, Len(nodes') \in Nat,
           Len(records) <= Len(records'), Len(nodes) <= Len(nodes'),
           operation.target \in IF operation.on = "group" THEN 1 .. Len(nodes')
                                ELSE 1 .. Len(records')
    PROVE  /\ draft' \in [Drafts -> [state : {"none", "open", "taken"},
                                     operations : SUBSET Operations]]
           /\ DraftsAreSound'
<1>1. draft' = [draft EXCEPT ![d].operations = @ \union {operation}]
  BY DEF Stage
<1>2. draft \in [Drafts -> [state : {"none", "open", "taken"}, operations : SUBSET Operations]]
      /\ Len(records) \in Nat /\ Len(nodes) \in Nat
  BY DEF IInv, Types
<1>3. draft' \in [Drafts -> [state : {"none", "open", "taken"}, operations : SUBSET Operations]]
  BY <1>1, <1>2
<1>4. ASSUME NEW e \in Drafts, NEW o \in draft'[e].operations
      PROVE  o.target \in IF o.on = "group" THEN 1 .. Len(nodes') ELSE 1 .. Len(records')
  <2>1. o \in draft[e].operations \/ o = operation
    BY <1>1, <1>2
  <2>2. CASE o = operation
    BY <2>2
  <2>3. CASE o \in draft[e].operations
    <3>1. o.target \in IF o.on = "group" THEN 1 .. Len(nodes) ELSE 1 .. Len(records)
      BY <2>3 DEF IInv, DraftsAreSound
    <3> QED BY <3>1, <1>2
  <2> QED BY <2>1, <2>2, <2>3
<1> QED BY <1>3, <1>4 DEF DraftsAreSound

LEMMA InstallStep ==
    ASSUME IInv, NEW d \in Drafts, NEW n \in Names, NEW g \in Groups \union {Root},
           NEW p \in Plugins, Install(d, n, g, p)
    PROVE  IInv'
<1> DEFINE new == [id |-> n, group |-> g]
           operation == Operation("installation", "add", Len(records) + 1, p)
<1>1. records \in Seq([id : Names, group : Nat]) /\ Len(records) \in Nat
      /\ Len(nodes) \in Nat
  BY DEF IInv, Types
<1>2. new \in [id : Names, group : Nat]
  BY <1>1 DEF Groups, Root
<1>3. records' = Append(records, new) /\ nodes' = nodes
  BY DEF Install
<1>4. /\ records' \in Seq([id : Names, group : Nat])
      /\ Len(records') = Len(records) + 1
      /\ \A i \in 1 .. Len(records) : records'[i] = records[i]
  BY <1>1, <1>2, <1>3, AppendProperties
<1>5. operation \in Operations /\ operation.on = "installation"
      /\ operation.target = Len(records) + 1
  BY <1>1 DEF Operation, Operations
<1>6. Stage(d, operation)
  BY DEF Install
<1> HIDE DEF operation, new
<1>7. operation.target \in IF operation.on = "group" THEN 1 .. Len(nodes') ELSE 1 .. Len(records')
  BY <1>1, <1>4, <1>5
<1>8. /\ draft' \in [Drafts -> [state : {"none", "open", "taken"},
                                operations : SUBSET Operations]]
      /\ DraftsAreSound'
  <2>1. Len(records') \in Nat /\ Len(nodes') \in Nat /\ Len(records) <= Len(records')
        /\ Len(nodes) <= Len(nodes')
    BY <1>1, <1>3, <1>4
  <2> QED BY <1>5, <1>6, <1>7, <2>1, StageDrafts
<1>9. UNCHANGED <<nodes, plan, state, transition, writer, kind>>
  BY DEF Install
<1>10. Types'
  BY <1>4, <1>8, <1>9 DEF IInv, Types
<1> QED BY <1>1, <1>4, <1>8, <1>9, <1>10, DraftStep

LEMMA GroupStep ==
    ASSUME IInv, NEW d \in Drafts, NEW n \in Names, NEW g \in Groups \union {Root},
           Group(d, n, g)
    PROVE  IInv'
<1> DEFINE new == [id |-> n, parent |-> g]
           operation == Operation("group", "add", Len(nodes) + 1, NoKind)
<1>1. nodes \in Seq([id : Names, parent : Nat]) /\ Len(nodes) \in Nat
      /\ Len(records) \in Nat
  BY DEF IInv, Types
<1>2. new \in [id : Names, parent : Nat]
  BY <1>1 DEF Groups, Root
<1>3. nodes' = Append(nodes, new) /\ records' = records
  BY DEF Group
<1>4. /\ nodes' \in Seq([id : Names, parent : Nat])
      /\ Len(nodes') = Len(nodes) + 1
      /\ \A i \in 1 .. Len(nodes) : nodes'[i] = nodes[i]
  BY <1>1, <1>2, <1>3, AppendProperties
<1>5. operation \in Operations /\ operation.on = "group" /\ operation.target = Len(nodes) + 1
  BY <1>1, KindFacts DEF Operation, Operations
<1>6. Stage(d, operation)
  BY DEF Group
<1> HIDE DEF operation, new
<1>7. operation.target \in IF operation.on = "group" THEN 1 .. Len(nodes') ELSE 1 .. Len(records')
  BY <1>1, <1>4, <1>5
<1>8. /\ draft' \in [Drafts -> [state : {"none", "open", "taken"},
                                operations : SUBSET Operations]]
      /\ DraftsAreSound'
  <2>1. Len(records') \in Nat /\ Len(nodes') \in Nat /\ Len(records) <= Len(records')
        /\ Len(nodes) <= Len(nodes')
    BY <1>1, <1>3, <1>4
  <2> QED BY <1>5, <1>6, <1>7, <2>1, StageDrafts
<1>9. UNCHANGED <<records, plan, state, transition, writer, kind>>
  BY DEF Group
<1>10. Types'
  BY <1>4, <1>8, <1>9 DEF IInv, Types
<1> QED BY <1>1, <1>4, <1>8, <1>9, <1>10, DraftStep

\* What is staged for something that exists adds neither record nor group.
LEMMA StageStep ==
    ASSUME IInv, NEW d \in Drafts, NEW operation \in Operations, Stage(d, operation),
           operation.target \in IF operation.on = "group" THEN Groups ELSE Installations,
           UNCHANGED <<records, nodes, plan, state, transition, writer, kind>>
    PROVE  IInv'
<1>1. Len(records) \in Nat /\ Len(nodes) \in Nat
  BY DEF IInv, Types
<1>2. /\ draft' \in [Drafts -> [state : {"none", "open", "taken"},
                                operations : SUBSET Operations]]
      /\ DraftsAreSound'
  BY <1>1, StageDrafts DEF Groups, Installations
<1>3. Types'
  BY <1>2 DEF IInv, Types
<1> QED BY <1>1, <1>2, <1>3, DraftStep

LEMMA UpdateStep ==
    ASSUME IInv, NEW d \in Drafts, NEW r \in Installations, NEW p \in Plugins, Update(d, r, p)
    PROVE  IInv'
<1>1. Operation("installation", "update", r, p) \in Operations
      /\ Operation("installation", "update", r, p).on = "installation"
      /\ Operation("installation", "update", r, p).target = r
  BY DEF Operation, Operations, Installations
<1> QED BY <1>1, StageStep DEF Update

LEMMA RemoveStep ==
    ASSUME IInv, NEW d \in Drafts, NEW r \in Installations, Remove(d, r)
    PROVE  IInv'
<1>1. Operation("installation", "remove", r, NoKind) \in Operations
      /\ Operation("installation", "remove", r, NoKind).on = "installation"
      /\ Operation("installation", "remove", r, NoKind).target = r
  BY KindFacts DEF Operation, Operations, Installations
<1> QED BY <1>1, StageStep DEF Remove

LEMMA RemoveGroupStep ==
    ASSUME IInv, NEW d \in Drafts, NEW g \in Groups, RemoveGroup(d, g)
    PROVE  IInv'
<1>1. Operation("group", "remove", g, NoKind) \in Operations
      /\ Operation("group", "remove", g, NoKind).on = "group"
      /\ Operation("group", "remove", g, NoKind).target = g
  BY KindFacts DEF Operation, Operations, Groups
<1> QED BY <1>1, StageStep DEF RemoveGroup

-----------------------------------------------------------------------------
(* The planner.                                                            *)

\* Targets of a draft exist.
LEMMA TargetFacts ==
    ASSUME IInv, NEW d \in Drafts, NEW do
    PROVE  /\ Targets(d, "group", do) \subseteq Groups
           /\ Targets(d, "installation", do) \subseteq Installations
BY DEF Targets, IInv, DraftsAreSound, Groups, Installations

\* The planner accepts only what is sound and has one kind.
LEMMA CompiledIsSound ==
    ASSUME IInv, NEW d \in Drafts
    PROVE  LET c == Compiled(d)
           IN  /\ c.ok \in BOOLEAN /\ c.groups \in SUBSET Nat /\ c.declarations \in Declarations
               /\ c.ok => Sound(records, nodes, c.groups, c.declarations)
                          /\ OneKind(c.declarations)
<1> DEFINE created == Targets(d, "group", "add")
           removed == Targets(d, "group", "remove")
           installed == Installed(d)
           updated == Targets(d, "installation", "update")
           dropped == Targets(d, "installation", "remove")
           before == Declared(state.declarations)
           doomed == Doomed(state.groups \union created, removed)
           kept == (before \union installed) \ dropped
           lost == {r \in kept : records[r].group \in doomed}
           plugin(r) == CHOOSE p \in Plugins :
                          IF r \in installed \union updated
                          THEN \E o \in draft[d].operations :
                                 o.on = "installation" /\ o.target = r /\ o.plugin = p
                          ELSE p = state.declarations[r]
           groups == (state.groups \union created) \ doomed
           declarations == [r \in kept \ lost |-> plugin(r)]
           accepted == /\ Distinct(nodes, state.groups \union created)
                       /\ Distinct(records, before \union installed)
                       /\ updated \union dropped \subseteq before
                       /\ removed \union doomed \subseteq state.groups
                       /\ lost \intersect (installed \union updated) = {}
           ok == /\ Closed(groups, declarations)
                 /\ \A k, l \in KindsOf(declarations) : k = l
                 /\ \A k \in KindsOf(declarations) : Compatible(k, kind)
           compiled == [ok |-> ok, groups |-> groups, declarations |-> declarations]
           refused == [ok |-> FALSE, groups |-> {}, declarations |-> <<>>]
<1>1. Compiled(d) = IF accepted THEN compiled ELSE refused
  BY DEF Compiled
<1>2. /\ created \subseteq Groups /\ installed \subseteq Installations
      /\ updated \subseteq Installations
      /\ before \subseteq Installations /\ state.groups \subseteq Groups
  BY TargetFacts DEF Installed, IInv, StateIsSound, Sound, Declared, Groups, Installations
<1>3. /\ groups \subseteq Groups /\ kept \ lost \subseteq Installations
      /\ Groups \subseteq Nat /\ Installations \subseteq Nat
  <2>1. groups \subseteq Groups /\ kept \ lost \subseteq Installations
    BY <1>2
  <2>2. Groups \subseteq Nat /\ Installations \subseteq Nat
    BY DEF Groups, Installations
  <2> QED BY <2>1, <2>2
<1>4. ASSUME NEW r \in kept \ lost PROVE plugin(r) \in Plugins
  <2>1. CASE r \in installed \union updated
    <3>1. PICK o \in draft[d].operations : o.on = "installation" /\ o.target = r
      BY <2>1 DEF Installed, Targets
    <3>2. o.plugin \in Plugins
      BY DEF IInv, Types, Operations
    <3> QED BY <2>1, <3>1, <3>2
  <2>2. CASE r \notin installed \union updated
    <3>1. r \in before
      BY <2>2
    <3>2. state.declarations[r] \in Plugins
      BY <3>1, KindFacts DEF IInv, Types, Declared
    <3> QED BY <2>2, <3>2
  <2> QED BY <2>1, <2>2
<1>5. declarations \in Declarations
  <2>1. declarations \in [kept \ lost -> Plugins]
    BY <1>4
  <2> HIDE DEF declarations, kept, lost
  <2>2. kept \ lost \in SUBSET Nat
    BY <1>3
  <2> QED BY <2>1, <2>2 DEF Declarations
<1>6. DOMAIN declarations = kept \ lost /\ Declared(declarations) = kept \ lost
  BY DEF Declared
<1>7. ASSUME accepted, ok PROVE Sound(records, nodes, groups, declarations)
  <2>1. kept \ lost \subseteq before \union installed
    OBVIOUS
  <2>2. groups \subseteq state.groups \union created
    OBVIOUS
  <2>3. Distinct(nodes, groups) /\ Distinct(records, kept \ lost)
    BY <1>7, <2>1, <2>2 DEF Distinct
  <2> HIDE DEF groups, declarations, kept, lost
  <2> QED BY <1>3, <1>6, <1>7, <2>3 DEF Sound, Closed, Distinct, Groups, Installations
<1>8. CASE accepted
  <2>1. Compiled(d) = compiled
    BY <1>1, <1>8
  <2>2. ok => OneKind(declarations)
    BY DEF OneKind
  <2> HIDE DEF groups, declarations, accepted
  <2>3. ok \in BOOLEAN
    BY DEF Closed
  <2>4. groups \in SUBSET Nat
    BY <1>3
  <2> HIDE DEF ok
  <2> QED BY <2>1, <2>2, <2>3, <2>4, <1>5, <1>7, <1>8
<1>9. CASE ~accepted
  <2>1. Compiled(d) = refused
    BY <1>1, <1>9
  <2> QED BY <2>1, KindFacts
<1> QED BY <1>8, <1>9

LEMMA PlanStep ==
    ASSUME IInv, NEW d \in Drafts, Plan(d)
    PROVE  IInv'
<1> DEFINE c == Compiled(d)
           new == [state |-> "compiling", base |-> state.revision, ok |-> c.ok,
                   empty |-> draft[d].operations = {}, new |-> Installed(d),
                   groups |-> c.groups, declarations |-> c.declarations]
<1>1. /\ draft' = [draft EXCEPT ![d] = [state |-> "taken", operations |-> {}]]
      /\ plan' = [plan EXCEPT ![d] = new]
      /\ UNCHANGED <<records, nodes, state, transition, writer, kind>>
  BY DEF Plan
<1>2. /\ c.ok \in BOOLEAN /\ c.groups \in SUBSET Nat /\ c.declarations \in Declarations
      /\ c.ok => Sound(records, nodes, c.groups, c.declarations) /\ OneKind(c.declarations)
  BY CompiledIsSound
<1> HIDE DEF c
<1>3. state.revision \in Nat
  BY DEF IInv, Types
<1>4. Installed(d) \in SUBSET Nat
  BY TargetFacts DEF Installed, Installations
<1>5. new \in PlanRecords /\ new.state = "compiling" /\ new.ok = c.ok
      /\ new.groups = c.groups /\ new.declarations = c.declarations
  BY <1>2, <1>3, <1>4 DEF PlanRecords
<1> HIDE DEF new
<1>6. Types'
  BY <1>1, <1>5 DEF IInv, Types
<1>7. DraftsAreSound'
  BY <1>1 DEF IInv, Types, DraftsAreSound
<1>8. PlansAreSound'
  <2> SUFFICES ASSUME NEW e \in Drafts, Promising(plan'[e])
               PROVE  Sound(records, nodes, plan'[e].groups, plan'[e].declarations)
                      /\ OneKind(plan'[e].declarations)
    BY <1>1 DEF PlansAreSound
  <2>1. CASE e = d
    <3>1. plan'[e] = new
      BY <1>1, <2>1 DEF IInv, Types
    <3> QED BY <3>1, <1>2, <1>5 DEF Promising
  <2>2. CASE e # d
    <3>1. plan'[e] = plan[e]
      BY <1>1, <2>2 DEF IInv, Types
    <3> QED BY <3>1 DEF IInv, PlansAreSound
  <2> QED BY <2>1, <2>2
<1>9. StateIsSound' /\ TargetIsSound' /\ WriterHolds' /\ KindIsKnown'
  BY <1>1 DEF IInv, StateIsSound, TargetIsSound, WriterHolds, KindIsKnown, Target, KindsOf, Declared
<1> QED BY <1>6, <1>7, <1>8, <1>9 DEF IInv

-----------------------------------------------------------------------------
(* Plans.                                                                  *)

\* A plan that is dropped takes nothing with it.
LEMMA DropStep ==
    ASSUME IInv, NEW d \in Drafts, plan' = [plan EXCEPT ![d] = NoPlan],
           UNCHANGED <<records, nodes, draft, state, transition, writer, kind>>
    PROVE  IInv'
<1>1. NoPlan \in PlanRecords /\ ~Promising(NoPlan)
  BY KindFacts DEF NoPlan, PlanRecords, Promising
<1>2. Types'
  BY <1>1 DEF IInv, Types
<1>3. PlansAreSound'
  BY <1>1 DEF IInv, Types, PlansAreSound
<1>4. DraftsAreSound' /\ StateIsSound' /\ TargetIsSound' /\ WriterHolds' /\ KindIsKnown'
  BY DEF IInv, DraftsAreSound, StateIsSound, TargetIsSound, WriterHolds, KindIsKnown,
         Target, KindsOf, Declared
<1> QED BY <1>2, <1>3, <1>4 DEF IInv

LEMMA PlanIssuedStep ==
    ASSUME IInv, NEW d \in Drafts, PlanIssued(d)
    PROVE  IInv'
<1>1. /\ plan' = [plan EXCEPT ![d].state = "issued"]
      /\ plan[d].state = "compiling" /\ plan[d].ok
      /\ UNCHANGED <<records, nodes, draft, state, transition, writer, kind>>
  BY DEF PlanIssued, StillTrue
<1>2. plan \in [Drafts -> PlanRecords]
  BY DEF IInv, Types
<1>3. plan' \in [Drafts -> PlanRecords]
  BY <1>1, <1>2 DEF PlanRecords
<1>4. Types'
  BY <1>1, <1>3 DEF IInv, Types
<1>5. PlansAreSound'
  <2> SUFFICES ASSUME NEW e \in Drafts, Promising(plan'[e])
               PROVE  Sound(records, nodes, plan'[e].groups, plan'[e].declarations)
                      /\ OneKind(plan'[e].declarations)
    BY <1>1 DEF PlansAreSound
  <2>1. plan'[e].groups = plan[e].groups /\ plan'[e].declarations = plan[e].declarations
    BY <1>1, <1>2 DEF PlanRecords
  <2>2. Promising(plan[e])
    BY <1>1, <1>2 DEF Promising
  <2> QED BY <2>1, <2>2 DEF IInv, PlansAreSound
<1>6. DraftsAreSound' /\ StateIsSound' /\ TargetIsSound' /\ WriterHolds' /\ KindIsKnown'
  BY <1>1 DEF IInv, DraftsAreSound, StateIsSound, TargetIsSound, WriterHolds, KindIsKnown,
              Target, KindsOf, Declared
<1> QED BY <1>4, <1>5, <1>6 DEF IInv

-----------------------------------------------------------------------------
(* Contract kinds.                                                         *)

LEMMA ClaimStep ==
    ASSUME IInv, NEW k \in Kinds, Claim(k)
    PROVE  IInv'
<1>1. kind = NoKind /\ kind' = k
      /\ UNCHANGED <<records, nodes, draft, plan, state, transition, writer>>
  BY DEF Claim
<1>2. Types'
  BY <1>1 DEF IInv, Types, Plugins
<1>3. KindsOf(state.declarations) = {}
  <2>1. state.declarations \in Declarations
    BY DEF IInv, Types
  <2>2. NoKind \notin KindsOf(state.declarations)
    BY <2>1, KindFacts
  <2> QED BY <1>1, <2>2 DEF IInv, KindIsKnown
<1>4. KindIsKnown'
  BY <1>1, <1>3 DEF KindIsKnown, KindsOf, Declared
<1>5. DraftsAreSound' /\ StateIsSound' /\ PlansAreSound' /\ TargetIsSound' /\ WriterHolds'
  BY <1>1 DEF IInv, DraftsAreSound, StateIsSound, PlansAreSound, TargetIsSound, WriterHolds,
              Target, KindsOf, Declared
<1> QED BY <1>2, <1>4, <1>5 DEF IInv

LEMMA CandidateClaimsStep ==
    ASSUME IInv, NEW k \in Kinds, CandidateClaims(k)
    PROVE  IInv'
<1>1. /\ transition.at = "preparing" /\ writer.phase = "staged" /\ writer.pending = NoKind
      /\ writer' = [writer EXCEPT !.pending = k]
      /\ UNCHANGED <<records, nodes, draft, plan, state, transition, kind>>
  BY DEF CandidateClaims
<1>2. Types'
  BY <1>1 DEF IInv, Types, Plugins
<1>3. KindsOf(Target.declarations) = {}
  <2>1. Target.declarations \in Declarations
    BY DEF IInv, Types, Target, PlanRecords
  <2>2. NoKind \notin KindsOf(Target.declarations)
    BY <2>1, KindFacts
  <2> QED BY <1>1, <2>2 DEF IInv, WriterHolds
<1>4. WriterHolds'
  BY <1>1, <1>3 DEF WriterHolds, Target, KindsOf, Declared
<1>5. DraftsAreSound' /\ StateIsSound' /\ PlansAreSound' /\ TargetIsSound' /\ KindIsKnown'
  BY <1>1 DEF IInv, DraftsAreSound, StateIsSound, PlansAreSound, TargetIsSound, KindIsKnown,
              Target, KindsOf, Declared
<1> QED BY <1>2, <1>4, <1>5 DEF IInv

-----------------------------------------------------------------------------
(* Transitions.                                                            *)

\* A writer holds the one kind it is given.
LEMMA StagedHolds ==
    ASSUME NEW D \in Declarations, OneKind(D)
    PROVE  /\ Staged(D) \in [phase : {"none", "staged", "committed", "discarded"},
                             pending : Plugins]
           /\ KindsOf(D) \subseteq {Staged(D).pending}
<1>1. \E k \in Plugins : KindsOf(D) \subseteq {k} /\ (k = NoKind \/ k \in KindsOf(D))
  <2>1. CASE KindsOf(D) = {}
    BY <2>1, KindFacts
  <2>2. CASE KindsOf(D) # {}
    BY <2>2, KindFacts DEF OneKind
  <2> QED BY <2>1, <2>2
<1> DEFINE p == CHOOSE k \in Plugins : KindsOf(D) \subseteq {k} /\ (k = NoKind \/ k \in KindsOf(D))
<1>2. p \in Plugins /\ KindsOf(D) \subseteq {p}
  BY <1>1
<1>3. Staged(D) = [phase |-> "staged", pending |-> p]
  BY DEF Staged
<1> HIDE DEF p
<1> QED BY <1>2, <1>3

LEMMA ApplyStep ==
    ASSUME IInv, NEW d \in Drafts, Apply(d)
    PROVE  IInv'
<1> DEFINE t == [intent |-> "change", at |-> "ingress", plan |-> plan[d]]
<1>1. /\ plan[d].state = "issued"
      /\ plan' = [plan EXCEPT ![d] = NoPlan]
      /\ transition' = t /\ writer' = Staged(plan[d].declarations)
      /\ UNCHANGED <<records, nodes, draft, state, kind>>
  BY DEF Apply, Usable
<1>2. plan \in [Drafts -> PlanRecords] /\ plan[d].declarations \in Declarations
  BY DEF IInv, Types, PlanRecords
<1>3. /\ Sound(records, nodes, plan[d].groups, plan[d].declarations)
      /\ OneKind(plan[d].declarations)
  BY <1>1 DEF IInv, PlansAreSound, Promising
<1>4. NoPlan \in PlanRecords /\ ~Promising(NoPlan)
  BY KindFacts DEF NoPlan, PlanRecords, Promising
<1>5. t \in [intent : {"change", "start", "stop", "none"},
            at : {"rest", "ingress", "preparing", "finally"}, plan : PlanRecords]
      /\ t.plan = plan[d]
  BY <1>2
<1> HIDE DEF t
<1>6. Types'
  <2>1. plan' \in [Drafts -> PlanRecords]
    BY <1>1, <1>2, <1>4
  <2> QED BY <1>1, <1>2, <1>3, <1>5, <2>1, StagedHolds DEF IInv, Types
<1>7. PlansAreSound'
  BY <1>1, <1>2, <1>4 DEF IInv, PlansAreSound
<1>8. TargetIsSound'
  BY <1>1, <1>3, <1>5 DEF TargetIsSound, Target
<1>9. WriterHolds'
  <2>1. KindsOf(plan[d].declarations) \subseteq {Staged(plan[d].declarations).pending}
    BY <1>2, <1>3, StagedHolds
  <2> QED BY <1>1, <1>5, <2>1 DEF WriterHolds, Target, KindsOf, Declared
<1>10. DraftsAreSound' /\ StateIsSound' /\ KindIsKnown'
  BY <1>1 DEF IInv, DraftsAreSound, StateIsSound, KindIsKnown, KindsOf, Declared
<1> QED BY <1>6, <1>7, <1>8, <1>9, <1>10 DEF IInv

LEMMA LifecycleStep ==
    ASSUME IInv, NEW intent \in {"start", "stop"}, Lifecycle(intent)
    PROVE  IInv'
<1> DEFINE p == [NoPlan EXCEPT !.base = state.revision, !.groups = state.groups,
                               !.declarations = state.declarations]
           t == [intent |-> intent, at |-> "ingress", plan |-> p]
<1>1. /\ transition' = t /\ writer' = Staged(state.declarations)
      /\ UNCHANGED <<records, nodes, draft, plan, state, kind>>
  BY DEF Lifecycle
<1>2. state.declarations \in Declarations /\ state.groups \in SUBSET Nat /\ state.revision \in Nat
  BY DEF IInv, Types
<1>3. p \in PlanRecords /\ p.groups = state.groups /\ p.declarations = state.declarations
  BY <1>2 DEF PlanRecords, NoPlan
<1>4. t \in [intent : {"change", "start", "stop", "none"},
            at : {"rest", "ingress", "preparing", "finally"}, plan : PlanRecords]
      /\ t.plan = p
  BY <1>3
<1> HIDE DEF p, t
<1>5. OneKind(state.declarations)
  BY DEF IInv, KindIsKnown, OneKind
<1>6. Types'
  BY <1>1, <1>2, <1>4, <1>5, StagedHolds DEF IInv, Types
<1>7. TargetIsSound'
  BY <1>1, <1>3, <1>4 DEF IInv, StateIsSound, TargetIsSound, Target
<1>8. WriterHolds'
  <2>1. KindsOf(state.declarations) \subseteq {Staged(state.declarations).pending}
    BY <1>2, <1>5, StagedHolds
  <2> QED BY <1>1, <1>3, <1>4, <2>1 DEF WriterHolds, Target, KindsOf, Declared
<1>9. DraftsAreSound' /\ StateIsSound' /\ PlansAreSound' /\ KindIsKnown'
  BY <1>1 DEF IInv, DraftsAreSound, StateIsSound, PlansAreSound, KindIsKnown, KindsOf, Declared
<1> QED BY <1>6, <1>7, <1>8, <1>9 DEF IInv

\* A transition goes on with what it has, or ends.
LEMMA ContinueStep ==
    ASSUME IInv, NEW at \in {"preparing", "finally"}, Executing,
           transition' = [transition EXCEPT !.at = at],
           at = "preparing" => transition.at = "ingress",
           state'.groups = state.groups, state'.declarations = state.declarations,
           state' \in [phase : {"stopped", "running", "quarantined"}, revision : Nat,
                       groups : SUBSET Nat, declarations : Declarations],
           writer' \in [phase : {"none", "staged", "committed", "discarded"}, pending : Plugins],
           at = "preparing" => writer' = writer,
           UNCHANGED <<records, nodes, draft, plan, kind>>
    PROVE  IInv'
<1>1. transition \in [intent : {"change", "start", "stop", "none"},
                      at : {"rest", "ingress", "preparing", "finally"}, plan : PlanRecords]
  BY DEF IInv, Types
<1>2. /\ transition' \in [intent : {"change", "start", "stop", "none"},
                          at : {"rest", "ingress", "preparing", "finally"}, plan : PlanRecords]
      /\ transition'.plan = transition.plan /\ transition'.at = at
  BY <1>1
<1>3. Types'
  BY <1>2 DEF IInv, Types
<1>4. TargetIsSound'
  BY <1>2 DEF IInv, TargetIsSound, Target, Executing
<1>5. WriterHolds'
  BY <1>2 DEF IInv, WriterHolds, Target, KindsOf, Declared
<1>6. DraftsAreSound' /\ StateIsSound' /\ PlansAreSound' /\ KindIsKnown'
  BY DEF IInv, DraftsAreSound, StateIsSound, PlansAreSound, KindIsKnown, KindsOf, Declared
<1> QED BY <1>3, <1>4, <1>5, <1>6 DEF IInv

LEMMA CommitsStep ==
    ASSUME IInv, Commits
    PROVE  IInv'
<1> DEFINE phase == IF transition.intent = "start" THEN "running"
                    ELSE IF transition.intent = "stop" THEN "stopped" ELSE state.phase
           s == [phase |-> phase, revision |-> state.revision + 1,
                 groups |-> Target.groups, declarations |-> Target.declarations]
<1>1. /\ transition.at \in {"ingress", "preparing"}
      /\ writer.phase = "staged" /\ Compatible(writer.pending, kind)
      /\ kind' = IF writer.pending = NoKind THEN kind ELSE writer.pending
      /\ state' = s
      /\ transition' = [transition EXCEPT !.at = "finally"]
      /\ writer' = [writer EXCEPT !.phase = "committed"]
      /\ UNCHANGED <<records, nodes, draft, plan>>
  BY DEF Commits, WriterCommits, Committable
<1>2. Target.groups \in SUBSET Nat /\ Target.declarations \in Declarations
      /\ state.revision \in Nat /\ phase \in {"stopped", "running", "quarantined"}
  BY DEF IInv, Types, Target, PlanRecords
<1> HIDE DEF phase
<1>3. s \in [phase : {"stopped", "running", "quarantined"}, revision : Nat,
            groups : SUBSET Nat, declarations : Declarations]
      /\ s.groups = Target.groups /\ s.declarations = Target.declarations
  BY <1>2
<1> HIDE DEF s
<1>4. transition' \in [intent : {"change", "start", "stop", "none"},
                       at : {"rest", "ingress", "preparing", "finally"}, plan : PlanRecords]
      /\ transition'.plan = transition.plan /\ transition'.at = "finally"
  BY <1>1 DEF IInv, Types
<1>5. writer' \in [phase : {"none", "staged", "committed", "discarded"}, pending : Plugins]
      /\ kind' \in Plugins
  BY <1>1 DEF IInv, Types
<1>6. Types'
  BY <1>1, <1>3, <1>4, <1>5 DEF IInv, Types
<1>7. Sound(records, nodes, Target.groups, Target.declarations)
  BY <1>1 DEF IInv, TargetIsSound
<1>8. StateIsSound' /\ TargetIsSound'
  BY <1>1, <1>3, <1>4, <1>7 DEF StateIsSound, TargetIsSound, Target
<1>9. WriterHolds'
  BY <1>4 DEF WriterHolds
<1>10. KindIsKnown'
  <2>1. KindsOf(Target.declarations) \subseteq {writer.pending}
        /\ NoKind \notin KindsOf(Target.declarations)
    BY <1>1, <1>2, KindFacts DEF IInv, WriterHolds
  <2>2. KindsOf(Target.declarations) \subseteq {kind'}
    BY <1>1, <2>1
  <2> QED BY <1>1, <1>3, <2>2 DEF KindIsKnown, KindsOf, Declared
<1>11. DraftsAreSound' /\ PlansAreSound'
  BY <1>1 DEF IInv, DraftsAreSound, PlansAreSound
<1> QED BY <1>6, <1>8, <1>9, <1>10, <1>11 DEF IInv

LEMMA QuarantineStep ==
    ASSUME IInv, Quarantine
    PROVE  IInv'
<1>1. /\ state' = [state EXCEPT !.phase = "quarantined", !.revision = @ + 1]
      /\ UNCHANGED <<records, nodes, draft, plan, transition, writer, kind>>
  BY DEF Quarantine
<1>2. state' \in [phase : {"stopped", "running", "quarantined"}, revision : Nat,
                  groups : SUBSET Nat, declarations : Declarations]
      /\ state'.groups = state.groups /\ state'.declarations = state.declarations
  <2>1. state \in [phase : {"stopped", "running", "quarantined"}, revision : Nat,
                   groups : SUBSET Nat, declarations : Declarations]
    BY DEF IInv, Types
  <2>2. state' = [phase |-> "quarantined", revision |-> state.revision + 1,
                  groups |-> state.groups, declarations |-> state.declarations]
    BY <1>1, <2>1
  <2> QED BY <2>1, <2>2
<1>3. Types'
  BY <1>1, <1>2 DEF IInv, Types
<1>4. DraftsAreSound' /\ StateIsSound' /\ PlansAreSound' /\ TargetIsSound' /\ WriterHolds'
      /\ KindIsKnown'
  BY <1>1, <1>2 DEF IInv, DraftsAreSound, StateIsSound, PlansAreSound, TargetIsSound,
                    WriterHolds, KindIsKnown, Target, KindsOf, Declared
<1> QED BY <1>3, <1>4 DEF IInv

LEMMA EndsStep ==
    ASSUME IInv, Ends
    PROVE  IInv'
<1>1. transition' = Rest /\ writer' = NoWriter
      /\ UNCHANGED <<records, nodes, draft, plan, state, kind>>
  BY DEF Ends
<1>2. NoPlan \in PlanRecords
  BY KindFacts DEF NoPlan, PlanRecords
<1>3. /\ transition' \in [intent : {"change", "start", "stop", "none"},
                          at : {"rest", "ingress", "preparing", "finally"}, plan : PlanRecords]
      /\ transition'.at = "rest"
      /\ writer' \in [phase : {"none", "staged", "committed", "discarded"}, pending : Plugins]
  BY <1>1, <1>2, KindFacts DEF Rest, NoWriter
<1>4. Types'
  BY <1>1, <1>3 DEF IInv, Types
<1>5. DraftsAreSound' /\ StateIsSound' /\ PlansAreSound' /\ TargetIsSound' /\ WriterHolds'
      /\ KindIsKnown'
  BY <1>1, <1>3 DEF IInv, DraftsAreSound, StateIsSound, PlansAreSound, TargetIsSound,
                    WriterHolds, KindIsKnown, KindsOf, Declared
<1> QED BY <1>4, <1>5 DEF IInv

LEMMA PreparesStep ==
    ASSUME IInv, Prepares
    PROVE  IInv'
<1>1. /\ transition.at = "ingress" /\ transition' = [transition EXCEPT !.at = "preparing"]
      /\ UNCHANGED <<records, nodes, draft, plan, state, writer, kind>>
  BY DEF Prepares
<1>2. state' \in [phase : {"stopped", "running", "quarantined"}, revision : Nat,
                  groups : SUBSET Nat, declarations : Declarations]
      /\ writer' \in [phase : {"none", "staged", "committed", "discarded"}, pending : Plugins]
  BY <1>1 DEF IInv, Types
<1> QED BY <1>1, <1>2, ContinueStep DEF Executing

LEMMA DirectFailsStep ==
    ASSUME IInv, DirectFails
    PROVE  IInv'
<1>1. /\ transition.at = "ingress" /\ transition' = [transition EXCEPT !.at = "finally"]
      /\ UNCHANGED <<records, nodes, draft, plan, state, writer, kind>>
  BY DEF DirectFails
<1>2. state' \in [phase : {"stopped", "running", "quarantined"}, revision : Nat,
                  groups : SUBSET Nat, declarations : Declarations]
      /\ writer' \in [phase : {"none", "staged", "committed", "discarded"}, pending : Plugins]
  BY <1>1 DEF IInv, Types
<1> QED BY <1>1, <1>2, ContinueStep DEF Executing

LEMMA RestoredStep ==
    ASSUME IInv, Restored
    PROVE  IInv'
<1>1. /\ transition.at = "preparing" /\ transition' = [transition EXCEPT !.at = "finally"]
      /\ state' = [state EXCEPT !.revision = @ + 1]
      /\ writer' = [writer EXCEPT !.phase = "discarded"]
      /\ UNCHANGED <<records, nodes, draft, plan, kind>>
  BY DEF Restored
<1>2. writer' \in [phase : {"none", "staged", "committed", "discarded"}, pending : Plugins]
  BY <1>1 DEF IInv, Types
<1>3. state' \in [phase : {"stopped", "running", "quarantined"}, revision : Nat,
                  groups : SUBSET Nat, declarations : Declarations]
      /\ state'.groups = state.groups /\ state'.declarations = state.declarations
  <2>1. state \in [phase : {"stopped", "running", "quarantined"}, revision : Nat,
                   groups : SUBSET Nat, declarations : Declarations]
    BY DEF IInv, Types
  <2>2. state' = [phase |-> state.phase, revision |-> state.revision + 1,
                  groups |-> state.groups, declarations |-> state.declarations]
    BY <1>1, <2>1
  <2> QED BY <2>1, <2>2
<1> QED BY <1>1, <1>2, <1>3, ContinueStep DEF Executing

LEMMA StutterStep ==
    ASSUME IInv, UNCHANGED vars
    PROVE  IInv'
<1>1. UNCHANGED <<records, nodes, draft, plan, state, transition, writer, kind>>
  BY DEF vars
<1> QED BY <1>1 DEF IInv, Types, DraftsAreSound, StateIsSound, PlansAreSound, TargetIsSound,
                    WriterHolds, KindIsKnown, Target, KindsOf, Declared

-----------------------------------------------------------------------------
\* Steps of a draft and of its plan.
LEMMA DraftsStep ==
    ASSUME IInv, NEW d \in Drafts,
           \/ Change(d) \/ Plan(d) \/ PlanIssued(d) \/ PlanRejected(d)
           \/ ApplyStale(d) \/ ApplyNothing(d) \/ ApplyConflicting(d) \/ Apply(d)
           \/ \E n \in Names, g \in Groups \union {Root} :
                Group(d, n, g) \/ \E p \in Plugins : Install(d, n, g, p)
           \/ \E r \in Installations : Remove(d, r) \/ \E p \in Plugins : Update(d, r, p)
           \/ \E g \in Groups : RemoveGroup(d, g)
    PROVE  IInv'
<1>1. CASE Change(d)
  BY <1>1, ChangeStep
<1>2. CASE Plan(d)
  BY <1>2, PlanStep
<1>3. CASE PlanIssued(d)
  BY <1>3, PlanIssuedStep
<1>4. CASE PlanRejected(d)
  BY <1>4, DropStep DEF PlanRejected
<1>5. CASE ApplyStale(d)
  BY <1>5, DropStep DEF ApplyStale
<1>6. CASE ApplyNothing(d)
  BY <1>6, DropStep DEF ApplyNothing
<1>7. CASE ApplyConflicting(d)
  BY <1>7, DropStep DEF ApplyConflicting
<1>8. CASE Apply(d)
  BY <1>8, ApplyStep
<1>9. ASSUME NEW n \in Names, NEW g \in Groups \union {Root}, Group(d, n, g) PROVE IInv'
  BY <1>9, GroupStep
<1>10. ASSUME NEW n \in Names, NEW g \in Groups \union {Root}, NEW p \in Plugins,
              Install(d, n, g, p)
       PROVE  IInv'
  BY <1>10, InstallStep
<1>11. ASSUME NEW r \in Installations, Remove(d, r) PROVE IInv'
  BY <1>11, RemoveStep
<1>12. ASSUME NEW r \in Installations, NEW p \in Plugins, Update(d, r, p) PROVE IInv'
  BY <1>12, UpdateStep
<1>13. ASSUME NEW g \in Groups, RemoveGroup(d, g) PROVE IInv'
  BY <1>13, RemoveGroupStep
<1> QED BY <1>1, <1>2, <1>3, <1>4, <1>5, <1>6, <1>7, <1>8, <1>9, <1>10, <1>11, <1>12, <1>13

LEMMA InductiveInvariant == IInv /\ [Next]_vars => IInv'
<1> SUFFICES ASSUME IInv, [Next]_vars PROVE IInv'
  OBVIOUS
<1>1. ASSUME NEW d \in Drafts,
             \/ Change(d) \/ Plan(d) \/ PlanIssued(d) \/ PlanRejected(d)
             \/ ApplyStale(d) \/ ApplyNothing(d) \/ ApplyConflicting(d) \/ Apply(d)
             \/ \E n \in Names, g \in Groups \union {Root} :
                  Group(d, n, g) \/ \E p \in Plugins : Install(d, n, g, p)
             \/ \E r \in Installations : Remove(d, r) \/ \E p \in Plugins : Update(d, r, p)
             \/ \E g \in Groups : RemoveGroup(d, g)
      PROVE  IInv'
  BY <1>1, DraftsStep
<1>2. ASSUME NEW k \in Kinds, Claim(k) \/ CandidateClaims(k) PROVE IInv'
  BY <1>2, ClaimStep, CandidateClaimsStep
<1>3. ASSUME NEW intent \in {"start", "stop"}, Lifecycle(intent) PROVE IInv'
  BY <1>3, LifecycleStep
<1>4. CASE Prepares
  BY <1>4, PreparesStep
<1>5. CASE Commits
  BY <1>5, CommitsStep
<1>6. CASE DirectFails
  BY <1>6, DirectFailsStep
<1>7. CASE Restored
  BY <1>7, RestoredStep
<1>8. CASE Quarantine
  BY <1>8, QuarantineStep
<1>9. CASE Ends
  BY <1>9, EndsStep
<1>10. CASE UNCHANGED vars
  BY <1>10, StutterStep
<1> QED BY <1>1, <1>2, <1>3, <1>4, <1>5, <1>6, <1>7, <1>8, <1>9, <1>10 DEF Next

\* What is proved of every reachable state, whatever the drafts, the names,
\* the kinds and the bounds: plans, the candidate under execution and the
\* committed composition are sound, and the writer knows what it would commit.
THEOREM Invariance == Spec => []IInv
BY InitInvariant, InductiveInvariant, PTL DEF Spec

\* The committed composition is one in every reachable state: ids are unique,
\* and parents and groups are committed by identity (planner.ts, engine.ts).
THEOREM CommitmentsAreClosed == Spec => []CommittedIsClosed
<1>1. IInv => CommittedIsClosed
  BY DEF IInv, StateIsSound, Sound, CommittedIsClosed, Distinct, Declared, Root
<1> QED BY <1>1, Invariance, PTL

\* A step never changes a kind that is known, whoever claims it.
LEMMA KindStays == [Next]_vars => [kind # NoKind => kind' = kind]_vars
<1> SUFFICES ASSUME Next, kind # NoKind PROVE kind' = kind
  BY DEF vars
<1> QED BY DEF Next, Change, Plan, PlanIssued, PlanRejected, ApplyStale, ApplyNothing,
               ApplyConflicting, Apply, Group, Install, Remove, Update, RemoveGroup, Claim,
               CandidateClaims, Lifecycle, Prepares, Commits, WriterCommits, Committable,
               Compatible, DirectFails, Restored, Quarantine, Ends

\* A contract id has one kind for ever, the one all that is committed uses,
\* with any number of drafts and of instances that claim (contract-registry.ts).
THEOREM KindsAreForEver == Spec => OneKindForEver
<1>1. IInv => KindsOf(state.declarations) \subseteq {kind}
  BY DEF IInv, KindIsKnown
<1>2. [Next]_vars => [kind # NoKind => kind' = kind]_vars
  BY KindStays
<1> QED BY <1>1, <1>2, Invariance, PTL DEF Spec, OneKindForEver

-----------------------------------------------------------------------------
(* Handles.                                                                *)

\* What a draft or its plan may still install.
Pool(d) == Installed(d) \union plan[d].new

HandleTypes ==
    /\ attached \in [Installations -> {Detachment, OfDrafts, OfHost} \union Nat]
    /\ terminal \in [Installations -> {"pending", "removed", "quarantined"}]

\* A draft is staged, then planned; a record waits in one place.
Places ==
    /\ \A d \in Drafts : IF draft[d].state = "taken" THEN draft[d].operations = {}
                         ELSE plan[d].new = {}
    /\ \A d \in Drafts : draft[d].state = "none" => draft[d].operations = {}
    /\ \A d \in Drafts : Pool(d) \subseteq Installations \ (Declared(state.declarations)
                                                            \union Target.new)
    /\ \A d, e \in Drafts : d # e => Pool(d) \intersect Pool(e) = {}
    /\ transition.at = "rest" => Target.new = {}

\* What a plan installs is what it adds to the composition of its revision.
PlansAreTimely ==
    \A d \in Drafts :
        /\ plan[d].state = "none" \/ plan[d].empty => plan[d].new = {}
        /\ plan[d].state # "none" => /\ plan[d].base <= state.revision
                                     /\ ~Healthy => plan[d].base # state.revision
        /\ Promising(plan[d]) /\ plan[d].base = state.revision =>
             Declared(plan[d].declarations) \ Declared(state.declarations) = plan[d].new

\* And so does the candidate, whatever becomes of it.
TargetIsTimely ==
    transition.at # "rest" =>
        /\ Target.base <= state.revision
        /\ Target.new \subseteq Declared(Target.declarations)
        /\ Declared(Target.declarations) \ Declared(state.declarations) \subseteq Target.new
        /\ transition.at # "finally" /\ Healthy => Target.base = state.revision

\* Who is asked about r, as long as it may be installed, is installed, or is not.
Asked(r) ==
    /\ r \in Declared(state.declarations) =>
         IF Healthy THEN attached[r] = OfHost
                    ELSE attached[r] = Detachment /\ terminal[r] = "quarantined"
    /\ r \notin Declared(state.declarations) =>
         /\ attached[r] # OfHost
         /\ attached[r] = Detachment => terminal[r] = "removed"
         /\ attached[r] <= state.revision
         /\ ~Healthy => attached[r] # state.revision
         /\ r \in Target.new => attached[r] = Target.base
    /\ \A d \in Drafts :
         /\ r \in Installed(d) => attached[r] = OfDrafts
         /\ r \in plan[d].new =>
              attached[r] = IF plan[d].state = "compiling" THEN OfDrafts ELSE plan[d].base

\* Nobody is asked in vain.
Awaited(r) ==
    Healthy =>
        /\ attached[r] = OfDrafts =>
             \E d \in Drafts : r \in Installed(d)
                               \/ (r \in plan[d].new /\ plan[d].state = "compiling")
        /\ attached[r] = state.revision =>
             \/ \E d \in Drafts : r \in plan[d].new /\ Usable(d)
             \/ r \in Target.new

Handles == \A r \in Installations : Asked(r) /\ Awaited(r)

HInv == HandleTypes /\ Places /\ PlansAreTimely /\ TargetIsTimely /\ Handles

\* What a draft installs depends on that draft only.
LEMMA InstalledAgain ==
    ASSUME NEW d, draft'[d] = draft[d]
    PROVE  Installed(d)' = Installed(d)
BY DEF Installed, Targets

\* What a draft or its plan may install has been added and is a number.
LEMMA PoolFacts ==
    ASSUME IInv, HInv, NEW d \in Drafts
    PROVE  /\ Installed(d) \subseteq Pool(d) /\ plan[d].new \subseteq Pool(d)
           /\ Pool(d) \subseteq Installations
           /\ Pool(d) \intersect Declared(state.declarations) = {}
           /\ Pool(d) \intersect Target.new = {}
           /\ \A e \in Drafts : e # d => Pool(d) \intersect Pool(e) = {}
           /\ plan[d] \in PlanRecords
BY DEF HInv, Places, Pool, IInv, Types

LEMMA InitHandles == Init => HInv
<1> SUFFICES ASSUME Init PROVE HInv
  OBVIOUS
<1>1. PICK n \in Names, p \in Plugins :
        /\ records = <<[id |-> n, group |-> 1]>>
        /\ state = [phase |-> "stopped", revision |-> 0, groups |-> {1}, declarations |-> <<p>>]
  BY DEF Init
<1>2. Installations = {1} /\ Declared(state.declarations) = {1}
  BY <1>1 DEF Installations, Declared
<1>3. \A d \in Drafts : draft[d] = NoDraft /\ plan[d] = NoPlan /\ Installed(d) = {}
  BY DEF Init, Installed, Targets, NoDraft
<1>4. HandleTypes
  BY <1>2 DEF Init, HandleTypes
<1>5. Places
  BY <1>3 DEF Init, Places, Pool, NoDraft, NoPlan, Target, Rest
<1>6. PlansAreTimely /\ TargetIsTimely
  BY <1>3 DEF Init, PlansAreTimely, TargetIsTimely, Rest, NoPlan, Promising
<1>7. Handles
  <2> SUFFICES ASSUME NEW r \in Installations PROVE Asked(r) /\ Awaited(r)
    BY DEF Handles
  <2>1. r = 1 /\ attached[r] = OfHost
    BY <1>2 DEF Init
  <2>2. Healthy
    BY <1>1 DEF Healthy
  <2>3. Asked(r)
    BY <1>2, <1>3, <2>1, <2>2 DEF Asked, NoPlan
  <2>4. Awaited(r)
    BY <1>1, <2>1 DEF Awaited, OfHost, OfDrafts
  <2> QED BY <2>3, <2>4
<1> QED BY <1>4, <1>5, <1>6, <1>7 DEF HInv

\* Nothing that handles depend on has changed.
LEMMA SameHandles ==
    ASSUME IInv, HInv, UNCHANGED <<records, plan, state, transition, attached, terminal>>,
           \A e \in Drafts : Installed(e)' = Installed(e),
           \A e \in Drafts : IF draft'[e].state = "taken" THEN draft'[e].operations = {}
                             ELSE plan[e].new = {},
           \A e \in Drafts : draft'[e].state = "none" => draft'[e].operations = {}
    PROVE  HInv'
<1>1. HandleTypes'
  BY DEF HInv, HandleTypes, Installations
<1>2. Places'
  BY DEF HInv, Places, Pool, Installations, Target
<1>3. PlansAreTimely' /\ TargetIsTimely'
  BY DEF HInv, PlansAreTimely, TargetIsTimely, Healthy, Target, Promising
<1>4. Handles'
  <2> SUFFICES ASSUME NEW r \in Installations PROVE Asked(r)' /\ Awaited(r)'
    BY DEF Handles, Installations
  <2>1. Asked(r) /\ Awaited(r)
    BY DEF HInv, Handles
  <2>2. Asked(r)'
    BY <2>1 DEF Asked, Healthy, Target
  <2>3. Awaited(r)'
    BY <2>1 DEF Awaited, Healthy, Target, Usable
  <2> QED BY <2>2, <2>3
<1> QED BY <1>1, <1>2, <1>3, <1>4 DEF HInv

\* A draft that does not add an installation concerns no handle.
LEMMA StageHandles ==
    ASSUME IInv, HInv, NEW d \in Drafts, NEW operation, Stage(d, operation),
           operation.on # "installation" \/ operation.do # "add",
           UNCHANGED <<records, plan, state, transition, attached, terminal>>
    PROVE  HInv'
<1>1. /\ draft[d].state = "open"
      /\ draft' = [draft EXCEPT ![d].operations = @ \union {operation}]
  BY DEF Stage
<1>2. draft \in [Drafts -> [state : {"none", "open", "taken"}, operations : SUBSET Operations]]
  BY DEF IInv, Types
<1>3. \A e \in Drafts : draft'[e].state = draft[e].state /\ (e # d => draft'[e] = draft[e])
  BY <1>1, <1>2
<1>4. draft'[d].operations = draft[d].operations \union {operation}
  BY <1>1, <1>2
<1>5. \A e \in Drafts : Installed(e)' = Installed(e)
  <2> SUFFICES ASSUME NEW e \in Drafts PROVE Installed(e)' = Installed(e)
    OBVIOUS
  <2>1. CASE e # d
    BY <1>3, <2>1, InstalledAgain
  <2>2. CASE e = d
    BY <1>4, <2>2 DEF Installed, Targets
  <2> QED BY <2>1, <2>2
<1>6. \A e \in Drafts : IF draft'[e].state = "taken" THEN draft'[e].operations = {}
                        ELSE plan[e].new = {}
  BY <1>1, <1>3 DEF HInv, Places
<1>7. \A e \in Drafts : draft'[e].state = "none" => draft'[e].operations = {}
  BY <1>1, <1>3 DEF HInv, Places
<1> QED BY <1>5, <1>6, <1>7, SameHandles

LEMMA DraftHandles ==
    ASSUME IInv, HInv, NEW d \in Drafts,
           \/ Change(d)
           \/ \E n \in Names, g \in Groups \union {Root} : Group(d, n, g)
           \/ \E r \in Installations : Remove(d, r) \/ \E p \in Plugins : Update(d, r, p)
           \/ \E g \in Groups : RemoveGroup(d, g)
    PROVE  HInv'
<1>1. CASE Change(d)
  <2>1. /\ draft[d] = NoDraft /\ draft' = [draft EXCEPT ![d].state = "open"]
        /\ UNCHANGED <<records, plan, state, transition, attached, terminal>>
    BY <1>1 DEF Change, handleVars
  <2>2. draft \in [Drafts -> [state : {"none", "open", "taken"}, operations : SUBSET Operations]]
    BY DEF IInv, Types
  <2>3. \A e \in Drafts : /\ draft'[e].operations = draft[e].operations
                          /\ e # d => draft'[e] = draft[e]
    BY <2>1, <2>2
  <2>4. draft'[d].state = "open" /\ draft[d].state = "none"
    BY <2>1, <2>2 DEF NoDraft
  <2>5. \A e \in Drafts : Installed(e)' = Installed(e)
    BY <2>3 DEF Installed, Targets
  <2>6. \A e \in Drafts : IF draft'[e].state = "taken" THEN draft'[e].operations = {}
                          ELSE plan[e].new = {}
    BY <2>3, <2>4 DEF HInv, Places
  <2>7. \A e \in Drafts : draft'[e].state = "none" => draft'[e].operations = {}
    BY <2>3, <2>4 DEF HInv, Places
  <2> QED BY <2>1, <2>5, <2>6, <2>7, SameHandles
<1>2. ASSUME NEW n \in Names, NEW g \in Groups \union {Root}, Group(d, n, g) PROVE HInv'
  BY <1>2, StageHandles DEF Group, Operation, handleVars
<1>3. ASSUME NEW r \in Installations, Remove(d, r) PROVE HInv'
  BY <1>3, StageHandles DEF Remove, Operation, handleVars
<1>4. ASSUME NEW r \in Installations, NEW p \in Plugins, Update(d, r, p) PROVE HInv'
  BY <1>4, StageHandles DEF Update, Operation, handleVars
<1>5. ASSUME NEW g \in Groups, RemoveGroup(d, g) PROVE HInv'
  BY <1>5, StageHandles DEF RemoveGroup, Operation, handleVars
<1> QED BY <1>1, <1>2, <1>3, <1>4, <1>5

\* What the planner accepts installs exactly what the draft adds.
LEMMA CompiledAdds ==
    ASSUME IInv, HInv, NEW d \in Drafts, Compiled(d).ok
    PROVE  Declared(Compiled(d).declarations) \ Declared(state.declarations) = Installed(d)
<1> DEFINE created == Targets(d, "group", "add")
           removed == Targets(d, "group", "remove")
           installed == Installed(d)
           updated == Targets(d, "installation", "update")
           dropped == Targets(d, "installation", "remove")
           before == Declared(state.declarations)
           doomed == Doomed(state.groups \union created, removed)
           kept == (before \union installed) \ dropped
           lost == {r \in kept : records[r].group \in doomed}
           plugin(r) == CHOOSE p \in Plugins :
                          IF r \in installed \union updated
                          THEN \E o \in draft[d].operations :
                                 o.on = "installation" /\ o.target = r /\ o.plugin = p
                          ELSE p = state.declarations[r]
           groups == (state.groups \union created) \ doomed
           declarations == [r \in kept \ lost |-> plugin(r)]
           accepted == /\ Distinct(nodes, state.groups \union created)
                       /\ Distinct(records, before \union installed)
                       /\ updated \union dropped \subseteq before
                       /\ removed \union doomed \subseteq state.groups
                       /\ lost \intersect (installed \union updated) = {}
           ok == /\ Closed(groups, declarations)
                 /\ \A k, l \in KindsOf(declarations) : k = l
                 /\ \A k \in KindsOf(declarations) : Compatible(k, kind)
           compiled == [ok |-> ok, groups |-> groups, declarations |-> declarations]
           refused == [ok |-> FALSE, groups |-> {}, declarations |-> <<>>]
<1>1. Compiled(d) = IF accepted THEN compiled ELSE refused
  BY DEF Compiled
<1>2. accepted
  <2> HIDE DEF accepted, compiled
  <2>1. CASE ~accepted
    <3>1. Compiled(d) = refused
      BY <1>1, <2>1
    <3> QED BY <3>1
  <2> QED BY <2>1
<1>3. Compiled(d).declarations = declarations
  <2> HIDE DEF accepted, ok, declarations, groups
  <2> QED BY <1>1, <1>2
<1>4. Declared(declarations) = kept \ lost
  BY DEF Declared
<1>5. installed \intersect before = {}
  BY DEF HInv, Places, Pool
<1>6. dropped \subseteq before /\ lost \intersect installed = {}
  BY <1>2
<1> HIDE DEF declarations, lost, before, dropped, installed
<1>7. (kept \ lost) \ before = installed
  BY <1>5, <1>6
<1> QED BY <1>3, <1>4, <1>7 DEF before, installed

LEMMA ListsAreSequences ==
    ASSUME NEW S, NEW n \in Nat, NEW f \in [1 .. n -> S]
    PROVE  f \in Seq(S) /\ Len(f) = n
OBVIOUS

\* A new installation waits in its draft.
LEMMA InstallHandles ==
    ASSUME IInv, HInv, NEW d \in Drafts, NEW n \in Names, NEW g \in Groups \union {Root},
           NEW p \in Plugins, Install(d, n, g, p)
    PROVE  HInv'
<1>0. PICK new : new = Len(records) + 1
  OBVIOUS
<1> DEFINE operation == Operation("installation", "add", new, p)
<1>1. /\ draft[d].state = "open"
      /\ draft' = [draft EXCEPT ![d].operations = @ \union {operation}]
      /\ records' = Append(records, [id |-> n, group |-> g])
      /\ attached' = Append(attached, OfDrafts) /\ terminal' = Append(terminal, "pending")
      /\ UNCHANGED <<nodes, plan, state, transition, writer, kind>>
  BY <1>0 DEF Install, Stage
<1>2. /\ records \in Seq([id : Names, group : Nat]) /\ Len(records) \in Nat
      /\ draft \in [Drafts -> [state : {"none", "open", "taken"}, operations : SUBSET Operations]]
  BY DEF IInv, Types
<1>3. Len(records') = new /\ Installations' = Installations \union {new}
      /\ new \notin Installations
  <2>1. [id |-> n, group |-> g] \in [id : Names, group : Nat]
    BY <1>2 DEF Groups, Root, IInv, Types
  <2>2. Len(records') = Len(records) + 1
    BY <1>1, <1>2, <2>1, AppendProperties
  <2> QED BY <1>0, <1>2, <2>2 DEF Installations
<1>4. /\ attached' \in [Installations' -> {Detachment, OfDrafts, OfHost} \union Nat]
      /\ attached'[new] = OfDrafts
      /\ \A r \in Installations : attached'[r] = attached[r]
  <2>1. attached \in Seq({Detachment, OfDrafts, OfHost} \union Nat)
        /\ Len(attached) = Len(records)
    BY <1>2, ListsAreSequences DEF HInv, HandleTypes, Installations
  <2>2. OfDrafts \in {Detachment, OfDrafts, OfHost} \union Nat
    OBVIOUS
  <2>3. /\ attached' \in Seq({Detachment, OfDrafts, OfHost} \union Nat)
        /\ Len(attached') = Len(records) + 1
        /\ \A i \in 1 .. Len(records) : attached'[i] = attached[i]
        /\ attached'[Len(records) + 1] = OfDrafts
    BY <1>1, <2>1, <2>2, AppendProperties
  <2> QED BY <1>0, <1>2, <1>3, <2>3 DEF Installations
<1>5. /\ terminal' \in [Installations' -> {"pending", "removed", "quarantined"}]
      /\ \A r \in Installations : terminal'[r] = terminal[r]
  <2>1. terminal \in Seq({"pending", "removed", "quarantined"}) /\ Len(terminal) = Len(records)
    BY <1>2, ListsAreSequences DEF HInv, HandleTypes, Installations
  <2>2. /\ terminal' \in Seq({"pending", "removed", "quarantined"})
        /\ Len(terminal') = Len(records) + 1
        /\ \A i \in 1 .. Len(records) : terminal'[i] = terminal[i]
    BY <1>1, <2>1, AppendProperties
  <2> QED BY <1>0, <1>2, <1>3, <2>2 DEF Installations
<1>6. /\ \A e \in Drafts : draft'[e].state = draft[e].state /\ (e # d => draft'[e] = draft[e])
      /\ draft'[d].operations = draft[d].operations \union {operation}
  BY <1>1, <1>2
<1>7. /\ Installed(d)' = Installed(d) \union {new}
      /\ \A e \in Drafts : e # d => Installed(e)' = Installed(e)
  <2>1. operation.on = "installation" /\ operation.do = "add" /\ operation.target = new
    BY DEF Operation
  <2> HIDE DEF operation
  <2>2. Installed(d)' = Installed(d) \union {new}
    BY <1>6, <2>1 DEF Installed, Targets
  <2> QED BY <1>6, <2>2, InstalledAgain
<1> HIDE DEF operation
<1>8. /\ \A e \in Drafts : e # d => Pool(e)' = Pool(e)
      /\ Pool(d)' = Pool(d) \union {new}
      /\ \A e \in Drafts : Pool(e) \subseteq Installations
  BY <1>1, <1>7 DEF Pool, HInv, Places
<1>9. /\ Declared(state.declarations) \subseteq Installations
      /\ Target.new \subseteq Declared(state.declarations) \union Declared(Target.declarations)
      /\ Target.new \subseteq Installations
  <2>1. Declared(state.declarations) \subseteq Installations
    BY DEF IInv, StateIsSound, Sound, Declared, Installations
  <2>2. CASE transition.at = "rest"
    BY <2>1, <2>2 DEF HInv, Places
  <2>3. CASE transition.at # "rest"
    <3>1. Declared(Target.declarations) \subseteq Installations
      BY <2>3 DEF IInv, TargetIsSound, Sound, Declared, Installations
    <3> QED BY <2>1, <2>3, <3>1 DEF HInv, TargetIsTimely
  <2> QED BY <2>2, <2>3
<1>10. HandleTypes'
  BY <1>4, <1>5 DEF HandleTypes
<1>11. Places'
  <2>1. \A e \in Drafts : Pool(e)' \subseteq Installations' \ (Declared(state.declarations)
                                                             \union Target.new)
    BY <1>3, <1>8, <1>9 DEF HInv, Places
  <2>2. \A e, f \in Drafts : e # f => Pool(e)' \intersect Pool(f)' = {}
    BY <1>3, <1>8 DEF HInv, Places
  <2>3. \A e \in Drafts : IF draft'[e].state = "taken" THEN draft'[e].operations = {}
                          ELSE plan[e].new = {}
    BY <1>1, <1>6 DEF HInv, Places
  <2>4. \A e \in Drafts : draft'[e].state = "none" => draft'[e].operations = {}
    BY <1>1, <1>6 DEF HInv, Places
  <2>5. transition.at = "rest" => Target.new = {}
    BY DEF HInv, Places
  <2> QED BY <1>1, <2>1, <2>2, <2>3, <2>4, <2>5 DEF Places, Target
<1>12. PlansAreTimely' /\ TargetIsTimely'
  BY <1>1 DEF HInv, PlansAreTimely, TargetIsTimely, Healthy, Target, Promising
<1>13. Handles'
  <2>1. ASSUME NEW r \in Installations PROVE Asked(r)' /\ Awaited(r)'
    <3>1. Asked(r) /\ Awaited(r)
      BY DEF HInv, Handles
    <3>2. attached'[r] = attached[r] /\ terminal'[r] = terminal[r] /\ r # new
      BY <1>3, <1>4, <1>5
    <3>3. \A e \in Drafts : r \in Installed(e)' <=> r \in Installed(e)
      BY <1>7, <3>2
    <3>4. Asked(r)'
      BY <1>1, <3>1, <3>2, <3>3 DEF Asked, Healthy, Target
    <3>5. Awaited(r)'
      BY <1>1, <3>1, <3>2, <3>3 DEF Awaited, Healthy, Target, Usable
    <3> QED BY <3>4, <3>5
  <2>2. Asked(new)' /\ Awaited(new)'
    <3>1. /\ new \notin Declared(state.declarations) \union Target.new
          /\ \A e \in Drafts : new \notin plan[e].new
      BY <1>3, <1>8, <1>9 DEF Pool
    <3>2. state.revision \in Nat
      BY DEF IInv, Types
    <3>3. UNCHANGED <<plan, state, transition>> /\ attached'[new] = OfDrafts
      BY <1>1, <1>4
    <3>4. OfDrafts # OfHost /\ OfDrafts # Detachment /\ OfDrafts < state.revision
      BY <3>2 DEF OfDrafts, OfHost, Detachment
    <3>5. Asked(new)'
      BY <3>1, <3>2, <3>3, <3>4 DEF Asked, Healthy, Target, OfDrafts
    <3>6. new \in Installed(d)'
      BY <1>7
    <3>7. Awaited(new)'
      BY <3>2, <3>3, <3>4, <3>6 DEF Awaited, Healthy, OfDrafts
    <3> QED BY <3>5, <3>7
  <2> QED BY <1>3, <2>1, <2>2 DEF Handles
<1> QED BY <1>10, <1>11, <1>12, <1>13 DEF HInv

\* What was to be installed by the draft is now to be installed by its plan.
LEMMA PlanHandles ==
    ASSUME IInv, HInv, NEW d \in Drafts, Plan(d)
    PROVE  HInv'
<1> DEFINE c == Compiled(d)
           new == [state |-> "compiling", base |-> state.revision, ok |-> c.ok,
                   empty |-> draft[d].operations = {}, new |-> Installed(d),
                   groups |-> c.groups, declarations |-> c.declarations]
<1>1. /\ Healthy /\ draft[d].state = "open"
      /\ draft' = [draft EXCEPT ![d] = [state |-> "taken", operations |-> {}]]
      /\ plan' = [plan EXCEPT ![d] = new]
      /\ UNCHANGED <<records, state, transition, attached, terminal>>
  BY DEF Plan, handleVars
<1>2. draft \in [Drafts -> [state : {"none", "open", "taken"}, operations : SUBSET Operations]]
      /\ plan \in [Drafts -> PlanRecords] /\ state.revision \in Nat
  BY DEF IInv, Types
<1>3. /\ \A e \in Drafts : e # d => draft'[e] = draft[e] /\ plan'[e] = plan[e]
      /\ draft'[d].state = "taken" /\ draft'[d].operations = {}
      /\ plan'[d] = new
  BY <1>1, <1>2
<1>4. /\ plan'[d].state = "compiling" /\ plan'[d].base = state.revision
      /\ plan'[d].new = Installed(d) /\ plan'[d].ok = c.ok
      /\ plan'[d].declarations = c.declarations
      /\ plan'[d].empty = (draft[d].operations = {})
  BY <1>3
<1>5. c.ok => Declared(c.declarations) \ Declared(state.declarations) = Installed(d)
  BY CompiledAdds
<1>14. plan'[d].empty => Installed(d) = {}
  <2> HIDE DEF c, new
  <2> QED BY <1>4 DEF Installed, Targets
<1> HIDE DEF c, new
<1>6. /\ \A e \in Drafts : e # d => Installed(e)' = Installed(e)
      /\ Installed(d)' = {}
  <2>1. Installed(d)' = {}
    BY <1>3 DEF Installed, Targets
  <2> QED BY <1>3, <2>1, InstalledAgain
<1>7. plan[d].new = {}
  BY <1>1 DEF HInv, Places
<1>8. \A e \in Drafts : Pool(e)' = Pool(e)
  BY <1>3, <1>4, <1>6, <1>7 DEF Pool
<1>9. HandleTypes'
  BY <1>1 DEF HInv, HandleTypes, Installations
<1>10. Places'
  <2>1. \A e \in Drafts : IF draft'[e].state = "taken" THEN draft'[e].operations = {}
                          ELSE plan'[e].new = {}
    BY <1>3 DEF HInv, Places
  <2>2. \A e \in Drafts : draft'[e].state = "none" => draft'[e].operations = {}
    BY <1>3 DEF HInv, Places
  <2> QED BY <1>1, <1>8, <2>1, <2>2 DEF HInv, Places, Installations, Target
<1>11. PlansAreTimely'
  <2> SUFFICES ASSUME NEW e \in Drafts
               PROVE  /\ plan'[e].state = "none" \/ plan'[e].empty => plan'[e].new = {}
                      /\ plan'[e].state # "none" =>
                           /\ plan'[e].base <= state.revision
                           /\ ~Healthy => plan'[e].base # state.revision
                      /\ Promising(plan'[e]) /\ plan'[e].base = state.revision =>
                           Declared(plan'[e].declarations) \ Declared(state.declarations)
                             = plan'[e].new
    BY <1>1 DEF PlansAreTimely, Healthy
  <2>1. CASE e # d
    BY <1>3, <2>1 DEF HInv, PlansAreTimely
  <2>2. CASE e = d
    BY <1>1, <1>2, <1>4, <1>5, <1>14, <2>2 DEF Promising
  <2> QED BY <2>1, <2>2
<1>12. TargetIsTimely'
  BY <1>1 DEF HInv, TargetIsTimely, Healthy, Target
<1>13. Handles'
  <2> SUFFICES ASSUME NEW r \in Installations PROVE Asked(r)' /\ Awaited(r)'
    BY <1>1 DEF Handles, Installations
  <2>1. Asked(r) /\ Awaited(r)
    BY DEF HInv, Handles
  <2>2. Asked(r)'
    BY <1>1, <1>3, <1>4, <1>6, <2>1 DEF Asked, Healthy, Target
  <2>3. Awaited(r)'
    BY <1>1, <1>3, <1>4, <1>6, <1>7, <2>1 DEF Awaited, Healthy, Target, Usable
  <2> QED BY <2>2, <2>3
<1> QED BY <1>9, <1>10, <1>11, <1>12, <1>13 DEF HInv

\* A draft that is planned has nothing left to install.
LEMMA InstalledOrPlanned ==
    ASSUME IInv, HInv, NEW d \in Drafts, plan[d].new # {}
    PROVE  Installed(d) = {}
BY DEF HInv, Places, Installed, Targets

\* An issued plan is asked by its revision.
LEMMA IssuedHandles ==
    ASSUME IInv, HInv, NEW d \in Drafts, PlanIssued(d)
    PROVE  HInv'
<1> DEFINE fresh == Declared(plan[d].declarations) \ Declared(state.declarations)
<1>1. /\ plan[d].state = "compiling" /\ plan[d].ok /\ plan[d].base = state.revision
      /\ plan' = [plan EXCEPT ![d].state = "issued"]
      /\ attached' = [r \in Installations |-> IF r \in fresh THEN state.revision ELSE attached[r]]
      /\ UNCHANGED <<records, draft, state, terminal, transition>>
  BY DEF PlanIssued, StillTrue
<1>2. plan \in [Drafts -> PlanRecords] /\ state.revision \in Nat
  BY DEF IInv, Types
<1>3. fresh = plan[d].new /\ Healthy
  BY <1>1 DEF HInv, PlansAreTimely, Promising
<1> HIDE DEF fresh
<1>4. \A e \in Drafts :
        /\ e # d => plan'[e] = plan[e]
        /\ plan'[e].new = plan[e].new /\ plan'[e].base = plan[e].base
        /\ plan'[e].empty = plan[e].empty /\ plan'[e].ok = plan[e].ok
        /\ plan'[e].declarations = plan[e].declarations
  BY <1>1, <1>2 DEF PlanRecords
<1>5. plan'[d].state = "issued"
  BY <1>1, <1>2 DEF PlanRecords
<1>6. \A e \in Drafts : Installed(e)' = Installed(e)
  BY <1>1, InstalledAgain
<1>7. \A e \in Drafts : Pool(e)' = Pool(e)
  BY <1>4, <1>6 DEF Pool
<1>8. HandleTypes'
  BY <1>1, <1>2 DEF HInv, HandleTypes, Installations
<1>9. Places'
  BY <1>1, <1>4, <1>7 DEF HInv, Places, Installations, Target
<1>10. PlansAreTimely'
  <2> SUFFICES ASSUME NEW e \in Drafts
               PROVE  /\ plan'[e].state = "none" \/ plan'[e].empty => plan'[e].new = {}
                      /\ plan'[e].state # "none" =>
                           /\ plan'[e].base <= state.revision
                           /\ ~Healthy => plan'[e].base # state.revision
                      /\ Promising(plan'[e]) /\ plan'[e].base = state.revision =>
                           Declared(plan'[e].declarations) \ Declared(state.declarations)
                             = plan'[e].new
    BY <1>1 DEF PlansAreTimely, Healthy
  <2>1. CASE e # d
    BY <1>4, <2>1 DEF HInv, PlansAreTimely
  <2>2. CASE e = d
    BY <1>1, <1>3, <1>4, <1>5, <2>2 DEF HInv, PlansAreTimely, fresh
  <2> QED BY <2>1, <2>2
<1>11. TargetIsTimely'
  BY <1>1 DEF HInv, TargetIsTimely, Healthy, Target
<1>12. Handles'
  <2> SUFFICES ASSUME NEW r \in Installations PROVE Asked(r)' /\ Awaited(r)'
    BY <1>1 DEF Handles, Installations
  <2>1. Asked(r) /\ Awaited(r)
    BY DEF HInv, Handles
  <2>2. CASE r \in plan[d].new
    <3>1. /\ r \notin Declared(state.declarations) /\ r \notin Target.new
          /\ r \notin Installed(d)
          /\ \A e \in Drafts : e # d => r \notin Installed(e) /\ r \notin plan[e].new
      <4>1. r \in Pool(d)
        BY <2>2 DEF Pool
      <4>2. r \notin Installed(d)
        BY <2>2, InstalledOrPlanned
      <4> QED BY <4>1, <4>2, PoolFacts DEF Pool
    <3>2. attached'[r] = state.revision
      BY <1>1, <1>3, <2>2
    <3>3. Asked(r)'
      BY <1>1, <1>2, <1>3, <1>4, <1>5, <1>6, <3>1, <3>2
         DEF Asked, Healthy, Target, OfHost, Detachment
    <3>4. Awaited(r)'
      BY <1>1, <1>2, <1>4, <1>5, <2>2, <3>2 DEF Awaited, Healthy, OfDrafts, Usable
    <3> QED BY <3>3, <3>4
  <2>3. CASE r \notin plan[d].new
    <3>1. attached'[r] = attached[r]
      BY <1>1, <1>3, <2>3
    <3>2. Asked(r)'
      BY <1>1, <1>4, <1>6, <2>1, <2>3, <3>1 DEF Asked, Healthy, Target
    <3>3. Awaited(r)'
      BY <1>1, <1>4, <1>6, <2>1, <2>3, <3>1 DEF Awaited, Healthy, Target, Usable
    <3> QED BY <3>2, <3>3
  <2> QED BY <2>2, <2>3
<1> QED BY <1>8, <1>9, <1>10, <1>11, <1>12 DEF HInv

\* Whoever waited for a plan that is dropped is told, or was told before.
LEMMA DroppedHandles ==
    ASSUME IInv, HInv, NEW d \in Drafts, plan' = [plan EXCEPT ![d] = NoPlan],
           UNCHANGED <<records, draft, state, transition>>,
           \/ Detached(plan[d].new, state.declarations)
           \/ /\ UNCHANGED <<attached, terminal>>
              /\ \/ plan[d].new = {}
                 \/ plan[d].state # "compiling" /\ plan[d].base # state.revision
    PROVE  HInv'
<1>1. plan \in [Drafts -> PlanRecords] /\ state.revision \in Nat
  BY DEF IInv, Types
<1>2. /\ \A e \in Drafts : e # d => plan'[e] = plan[e]
      /\ plan'[d].new = {} /\ plan'[d].state = "none"
  BY <1>1 DEF NoPlan
<1>3. \A e \in Drafts : Installed(e)' = Installed(e)
  BY InstalledAgain
<1>4. \A e \in Drafts : Pool(e)' \subseteq Pool(e)
  BY <1>2, <1>3 DEF Pool
<1>5. plan[d].new \intersect Declared(state.declarations) = {}
  BY PoolFacts
<1>6. HandleTypes'
  BY DEF HInv, HandleTypes, Installations, Detached
<1>7. Places'
  BY <1>2, <1>4 DEF HInv, Places, Installations, Target
<1>8. PlansAreTimely'
  BY <1>2 DEF HInv, PlansAreTimely, Healthy, Promising
<1>9. TargetIsTimely'
  BY DEF HInv, TargetIsTimely, Healthy, Target
<1>10. Handles'
  <2> SUFFICES ASSUME NEW r \in Installations PROVE Asked(r)' /\ Awaited(r)'
    BY DEF Handles, Installations
  <2>1. Asked(r) /\ Awaited(r)
    BY DEF HInv, Handles
  <2>2. CASE UNCHANGED <<attached, terminal>> \/ r \notin plan[d].new
    <3>1. attached'[r] = attached[r] /\ terminal'[r] = terminal[r]
      BY <2>2 DEF Detached
    <3>2. r \in plan[d].new => plan[d].state # "compiling" /\ plan[d].base # state.revision
      <4>1. CASE Detached(plan[d].new, state.declarations) /\ r \in plan[d].new
        <5>1. attached[r] = Detachment
          BY <1>5, <3>1, <4>1 DEF Detached
        <5>2. attached[r] = OfDrafts \/ attached[r] = plan[d].base
          BY <2>1, <4>1 DEF Asked
        <5>3. plan[d].base \in Nat
          BY <1>1 DEF PlanRecords
        <5> QED BY <5>1, <5>2, <5>3 DEF Detachment, OfDrafts
      <4> QED BY <4>1
    <3>3. Asked(r)'
      BY <1>2, <1>3, <2>1, <3>1 DEF Asked, Healthy, Target
    <3>4. Awaited(r)'
      BY <1>2, <1>3, <2>1, <3>1, <3>2 DEF Awaited, Healthy, Target, Usable
    <3> QED BY <3>3, <3>4
  <2>3. CASE r \in plan[d].new /\ Detached(plan[d].new, state.declarations)
    <3>1. attached'[r] = Detachment /\ terminal'[r] = "removed"
      BY <1>5, <2>3 DEF Detached
    <3>2. /\ r \notin Declared(state.declarations) /\ r \notin Target.new
          /\ \A e \in Drafts : r \notin Installed(e) /\ (e # d => r \notin plan[e].new)
      <4>1. r \in Pool(d) /\ r \notin Installed(d)
        BY <2>3, InstalledOrPlanned DEF Pool
      <4> QED BY <4>1, PoolFacts DEF Pool
    <3>3. Asked(r)'
      BY <1>1, <1>2, <1>3, <3>1, <3>2 DEF Asked, Target, OfHost, Detachment
    <3>4. Awaited(r)'
      BY <1>1, <3>1 DEF Awaited, Detachment, OfDrafts
    <3> QED BY <3>3, <3>4
  <2> QED BY <2>2, <2>3
<1> QED BY <1>6, <1>7, <1>8, <1>9, <1>10 DEF HInv

LEMMA PlanEndsHandles ==
    ASSUME IInv, HInv, NEW d \in Drafts,
           \/ PlanRejected(d) \/ ApplyStale(d) \/ ApplyNothing(d) \/ ApplyConflicting(d)
    PROVE  HInv'
<1>1. CASE PlanRejected(d)
  BY <1>1, DroppedHandles DEF PlanRejected
<1>2. CASE ApplyStale(d)
  BY <1>2, DroppedHandles DEF ApplyStale, handleVars
<1>3. CASE ApplyNothing(d)
  <2>1. plan[d].new = {}
    BY <1>3 DEF ApplyNothing, HInv, PlansAreTimely
  <2> QED BY <1>3, <2>1, DroppedHandles DEF ApplyNothing, handleVars
<1>4. CASE ApplyConflicting(d)
  <2>1. Declared(plan[d].declarations) \ Declared(state.declarations) = plan[d].new
    BY <1>4 DEF ApplyConflicting, Usable, HInv, PlansAreTimely, Promising
  <2>2. Detached(plan[d].new, state.declarations)
    BY <1>4, <2>1 DEF ApplyConflicting, Detached
  <2> QED BY <1>4, <2>2, DroppedHandles DEF ApplyConflicting
<1> QED BY <1>1, <1>2, <1>3, <1>4

\* The candidate takes the place of its plan.
LEMMA ApplyHandles ==
    ASSUME IInv, HInv, NEW d \in Drafts, Apply(d)
    PROVE  HInv'
<1>1. /\ Healthy /\ transition = Rest /\ Usable(d)
      /\ plan' = [plan EXCEPT ![d] = NoPlan]
      /\ transition' = [intent |-> "change", at |-> "ingress", plan |-> plan[d]]
      /\ UNCHANGED <<records, draft, state, attached, terminal>>
  BY DEF Apply, handleVars
<1>2. plan \in [Drafts -> PlanRecords] /\ state.revision \in Nat
  BY DEF IInv, Types
<1>3. /\ \A e \in Drafts : e # d => plan'[e] = plan[e]
      /\ plan'[d].new = {} /\ plan'[d].state = "none"
  BY <1>1, <1>2 DEF NoPlan
<1>4. transition'.at = "ingress" /\ transition'.plan = plan[d]
  BY <1>1
<1>5. /\ plan[d].state = "issued" /\ plan[d].base = state.revision
      /\ Declared(plan[d].declarations) \ Declared(state.declarations) = plan[d].new
  BY <1>1 DEF Usable, HInv, PlansAreTimely, Promising
<1>6. \A e \in Drafts : Installed(e)' = Installed(e)
  BY <1>1, InstalledAgain
<1>7. /\ \A e \in Drafts : e # d => Pool(e)' = Pool(e)
      /\ Pool(d)' = Installed(d)
  BY <1>3, <1>6 DEF Pool
<1>8. Target.new = {}
  BY <1>1 DEF Target, Rest, NoPlan
<1>9. HandleTypes'
  BY <1>1 DEF HInv, HandleTypes, Installations
<1>10. Places'
  <2>1. \A e \in Drafts : Pool(e)' \subseteq Pool(e) /\ Pool(e)' \intersect plan[d].new = {}
    <3> SUFFICES ASSUME NEW e \in Drafts
                 PROVE  Pool(e)' \subseteq Pool(e) /\ Pool(e)' \intersect plan[d].new = {}
      OBVIOUS
    <3>1. CASE e = d
      BY <1>7, <3>1, InstalledOrPlanned DEF Pool
    <3>2. CASE e # d
      BY <1>7, <3>2, PoolFacts
    <3> QED BY <3>1, <3>2
  <2>2. \A e \in Drafts : IF draft[e].state = "taken" THEN draft[e].operations = {}
                          ELSE plan'[e].new = {}
    BY <1>3 DEF HInv, Places
  <2>3. \A e \in Drafts : Pool(e)' \subseteq Installations \ (Declared(state.declarations)
                                                             \union plan[d].new)
    BY <2>1 DEF HInv, Places
  <2>4. \A e, f \in Drafts : e # f => Pool(e)' \intersect Pool(f)' = {}
    BY <2>1 DEF HInv, Places
  <2> QED BY <1>1, <1>4, <2>2, <2>3, <2>4 DEF HInv, Places, Installations, Target
<1>11. PlansAreTimely'
  BY <1>1, <1>3 DEF HInv, PlansAreTimely, Healthy, Promising
<1>12. TargetIsTimely'
  BY <1>1, <1>2, <1>4, <1>5 DEF TargetIsTimely, Healthy, Target
<1>13. Handles'
  <2> SUFFICES ASSUME NEW r \in Installations PROVE Asked(r)' /\ Awaited(r)'
    BY <1>1 DEF Handles, Installations
  <2>1. Asked(r) /\ Awaited(r)
    BY DEF HInv, Handles
  <2>2. Asked(r)'
    BY <1>1, <1>3, <1>4, <1>5, <1>6, <2>1 DEF Asked, Healthy, Target
  <2>3. Awaited(r)'
    BY <1>1, <1>2, <1>3, <1>4, <1>5, <1>6, <1>8, <2>1 DEF Awaited, Healthy, Target, Usable
  <2> QED BY <2>2, <2>3
<1> QED BY <1>9, <1>10, <1>11, <1>12, <1>13 DEF HInv

\* start() and stop() install nothing new.
LEMMA LifecycleHandles ==
    ASSUME IInv, HInv, NEW intent \in {"start", "stop"}, Lifecycle(intent)
    PROVE  HInv'
<1> DEFINE p == [NoPlan EXCEPT !.base = state.revision, !.groups = state.groups,
                               !.declarations = state.declarations]
<1>1. /\ Healthy /\ transition = Rest
      /\ transition' = [intent |-> intent, at |-> "ingress", plan |-> p]
      /\ UNCHANGED <<records, draft, plan, state, attached, terminal>>
  BY DEF Lifecycle, handleVars
<1>2. p.new = {} /\ p.base = state.revision /\ p.declarations = state.declarations
  BY DEF NoPlan
<1> HIDE DEF p
<1>3. transition'.at = "ingress" /\ transition'.plan = p
  BY <1>1
<1>4. Target.new = {} /\ state.revision \in Nat
  BY <1>1 DEF Target, Rest, NoPlan, IInv, Types
<1>5. \A e \in Drafts : Installed(e)' = Installed(e)
  BY <1>1, InstalledAgain
<1>6. HandleTypes'
  BY <1>1 DEF HInv, HandleTypes, Installations
<1>7. Places'
  BY <1>1, <1>2, <1>3, <1>4, <1>5 DEF HInv, Places, Pool, Installations, Target
<1>8. PlansAreTimely' /\ TargetIsTimely'
  BY <1>1, <1>2, <1>3, <1>4
     DEF HInv, PlansAreTimely, TargetIsTimely, Healthy, Target, Promising
<1>9. Handles'
  <2> SUFFICES ASSUME NEW r \in Installations PROVE Asked(r)' /\ Awaited(r)'
    BY <1>1 DEF Handles, Installations
  <2>1. Asked(r) /\ Awaited(r)
    BY DEF HInv, Handles
  <2>2. Asked(r)'
    BY <1>1, <1>2, <1>3, <1>5, <2>1 DEF Asked, Healthy, Target
  <2>3. Awaited(r)'
    BY <1>1, <1>4, <1>5, <2>1 DEF Awaited, Healthy, Target, Usable
  <2> QED BY <2>2, <2>3
<1> QED BY <1>6, <1>7, <1>8, <1>9 DEF HInv

\* A transition goes on, or ends without a commit: what waited for it waits for it
\* still, or asks a revision that is over.
LEMMA ContinueHandles ==
    ASSUME IInv, HInv, Executing, transition' = [transition EXCEPT !.at = transition'.at],
           transition'.at \in {"preparing", "finally"},
           transition'.at = "preparing" => transition.at # "finally" /\ state' = state,
           \/ state' = state
           \/ state' = [state EXCEPT !.revision = @ + 1],
           UNCHANGED <<records, draft, plan, attached, terminal>>
    PROVE  HInv'
<1>1. /\ plan \in [Drafts -> PlanRecords]
      /\ state.revision \in Nat
      /\ Target \in PlanRecords
  BY DEF IInv, Types, Target
<1>2. transition'.plan = transition.plan /\ transition'.at # "rest"
  BY DEF IInv, Types
<1>3. /\ state'.declarations = state.declarations /\ state'.phase = state.phase
      /\ state' = state \/ state'.revision = state.revision + 1
  BY DEF IInv, Types
<1>4. \A e \in Drafts : Installed(e)' = Installed(e)
  BY InstalledAgain
<1>5. HandleTypes'
  BY DEF HInv, HandleTypes, Installations
<1>6. Places'
  BY <1>2, <1>3, <1>4 DEF HInv, Places, Pool, Installations, Target
<1>7. \A e \in Drafts : plan[e].base \in Nat
  BY <1>1 DEF PlanRecords
<1>8. PlansAreTimely'
  BY <1>1, <1>3, <1>7 DEF HInv, PlansAreTimely, Healthy, Promising
<1>9. TargetIsTimely'
  BY <1>1, <1>2, <1>3 DEF HInv, TargetIsTimely, Healthy, Target, Executing, PlanRecords
<1>10. Handles'
  <2> SUFFICES ASSUME NEW r \in Installations PROVE Asked(r)' /\ Awaited(r)'
    BY DEF Handles, Installations
  <2>1. Asked(r) /\ Awaited(r)
    BY DEF HInv, Handles
  <2>2. CASE state' = state
    <3>1. Asked(r)'
      BY <1>2, <1>4, <2>1, <2>2 DEF Asked, Healthy, Target
    <3>2. Awaited(r)'
      BY <1>2, <1>4, <2>1, <2>2 DEF Awaited, Healthy, Target, Usable
    <3> QED BY <3>1, <3>2
  <2>3. CASE state'.revision = state.revision + 1
    <3>1. attached[r] # state.revision + 1 /\ attached[r] <= state.revision + 1
      <4>1. r \in Declared(state.declarations) => attached[r] \in {OfHost, Detachment}
        BY <2>1 DEF Asked
      <4>2. attached[r] \in {Detachment, OfDrafts, OfHost} \union Nat
        BY DEF HInv, HandleTypes
      <4> QED BY <1>1, <2>1, <4>1, <4>2 DEF Asked, OfHost, OfDrafts, Detachment
    <3>2. Asked(r)'
      BY <1>2, <1>3, <1>4, <2>1, <2>3, <3>1 DEF Asked, Healthy, Target
    <3>3. Awaited(r)'
      BY <1>3, <1>4, <2>1, <2>3, <3>1 DEF Awaited, Healthy
    <3> QED BY <3>2, <3>3
  <2> QED BY <1>3, <2>2, <2>3
<1> QED BY <1>5, <1>6, <1>8, <1>9, <1>10 DEF HInv

\* New records ask the Host, removed ones are told, and plans of the old revision
\* are asked in vain.
LEMMA CommitHandles ==
    ASSUME IInv, HInv, Commits
    PROVE  HInv'
<1> DEFINE old == Declared(state.declarations)
           new == Declared(Target.declarations)
<1>1. /\ Healthy /\ transition.at \in {"ingress", "preparing"}
      /\ state'.revision = state.revision + 1 /\ state'.declarations = Target.declarations
      /\ transition' = [transition EXCEPT !.at = "finally"]
      /\ CommittedHandles(new)
      /\ UNCHANGED <<records, draft, plan>>
  BY DEF Commits
<1>2. /\ plan \in [Drafts -> PlanRecords]
      /\ state.revision \in Nat
      /\ Target \in PlanRecords
      /\ state.phase \in {"stopped", "running", "quarantined"}
  BY DEF IInv, Types, Target
<1>3. Healthy'
  <2>1. state'.phase = IF transition.intent = "start" THEN "running"
                       ELSE IF transition.intent = "stop" THEN "stopped" ELSE state.phase
    BY DEF Commits
  <2> QED BY <1>1, <2>1 DEF Healthy
<1>4. transition'.plan = transition.plan /\ transition'.at = "finally"
  BY <1>1 DEF IInv, Types
<1>5. /\ Target.base = state.revision /\ Target.new \subseteq new
      /\ new \ old \subseteq Target.new
  BY <1>1 DEF HInv, TargetIsTimely
<1>6. \A e \in Drafts : Installed(e)' = Installed(e) /\ Pool(e)' = Pool(e)
  BY <1>1, InstalledAgain DEF Pool
<1>7. \A e \in Drafts : plan[e].base \in Nat
  BY <1>2 DEF PlanRecords
<1>8. \A r \in Installations :
        /\ attached'[r] = IF r \in new \ old THEN OfHost
                          ELSE IF r \in old \ new THEN Detachment ELSE attached[r]
        /\ terminal'[r] = IF r \in old \ new THEN "removed" ELSE terminal[r]
  BY <1>1 DEF CommittedHandles
<1>9. HandleTypes'
  BY <1>1 DEF HInv, HandleTypes, Installations, CommittedHandles
<1>10. Declared(state.declarations)' = new
  BY <1>1 DEF Declared
<1>11. Places'
  <2>1. \A e \in Drafts : Pool(e) \subseteq Installations \ (new \union Target.new)
    BY <1>5 DEF HInv, Places
  <2> QED BY <1>1, <1>4, <1>6, <1>10, <2>1 DEF HInv, Places, Installations, Target
<1>12. PlansAreTimely'
  BY <1>1, <1>2, <1>3, <1>7 DEF HInv, PlansAreTimely, Promising
<1>13. TargetIsTimely'
  BY <1>1, <1>2, <1>4, <1>5, <1>10 DEF TargetIsTimely, Target
<1>14. Handles'
  <2> SUFFICES ASSUME NEW r \in Installations PROVE Asked(r)' /\ Awaited(r)'
    BY <1>1 DEF Handles, Installations
  <2>1. Asked(r) /\ Awaited(r)
    BY DEF HInv, Handles
  <2>2. attached[r] \in {Detachment, OfDrafts, OfHost} \union Nat
    BY DEF HInv, HandleTypes
  <2>3. \A e \in Drafts : r \in Installed(e) \/ r \in plan[e].new => r \notin old \union new
    BY <1>5 DEF HInv, Places, Pool
  <2> HIDE DEF old, new
  <2>4. CASE r \in new
    <3>1. attached'[r] = OfHost
      BY <1>1, <1>8, <2>1, <2>4 DEF Asked, old
    <3>2. Asked(r)'
      BY <1>1, <1>3, <1>6, <1>10, <2>3, <2>4, <3>1 DEF Asked
    <3>3. Awaited(r)'
      BY <1>1, <1>2, <3>1 DEF Awaited, OfHost, OfDrafts
    <3> QED BY <3>2, <3>3
  <2>5. CASE r \in old \ new
    <3>1. attached'[r] = Detachment /\ terminal'[r] = "removed"
      BY <1>8, <2>5
    <3>2. Asked(r)'
      BY <1>1, <1>2, <1>3, <1>4, <1>5, <1>6, <1>10, <2>3, <2>5, <3>1
         DEF Asked, Detachment, OfHost, Target
    <3>3. Awaited(r)'
      BY <1>1, <1>2, <3>1 DEF Awaited, Detachment, OfDrafts
    <3> QED BY <3>2, <3>3
  <2>6. CASE r \notin old \union new
    <3>1. attached'[r] = attached[r] /\ terminal'[r] = terminal[r]
      BY <1>8, <2>6
    <3>2. attached[r] <= state.revision /\ attached[r] <= state.revision + 1
          /\ attached[r] # state.revision + 1
      BY <1>2, <2>1, <2>2, <2>6 DEF Asked, old, OfHost, OfDrafts, Detachment
    <3>3. Asked(r)'
      BY <1>1, <1>2, <1>3, <1>4, <1>5, <1>6, <1>10, <2>1, <2>2, <2>6, <3>1, <3>2
         DEF Asked, Target, old
    <3>4. Awaited(r)'
      BY <1>1, <1>2, <1>6, <2>1, <2>2, <3>1, <3>2 DEF Awaited, OfHost, OfDrafts, Detachment
    <3> QED BY <3>3, <3>4
  <2> QED BY <2>4, <2>5, <2>6
<1> QED BY <1>9, <1>11, <1>12, <1>13, <1>14 DEF HInv

\* Handles of what is committed are told of the quarantine, the others find out.
LEMMA QuarantineHandles ==
    ASSUME IInv, HInv, Quarantine
    PROVE  HInv'
<1> DEFINE old == Declared(state.declarations)
<1>1. /\ state' = [state EXCEPT !.phase = "quarantined", !.revision = @ + 1]
      /\ \A r \in Installations :
           /\ attached'[r] = IF r \in old THEN Detachment ELSE attached[r]
           /\ terminal'[r] = IF r \in old THEN "quarantined" ELSE terminal[r]
      /\ UNCHANGED <<records, draft, plan, transition>>
  BY DEF Quarantine
<1>2. /\ plan \in [Drafts -> PlanRecords]
      /\ state.revision \in Nat
      /\ Target \in PlanRecords
  BY DEF IInv, Types, Target
<1>3. /\ ~Healthy' /\ state'.revision = state.revision + 1
      /\ state'.declarations = state.declarations
  BY <1>1 DEF Healthy, IInv, Types
<1>4. \A e \in Drafts : Installed(e)' = Installed(e) /\ plan[e].base \in Nat
  BY <1>1, <1>2, InstalledAgain DEF PlanRecords
<1>5. HandleTypes'
  BY <1>1 DEF HInv, HandleTypes, Installations, Quarantine
<1>6. Places'
  BY <1>1, <1>3, <1>4 DEF HInv, Places, Pool, Installations, Target
<1>7. PlansAreTimely'
  BY <1>1, <1>2, <1>3, <1>4 DEF HInv, PlansAreTimely, Promising
<1>8. Target.base \in Nat
  BY <1>2 DEF PlanRecords
<1>9. TargetIsTimely'
  BY <1>1, <1>2, <1>3, <1>8 DEF HInv, TargetIsTimely, Target
<1>10. Handles'
  <2> SUFFICES ASSUME NEW r \in Installations PROVE Asked(r)' /\ Awaited(r)'
    BY <1>1 DEF Handles, Installations
  <2>1. Asked(r) /\ Awaited(r)
    BY DEF HInv, Handles
  <2>2. \A e \in Drafts : r \in Installed(e) \/ r \in plan[e].new => r \notin old
    BY DEF HInv, Places, Pool
  <2>3. Awaited(r)'
    BY <1>3 DEF Awaited
  <2>4. Asked(r)'
    <3>1. CASE r \in old
      BY <1>1, <1>3, <1>4, <2>2, <3>1 DEF Asked
    <3>2. CASE r \notin old
      <4>1. attached'[r] = attached[r] /\ terminal'[r] = terminal[r]
        BY <1>1, <3>2
      <4>2. attached[r] <= state.revision + 1 /\ attached[r] # state.revision + 1
        <5>1. attached[r] \in {Detachment, OfDrafts, OfHost} \union Nat
          BY DEF HInv, HandleTypes
        <5> QED BY <1>2, <2>1, <3>2, <5>1 DEF Asked, OfHost, OfDrafts, Detachment
      <4> QED BY <1>1, <1>2, <1>3, <1>4, <2>1, <3>2, <4>1, <4>2 DEF Asked, Target
    <3> QED BY <3>1, <3>2
  <2> QED BY <2>3, <2>4
<1> QED BY <1>5, <1>6, <1>7, <1>9, <1>10 DEF HInv

\* What the transition would have installed, and did not, is told.
LEMMA EndHandles ==
    ASSUME IInv, HInv, Ends
    PROVE  HInv'
<1> DEFINE old == Declared(state.declarations)
           new == Declared(Target.declarations)
<1>1. /\ Executing /\ transition' = Rest
      /\ \A r \in Installations :
           /\ attached'[r] = IF r \in new \ old THEN Detachment ELSE attached[r]
           /\ terminal'[r] = IF r \in new \ old THEN "removed" ELSE terminal[r]
      /\ UNCHANGED <<records, draft, plan, state>>
  BY DEF Ends, Detached
<1>2. state.revision \in Nat
  BY DEF IInv, Types
<1>3. transition'.at = "rest" /\ transition'.plan.new = {}
  BY <1>1 DEF Rest, NoPlan
<1>4. Target.new \subseteq new /\ new \ old \subseteq Target.new
  BY <1>1 DEF HInv, TargetIsTimely, Executing
<1>5. \A e \in Drafts : Installed(e)' = Installed(e)
  BY <1>1, InstalledAgain
<1>6. HandleTypes'
  BY <1>1 DEF HInv, HandleTypes, Installations, Ends, Detached
<1>7. Places'
  BY <1>1, <1>3, <1>5 DEF HInv, Places, Pool, Installations, Target
<1>8. PlansAreTimely' /\ TargetIsTimely'
  BY <1>1, <1>3 DEF HInv, PlansAreTimely, TargetIsTimely, Healthy, Promising
<1>9. Handles'
  <2> SUFFICES ASSUME NEW r \in Installations PROVE Asked(r)' /\ Awaited(r)'
    BY <1>1 DEF Handles, Installations
  <2>1. Asked(r) /\ Awaited(r)
    BY DEF HInv, Handles
  <2>2. CASE r \in new \ old
    <3>1. attached'[r] = Detachment /\ terminal'[r] = "removed"
      BY <1>1, <2>2
    <3>2. \A e \in Drafts : r \notin Installed(e) /\ r \notin plan[e].new
      BY <1>4, <2>2 DEF HInv, Places, Pool
    <3>3. Asked(r)'
      BY <1>1, <1>2, <1>3, <1>5, <2>2, <3>1, <3>2 DEF Asked, Detachment, OfHost, Target
    <3>4. Awaited(r)'
      BY <1>1, <1>2, <3>1 DEF Awaited, Detachment, OfDrafts
    <3> QED BY <3>3, <3>4
  <2>3. CASE r \notin new \ old
    <3>1. attached'[r] = attached[r] /\ terminal'[r] = terminal[r]
      BY <1>1, <2>3
    <3>2. Asked(r)'
      BY <1>1, <1>3, <1>5, <2>1, <3>1 DEF Asked, Healthy, Target
    <3>3. Healthy /\ attached[r] = state.revision => r \notin Target.new
      <4>1. Healthy /\ r \in old => attached[r] = OfHost
        BY <2>1 DEF Asked
      <4> QED BY <1>2, <1>4, <2>3, <4>1 DEF OfHost
    <3>4. Awaited(r)'
      BY <1>1, <1>5, <2>1, <3>1, <3>3 DEF Awaited, Healthy, Usable
    <3> QED BY <3>2, <3>4
  <2> QED BY <2>2, <2>3
<1> QED BY <1>6, <1>7, <1>8, <1>9 DEF HInv

LEMMA DraftsHandles ==
    ASSUME IInv, HInv, NEW d \in Drafts,
           \/ Change(d) \/ Plan(d) \/ PlanIssued(d) \/ PlanRejected(d)
           \/ ApplyStale(d) \/ ApplyNothing(d) \/ ApplyConflicting(d) \/ Apply(d)
           \/ \E n \in Names, g \in Groups \union {Root} :
                Group(d, n, g) \/ \E p \in Plugins : Install(d, n, g, p)
           \/ \E r \in Installations : Remove(d, r) \/ \E p \in Plugins : Update(d, r, p)
           \/ \E g \in Groups : RemoveGroup(d, g)
    PROVE  HInv'
<1>1. CASE Plan(d)
  BY <1>1, PlanHandles
<1>2. CASE PlanIssued(d)
  BY <1>2, IssuedHandles
<1>3. CASE PlanRejected(d) \/ ApplyStale(d) \/ ApplyNothing(d) \/ ApplyConflicting(d)
  BY <1>3, PlanEndsHandles
<1>4. CASE Apply(d)
  BY <1>4, ApplyHandles
<1>5. ASSUME NEW n \in Names, NEW g \in Groups \union {Root}, NEW p \in Plugins,
             Install(d, n, g, p)
      PROVE  HInv'
  BY <1>5, InstallHandles
<1>6. CASE \/ Change(d)
           \/ \E n \in Names, g \in Groups \union {Root} : Group(d, n, g)
           \/ \E r \in Installations : Remove(d, r) \/ \E p \in Plugins : Update(d, r, p)
           \/ \E g \in Groups : RemoveGroup(d, g)
  BY <1>6, DraftHandles
<1> QED BY <1>1, <1>2, <1>3, <1>4, <1>5, <1>6

LEMMA UntouchedHandles ==
    ASSUME IInv, HInv, UNCHANGED <<records, draft, plan, state, transition, attached, terminal>>
    PROVE  HInv'
<1>1. \A e \in Drafts : Installed(e)' = Installed(e)
  BY InstalledAgain
<1>2. \A e \in Drafts : IF draft'[e].state = "taken" THEN draft'[e].operations = {}
                        ELSE plan[e].new = {}
  BY DEF HInv, Places
<1>3. \A e \in Drafts : draft'[e].state = "none" => draft'[e].operations = {}
  BY DEF HInv, Places
<1> QED BY <1>1, <1>2, <1>3, SameHandles

LEMMA HandlesStep == IInv /\ HInv /\ [Next]_vars => HInv'
<1> SUFFICES ASSUME IInv, HInv, [Next]_vars PROVE HInv'
  OBVIOUS
<1>1. ASSUME NEW d \in Drafts,
             \/ Change(d) \/ Plan(d) \/ PlanIssued(d) \/ PlanRejected(d)
             \/ ApplyStale(d) \/ ApplyNothing(d) \/ ApplyConflicting(d) \/ Apply(d)
             \/ \E n \in Names, g \in Groups \union {Root} :
                  Group(d, n, g) \/ \E p \in Plugins : Install(d, n, g, p)
             \/ \E r \in Installations : Remove(d, r) \/ \E p \in Plugins : Update(d, r, p)
             \/ \E g \in Groups : RemoveGroup(d, g)
      PROVE  HInv'
  BY <1>1, DraftsHandles
<1>2. ASSUME NEW k \in Kinds, Claim(k) \/ CandidateClaims(k) PROVE HInv'
  BY <1>2, UntouchedHandles DEF Claim, CandidateClaims, handleVars
<1>3. ASSUME NEW intent \in {"start", "stop"}, Lifecycle(intent) PROVE HInv'
  BY <1>3, LifecycleHandles
<1>4. CASE Prepares \/ DirectFails \/ Restored
  <2>1. transition \in [intent : {"change", "start", "stop", "none"},
                        at : {"rest", "ingress", "preparing", "finally"}, plan : PlanRecords]
    BY DEF IInv, Types
  <2>2. CASE Prepares
    <3>1. transition'.at = "preparing"
      BY <2>1, <2>2 DEF Prepares
    <3> QED BY <2>2, <3>1, ContinueHandles DEF Prepares, Executing, handleVars
  <2>3. CASE DirectFails
    <3>1. transition'.at = "finally"
      BY <2>1, <2>3 DEF DirectFails
    <3> QED BY <2>3, <3>1, ContinueHandles DEF DirectFails, Executing, handleVars
  <2>4. CASE Restored
    <3>1. transition'.at = "finally"
      BY <2>1, <2>4 DEF Restored
    <3> QED BY <2>4, <3>1, ContinueHandles DEF Restored, Executing, handleVars
  <2> QED BY <1>4, <2>2, <2>3, <2>4
<1>5. CASE Commits
  BY <1>5, CommitHandles
<1>6. CASE Quarantine
  BY <1>6, QuarantineHandles
<1>7. CASE Ends
  BY <1>7, EndHandles
<1>8. CASE UNCHANGED vars
  BY <1>8, UntouchedHandles DEF vars
<1> QED BY <1>1, <1>2, <1>3, <1>4, <1>5, <1>6, <1>7, <1>8 DEF Next

\* In every reachable state a record waits in one place at most - a draft, a plan
\* or the transition - and its handle asks who is in charge of it there.
THEOREM HandlesAreAttached == Spec => []HInv
BY Invariance, InitHandles, HandlesStep, PTL DEF Spec

\* What a handle says of its installation is true in every reachable state, for any
\* drafts, records and revisions, although five operations switch handles and a
\* commit silences all plans of the revision before it (change-set.ts, plan.ts,
\* engine.ts).
THEOREM HandlesAreTruthful == Spec => []HandlesTellTheTruth
<1>1. ASSUME IInv, HInv, NEW r \in Installations, r \in Declared(state.declarations)
      PROVE  Status(r) = IF Healthy THEN "live" ELSE "quarantined"
  <2>1. IF Healthy THEN attached[r] = OfHost
        ELSE attached[r] = Detachment /\ terminal[r] = "quarantined"
    BY <1>1 DEF HInv, Handles, Asked
  <2> QED BY <1>1, <2>1 DEF Status, OfHost, OfDrafts, Detachment
<1>2. ASSUME IInv, HInv, NEW r \in Installations, r \notin Declared(state.declarations)
      PROVE  LET waits ==
                   \/ \E d \in Drafts :
                        \/ r \in Installed(d)
                        \/ r \in plan[d].new /\ (plan[d].state = "compiling" \/ Usable(d))
                   \/ r \in Target.new /\ Target.base = state.revision
             IN  Status(r) = IF Healthy /\ waits THEN "pending" ELSE "removed"
  <2> DEFINE waits ==
               \/ \E d \in Drafts :
                    \/ r \in Installed(d)
                    \/ r \in plan[d].new /\ (plan[d].state = "compiling" \/ Usable(d))
               \/ r \in Target.new /\ Target.base = state.revision
  <2>1. Asked(r) /\ Awaited(r) /\ state.revision \in Nat
    BY <1>2 DEF HInv, Handles, IInv, Types
  <2>2. attached[r] \in {Detachment, OfDrafts} \union Nat
    BY <1>2, <2>1 DEF HInv, HandleTypes, Asked
  <2>3. CASE attached[r] = Detachment
    <3>1. Status(r) = "removed"
      BY <1>2, <2>1, <2>3 DEF Status, Asked, OfHost, OfDrafts, Detachment
    <3>2. ~waits
      <4>1. \A d \in Drafts : plan[d].base \in Nat /\ Target.base \in Nat
        BY <1>2 DEF IInv, Types, PlanRecords, Target
      <4> QED BY <1>2, <2>1, <2>3, <4>1 DEF Asked, Detachment, OfDrafts, Usable
    <3> QED BY <3>1, <3>2
  <2>4. CASE attached[r] = OfDrafts
    <3>1. Status(r) = IF Healthy THEN "pending" ELSE "removed"
      BY <2>4 DEF Status, OfHost, OfDrafts, Detachment
    <3>2. Healthy => waits
      BY <2>1, <2>4 DEF Awaited
    <3> QED BY <3>1, <3>2
  <2>5. CASE attached[r] \in Nat
    <3>1. Status(r) = IF attached[r] = state.revision THEN "pending" ELSE "removed"
      BY <2>5 DEF Status, Detachment, OfDrafts, OfHost
    <3>2. CASE attached[r] = state.revision
      <4>1. Healthy
        BY <1>2, <2>1, <3>2 DEF Asked
      <4>2. r \in Target.new => Target.base = state.revision
        BY <1>2, <2>1, <3>2 DEF Asked
      <4>3. waits
        BY <2>1, <3>2, <4>1, <4>2 DEF Awaited
      <4> QED BY <3>1, <3>2, <4>1, <4>3
    <3>3. CASE attached[r] # state.revision
      <4>1. ~waits
        BY <1>2, <2>1, <2>5, <3>3 DEF Asked, Usable, OfDrafts
      <4> QED BY <3>1, <3>3, <4>1
    <3> QED BY <3>2, <3>3
  <2> QED BY <2>2, <2>3, <2>4, <2>5
<1>3. IInv /\ HInv => HandlesTellTheTruth
  BY <1>1, <1>2 DEF HandlesTellTheTruth
<1> QED BY Invariance, HandlesAreAttached, <1>3, PTL
=============================================================================
