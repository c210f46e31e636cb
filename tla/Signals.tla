------------------------------- MODULE Signals -------------------------------
(***************************************************************************)
(* Signals and computed signals: packages/reactive/src/signals.ts.         *)
(*                                                                         *)
(* A computed node caches its result and the versions of what it read.     *)
(* Only an observed node subscribes to its dependencies; a write marks the *)
(* observed nodes above it and queues their observers, which are told when *)
(* no batch is open and may write, read, subscribe and leave themselves.   *)
(*                                                                         *)
(* A calculation reads one node and, depending on its value, another one,  *)
(* so that its dependencies change; it may throw.  Calculations that read  *)
(* themselves are left out.  The order in which queued observers are told  *)
(* and dependencies are checked is any order.                              *)
(***************************************************************************)
EXTENDS Integers, FiniteSets

CONSTANTS
    Sources,             \* writable signals, of the values 0 and 1
    Computed,
    First, Left, Right,  \* what a calculation reads: First, then Left or Right
    Faulty,              \* calculations that throw on two ones
    Observers,
    Watched,             \* what they may subscribe to
    MaxWrites, MaxDepth

Nodes == Sources \union Computed

ASSUME SignalsAssumption ==
    /\ First \in [Computed -> Nodes]
    /\ Left \in [Computed -> Nodes] /\ Right \in [Computed -> Nodes]
    /\ Watched \subseteq Nodes
    /\ MaxWrites \in Nat /\ MaxDepth \in Nat

VARIABLES
    graph,      \* all nodes, their edges and the global write version
    pending,    \* pendingSlots
    flushing,
    running,    \* is a listener running in the flush?
    depth,      \* batchDepth
    toldAt,     \* history: the write version when an observer was last told
    owed        \* history: observers whose node depended on a source that was
                \* written since

vars == <<graph, pending, flushing, running, depth, toldAt, owed>>

Nowhere == "nowhere"
Unknown == -2                           \* no #result yet
Error == -1                             \* the phase "error"
NoEdges == [n \in {} |-> [version |-> 0, subscribed |-> FALSE]]

Init ==
    /\ graph = [value |-> [n \in Nodes |-> IF n \in Sources THEN 0 ELSE Unknown],
                version |-> [n \in Nodes |-> 0],
                checkedAt |-> [c \in Computed |-> -1],
                invalidatedAt |-> [c \in Computed |-> -1],
                dependencies |-> [c \in Computed |-> NoEdges],
                observes |-> [o \in Observers |-> Nowhere],
                writeVersion |-> 0]
    /\ pending = {} /\ flushing = FALSE /\ running = FALSE
    /\ depth = 0
    /\ toldAt = [o \in Observers |-> -1] /\ owed = {}

-----------------------------------------------------------------------------
(* Edges.                                                                  *)

Dependencies(g, c) == DOMAIN g.dependencies[c]
Subscribed(g, c, n) == n \in Dependencies(g, c) /\ g.dependencies[c][n].subscribed
\* A node with listeners.
Observed(g, n) == \/ \E o \in Observers : g.observes[o] = n
                  \/ \E c \in Computed : Subscribed(g, c, n)
RECURSIVE DependsOn(_, _, _)
DependsOn(g, n, s) ==
    \/ n = s
    \/ n \in Computed /\ \E m \in Dependencies(g, n) : DependsOn(g, m, s)
Subscription(g, c, n, b) == [g EXCEPT !.dependencies[c][n].subscribed = b]

\* Mutant: only the node's own subscriptions go.
DetachOne(g, n) ==
    IF n \in Sources \/ Observed(g, n) THEN g
    ELSE [g EXCEPT !.dependencies[n] =
            [m \in Dependencies(g, n) |-> [@[m] EXCEPT !.subscribed = FALSE]]]

\* A node nobody listens to any more leaves its dependencies, and so on.
RECURSIVE Detach(_, _)
Detach(g, n) ==
    IF n \in Sources \/ Observed(g, n) \/ \A m \in Dependencies(g, n) : ~Subscribed(g, n, m) THEN g
    ELSE LET m == CHOOSE m \in Dependencies(g, n) : Subscribed(g, n, m)
         IN  Detach(Detach(Subscription(g, n, m, FALSE), m), n)

\* Mutant: what was not invalidated is fresh, observed or not.
FreshUntilInvalidated(g, n, changed) ==
    g.value[n] # Unknown /\ g.invalidatedAt[n] <= g.checkedAt[n]

\* May the cached result stay?
Fresh(g, n, changed) ==
    /\ g.value[n] # Unknown
    /\ g.invalidatedAt[n] <= g.checkedAt[n]
    /\ g.checkedAt[n] = g.writeVersion \/ ~changed

\* What a calculation makes of the one or two values it reads.
Calculate(c, v, w) ==
    CASE v = Error \/ w = Error -> Error
      [] v = 1 /\ w = 1 /\ c \in Faulty -> Error
      [] OTHER -> IF v = 0 THEN w ELSE 1 - w
Second(c, v) == IF v = 0 THEN Left[c] ELSE Right[c]

RECURSIVE Refresh(_, _), Checked(_, _, _), Attach(_, _)

\* #dependenciesChanged: refresh them until one has another version.
Checked(g, n, rest) ==
    IF rest = {} THEN [graph |-> g, changed |-> g.invalidatedAt[n] > g.checkedAt[n]]
    ELSE LET m == CHOOSE m \in rest : TRUE
             h == Refresh(g, m)
         IN  IF h.version[m] # h.dependencies[n][m].version
             THEN [graph |-> h, changed |-> TRUE]
             ELSE Checked(h, n, rest \ {m})

\* #evaluate, with the sources it meets; none after one that throws.
Evaluated(g, n) ==
    LET h == Refresh(g, First[n])
        v == h.value[First[n]]
        m == Second(n, v)
        k == Refresh(h, m)
    IN  IF v = Error THEN [graph |-> h, sources |-> {First[n]}, value |-> Error]
        ELSE [graph |-> k, sources |-> {First[n], m}, value |-> Calculate(n, v, k.value[m])]

\* #reconcileDependencies: leave what was not read, note the versions.
RECURSIVE Leaving(_, _, _)
Leaving(g, n, rest) ==
    IF rest = {} THEN g
    ELSE LET m == CHOOSE m \in rest : TRUE
             h == [g EXCEPT !.dependencies[n] = [k \in Dependencies(g, n) \ {m} |-> @[k]]]
         IN  Leaving(Detach(h, m), n, rest \ {m})
Reconciled(g, n, sources) ==
    LET h == Leaving(g, n, Dependencies(g, n) \ sources)
    IN  [h EXCEPT !.dependencies[n] =
           [m \in sources |-> [version |-> h.version[m], subscribed |-> Subscribed(h, n, m)]]]

\* #attachDependencies: a dependency that was not observed is refreshed and
\* attaches its own.
Attach(g, n) ==
    LET missing == {m \in Dependencies(g, n) : ~Subscribed(g, n, m)}
    IN  IF n \in Sources \/ missing = {} THEN g
        ELSE LET m == CHOOSE m \in missing : TRUE
                 h == Subscription(g, n, m, TRUE)
             IN  Attach(IF Observed(g, m) THEN h ELSE Attach(Refresh(h, m), m), n)

Refresh(g, n) ==
    IF n \in Sources THEN g
    ELSE LET known == g.value[n] # Unknown /\ g.invalidatedAt[n] <= g.checkedAt[n]
             check == IF known /\ g.checkedAt[n] # g.writeVersion
                      THEN Checked(g, n, Dependencies(g, n))
                      ELSE [graph |-> g, changed |-> FALSE]
             h == check.graph
         IN  IF Fresh(h, n, check.changed) THEN [h EXCEPT !.checkedAt[n] = h.writeVersion]
             ELSE LET e == Evaluated(h, n)
                      r == Reconciled(e.graph, n, e.sources)
                      k == [r EXCEPT !.version[n] = IF @ = 0 \/ r.value[n] # e.value THEN @ + 1 ELSE @,
                                     !.value[n] = e.value,
                                     !.checkedAt[n] = r.writeVersion]
                  IN  IF Observed(k, n) THEN Attach(k, n) ELSE k

-----------------------------------------------------------------------------
(* Writing.                                                                *)

\* Mutant: a node that is out of date already does not forward.
ForwardsFresh(g, c) == g.invalidatedAt[c] <= g.checkedAt[c]
\* #invalidate: once per write.
Forwards(g, c) == g.invalidatedAt[c] # g.writeVersion

\* The nodes a publication reaches, marked on the way.
RECURSIVE Invalidated(_, _)
Invalidated(g, ns) ==
    LET next == {c \in Computed : Forwards(g, c) /\ \E n \in ns : Subscribed(g, c, n)}
    IN  IF next = {} THEN g
        ELSE Invalidated([g EXCEPT !.invalidatedAt =
               [c \in Computed |-> IF c \in next THEN g.writeVersion ELSE @[c]]], next)

\* User code runs: outside of a flush, or as one of its listeners.
Free == ~flushing \/ running

Flush(p) == flushing' = (flushing \/ (depth' = 0 /\ p # {}))

Written(g, s) == [g EXCEPT !.value[s] = 1 - @, !.version[s] = @ + 1, !.writeVersion = @ + 1]

\* publish: observers of what was reached are queued, at the write.
Set(s) ==
    LET g == Written(graph, s)
        h == Invalidated(g, {s})
        reached == {s} \union {c \in Computed : h.invalidatedAt[c] # g.invalidatedAt[c]}
    IN  /\ Free /\ graph.writeVersion < MaxWrites
        /\ graph' = h
        /\ pending' = pending \union {o \in Observers : h.observes[o] \in reached}
        /\ owed' = owed \union {o \in Observers : /\ graph.observes[o] # Nowhere
                                                 /\ DependsOn(graph, graph.observes[o], s)}
        /\ UNCHANGED <<running, depth, toldAt>>
        /\ Flush(pending')

Get(c) ==
    /\ Free
    /\ graph' = Refresh(graph, c)
    /\ UNCHANGED <<pending, flushing, running, depth, toldAt, owed>>

-----------------------------------------------------------------------------
(* Observers.                                                              *)

Subscribe(o, n) ==
    LET g == [graph EXCEPT !.observes[o] = n]
        h == Refresh(g, n)
    IN  /\ Free /\ graph.observes[o] = Nowhere
        /\ graph' = IF n \in Sources THEN g
                    ELSE IF h.value[n] = Error
                         THEN Detach([h EXCEPT !.observes[o] = Nowhere], n)
                         ELSE IF Observed(graph, n) THEN h ELSE Attach(h, n)
        /\ UNCHANGED <<pending, flushing, running, depth, toldAt, owed>>

\* A slot that waits keeps its place but has no listener any more.
Unsubscribe(o) ==
    /\ Free /\ graph.observes[o] # Nowhere
    /\ graph' = Detach([graph EXCEPT !.observes[o] = Nowhere], graph.observes[o])
    /\ pending' = pending \ {o}
    /\ toldAt' = [toldAt EXCEPT ![o] = -1] /\ owed' = owed \ {o}
    /\ UNCHANGED <<flushing, running, depth>>

BatchBegins ==
    /\ Free /\ depth < MaxDepth
    /\ depth' = depth + 1
    /\ UNCHANGED <<graph, pending, flushing, running, toldAt, owed>>

BatchEnds ==
    /\ Free /\ depth > 0
    /\ depth' = depth - 1
    /\ Flush(pending)
    /\ UNCHANGED <<graph, pending, running, toldAt, owed>>

\* flushPendingListeners, one listener after the other.
Tell(o) ==
    /\ flushing /\ ~running /\ o \in pending
    /\ pending' = pending \ {o}
    /\ running' = TRUE
    /\ toldAt' = [toldAt EXCEPT ![o] = graph.writeVersion] /\ owed' = owed \ {o}
    /\ UNCHANGED <<graph, flushing, depth>>

ListenerReturns ==
    /\ running /\ depth = 0
    /\ running' = FALSE
    /\ UNCHANGED <<graph, pending, flushing, depth, toldAt, owed>>

FlushEnds ==
    /\ flushing /\ ~running /\ pending = {}
    /\ flushing' = FALSE
    /\ UNCHANGED <<graph, pending, running, depth, toldAt, owed>>

Next ==
    \/ \E s \in Sources : Set(s)
    \/ \E c \in Computed : Get(c)
    \/ \E o \in Observers :
         Unsubscribe(o) \/ Tell(o) \/ \E n \in Watched : Subscribe(o, n)
    \/ BatchBegins \/ BatchEnds \/ ListenerReturns \/ FlushEnds

Spec == Init /\ [][Next]_vars

-----------------------------------------------------------------------------
TypeOK ==
    /\ graph.value \in [Nodes -> {Unknown, Error, 0, 1}]
    /\ graph.version \in [Nodes -> Nat]
    /\ graph.writeVersion \in 0 .. MaxWrites
    /\ graph.checkedAt \in [Computed -> -1 .. MaxWrites]
    /\ graph.invalidatedAt \in [Computed -> -1 .. MaxWrites]
    /\ \A c \in Computed :
         /\ Dependencies(graph, c) \subseteq Nodes
         /\ graph.dependencies[c] \in
              [Dependencies(graph, c) -> [version : Nat, subscribed : BOOLEAN]]
    /\ graph.observes \in [Observers -> Nodes \union {Nowhere}]
    /\ pending \subseteq Observers /\ flushing \in BOOLEAN /\ running \in BOOLEAN
    /\ owed \subseteq Observers /\ depth \in 0 .. MaxDepth /\ toldAt \in [Observers -> -1 .. MaxWrites]

\* The value of a node as its calculation defines it.
RECURSIVE Pure(_)
Pure(n) ==
    IF n \in Sources THEN graph.value[n]
    ELSE LET v == Pure(First[n])
         IN  IF v = Error THEN Error ELSE Calculate(n, v, Pure(Second(n, v)))

\* Whoever reads a computed signal gets what its calculation yields now, in a
\* batch, in a listener, in a diamond whose sides were read before or after the
\* write, observed or not (the caches of lines 328 to 364).
ReadsAreFresh == \A c \in Computed : Refresh(graph, c).value[c] = Pure(c)

\* Who waits to be told are exactly the observers of what depended on a source
\* when it was written: a diamond queues them once, an unread cache forwards
\* later writes, a reentrant observer's write is not taken for the one already
\* published, and who came after the write is not told of it (lines 79 to 100
\* and 308 to 313).
QueueIsExact == pending = owed

\* When what a node computed last is no longer true, each of its observers will
\* be told, or has been told since it was computed: also if other nodes were
\* read in between and have other dependencies now (lines 328 to 398).
NobodyIsLeftBehind ==
    \A o \in Observers : LET n == graph.observes[o] IN
        n \in Computed /\ graph.value[n] # Pure(n)
          => o \in pending \/ toldAt[o] > graph.checkedAt[n]

\* A change reaches everybody whom it concerns, and nobody else.
ObserversAreTold == QueueIsExact /\ NobodyIsLeftBehind

\* A computed node subscribes to all it depends on while somebody listens, and
\* to nothing otherwise, so that a source does not keep unused values alive
\* (line 211), although subscribing may fail and dependencies come and go.
EdgesFollowObservers ==
    \A c \in Computed : \A n \in Dependencies(graph, c) :
        Subscribed(graph, c, n) <=> Observed(graph, c)
=============================================================================
