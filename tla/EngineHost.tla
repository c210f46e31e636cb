----------------------------- MODULE EngineHost -----------------------------
(* Engine implements Host: transitions keep the promise.                     *)
EXTENDS Engine

\* A Host in quarantine attempts nothing; before, a command attempts its change
\* from the moment it seals what it affects.
Attempt == CASE ~Healthy -> "none"
             [] Healthy /\ pc \in {"stopping", "preparing"} ->
                  IF cmd.kind = "apply" THEN "change" ELSE cmd.kind
             [] Healthy /\ pc \in {"undoing", "restoring"} -> "back"
             [] Healthy /\ pc = "undoingRestore" -> "doomed"
             [] OTHER -> "none"
\* What it is to lead to: the plan's composition, then that of the candidates.
Aim == CASE Healthy /\ pc = "stopping" -> Target
         [] Healthy /\ pc = "preparing" -> Scope.graph
         [] OTHER -> graph

\* Who can be reached: a published instance that has not been sealed.
Reachable == {i \in shown : phase[i] = "active"}

\* A plan is open from its compilation to its use or the next revision.
TicketOf(status) == CASE status = "none" -> "none"
                      [] status \in {"compiling", "issued"} -> "open"
                      [] OTHER -> "void"
Ticket == [p \in Plans |-> TicketOf(plans[p].status)]
Goals == [p \in Plans |-> plans[p].graph]

ValidGraphs == {g \in Graphs : Valid(g)}

Promised == INSTANCE Host WITH
    Compositions <- ValidGraphs,
    Roster <- [g \in Graphs |-> Members(g)],
    Uses <- [g \in Graphs |-> [x \in Installations |-> Needs(g, x)]],
    Tickets <- Plans,
    mode <- hostPhase, composition <- graph,
    attempt <- Attempt, target <- Aim,
    serving <- Reachable, served <- shown,
    ticket <- Ticket, goal <- Goals

\* Every behaviour of the engine is one of a Host that serves one whole
\* composition at a time, withdraws an instance only with everybody who needs
\* it, never serves an instance again and is changed only by current plans.
ImplementsHost == Promised!Spec
=============================================================================
