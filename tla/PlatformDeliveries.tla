------------------------- MODULE PlatformDeliveries -------------------------
(* Platform implements Deliveries: an activation is delivered whole or not.  *)
EXTENDS Platform

\* What the Host has committed, whoever asks.
Running == [n \in Names |-> IF handle[n] = None THEN None ELSE origin[n]]
Selection == [n \in Names |-> IF n \in registered THEN selected[n] ELSE None]

\* An activation is entrusted from its handoff, takes effect when the Host
\* commits, and is fulfilled, rejected or stranded before it is answered.
RequestOf(r) ==
    CASE r.at = "free" -> "free"
      [] r.at = "done" -> "answered"
      [] r.at = "applying" /\ ~r.took -> "entrusted"
      [] r.at = "applying" /\ r.took -> "stranded"
      [] r.at = "applied" -> "effective"
      [] r.at = "settling" /\ r.outcome = "ok" -> "fulfilled"
      [] r.at = "settling" /\ r.outcome # "ok" /\ r.took -> "stranded"
      [] r.at = "settling" /\ r.outcome # "ok" /\ ~r.took /\ r.handed -> "rejected"
      [] OTHER -> "open"

WishOf(r) ==
    LET none == r.at \in {"free", "done"}
        R == IF none THEN {} ELSE r.roots
        D == IF none THEN {} ELSE r.removing
    IN  [roots |-> R, removing |-> D,
         edition |-> [n \in Names |-> IF n \in R \union D THEN r.record[n] ELSE 0]]

AnswerOf(r) == IF r.at = "done" THEN r.outcome ELSE "none"

Request == [o \in Operations |-> RequestOf(op[o])]
Wish == [o \in Operations |-> WishOf(op[o])]
Verdict == [o \in Operations |-> AnswerOf(op[o])]
Withdrawn == {o \in Pending : op[o].aborted}

Promised == INSTANCE Deliveries WITH
    Requests <- Operations,
    mode <- status, selection <- Selection, edition <- record, running <- Running,
    broken <- quarantined,
    request <- Request, wish <- Wish, cancelled <- Withdrawn, answer <- Verdict

\* activate() is linearizable (platform.ts 268-330): whatever is selected,
\* removed, cancelled, disposed or done to the Host meanwhile, an activation
\* takes effect whole at one instant, and its outcome says whether it did,
\* but for an error over which the Host was quarantined for good.
ImplementsDeliveries == Promised!Spec
=============================================================================
