------------------------- MODULE LifetimeOwnership --------------------------
(* Lifetime implements Ownership: the shutdown protocol keeps the promise.   *)
EXTENDS Lifetime

\* Active scopes are open; sealed, disposing and quarantined ones are closed.
OpenState(p) == CASE p = "absent"   -> "absent"
                  [] p = "active"   -> "open"
                  [] p = "disposed" -> "gone"
                  [] OTHER          -> "closed"

\* Running work and held or half-done releases are owed.
DebtOf(d) == CASE d = "free"    -> "free"
               [] d = "settled" -> "paid"
               [] d = "failed"  -> "lost"
               [] OTHER         -> "owed"

ScopeState == [s \in Scopes |-> OpenState(phase[s])]
RecordDebt == [r \in Records |-> DebtOf(duty[r])]

Promise == INSTANCE Ownership WITH
    state <- ScopeState, holder <- owner, debt <- RecordDebt

\* Every behaviour of the shutdown protocol is one the abstract owner allows:
\* a scope is gone only when its whole tree owes nothing, debts are taken on
\* only by open scopes, and lost ones stay lost.
KeepsPromise == Promise!Spec
=============================================================================
