------------------------- MODULE LifetimeInvariant -------------------------
(***************************************************************************)
(* The inductive invariant behind the safety properties of Lifetime.  The   *)
(* properties themselves are not inductive: that a disposed scope is empty, *)
(* say, follows only from what each await of #finishShutdown has left       *)
(* behind, so the invariant says what is true between any two awaits.       *)
(***************************************************************************)
EXTENDS Lifetime

\* The phase, the work and the completion of a scope agree.
Lifecycle ==
    \A s \in Scopes :
        /\ completion[s] = "none" <=> phase[s] \in {"absent", "active", "sealed"}
        /\ completion[s] = "none" <=> work[s] = "none"
        /\ phase[s] = "disposed" <=> work[s] = "fulfilled"
        /\ phase[s] = "quarantined" <=> work[s] = "rejected" \/ TimedOut(s)
        /\ Settled(s) => completion[s] \in {"resolved", "rejected"}
        /\ completion[s] = "resolved" => work[s] = "fulfilled"
        /\ work[s] \in {"retained", "rejected"} => errors[s]
        /\ work[s] = "fulfilled" => ~errors[s]

\* What a scope has gone through, everything below it has gone through.
Descent ==
    \A s \in Scopes : \A t \in Subtree[s] :
        /\ phase[s] = "absent" => phase[t] = "absent"
        /\ phase[t] = "active" => phase[s] = "active"
        /\ phase[s] = "disposed" => phase[t] \in {"absent", "disposed"}
        /\ completion[s] # "none" /\ Attached(t) => completion[t] # "none"

\* A borrowed scope is open, up to the root.
Borrows ==
    \A t \in Scopes : foreground[t] > 0 =>
        /\ phase[t] # "absent"
        /\ \A s \in Scopes : t \in Subtree[s] => completion[s] = "none"

\* A scope that shuts down has had its tree cancelled, or a dispose() call
\* that covers it is about to do that.
Cancelled(s) == \A t \in Subtree[s] : Attached(t) => t \in aborted
Covered(s)   == \E k \in DOMAIN calls : s \in Subtree[calls[k]]
Cancellation ==
    \A s \in Scopes : completion[s] # "none" =>
        /\ Cancelled(s) \/ Covered(s)
        /\ work[s] # "queued" => Cancelled(s)

\* What may be owed for a record of each kind.
DutiesOf(k) == CASE k = "none"        -> {"free"}
                 [] k = "cleanup"     -> Held \union {"releasing", "settled", "failed"}
                 [] k = "interrupt"   -> {"owned", "releasing", "settled", "failed"}
                 [] k = "publication" -> {"staged", "settled", "failed"}
                 [] OTHER             -> {"working", "settled"}

Shape ==
    \A r \in Records :
        /\ duty[r] \in DutiesOf(kind[r])
        /\ duty[r] # "free" => phase[owner[r]] # "absent"
        /\ r \in joining => \/ kind[r] = "acquisition" /\ duty[r] = "working"
                            \/ kind[r] = "cleanup" /\ duty[r] = "releasing"
        /\ kind[r] = "acquisition" /\ duty[r] = "working" => r \in joining

\* Cleanups, interrupts and publications of a scope have distinct numbers.
Numbered == {r \in Records : kind[r] \in {"cleanup", "interrupt", "publication"}}
Numbering ==
    /\ \A r \in Numbered : id[r] <= sequence[owner[r]]
    /\ \A r, q \in Numbered : r # q /\ owner[r] = owner[q] => id[r] # id[q]

\* A failure has been reported by the scope it happened in and, once collected,
\* by some scope below the one that collected it; the Host has blocked the tree.
Reports ==
    /\ \A r \in Records : duty[r] = "failed" => owner[r] \in reported
    /\ \A s \in Scopes : errors[s] \/ TimedOut(s) => reported \intersect Subtree[s] # {}
    /\ reported # {} => phase[Root] # "active"

Mine(s, k) == {r \in Records : owner[r] = s /\ kind[r] = k}

\* Publications are withdrawn when the join of their scope is reserved.
Withdrawal ==
    \A s \in Scopes : \A r \in Mine(s, "publication") :
        /\ completion[s] # "none" => duty[r] # "staged"
        /\ completion[s] = "none" => duty[r] # "failed"
        /\ work[s] \notin {"none", "queued"} /\ duty[r] = "failed" => errors[s]

PastAcquisitions == {"children", "cleanups", "retained", "fulfilled", "rejected"}
PastTasks        == PastAcquisitions \union {"acquisitions"}
PastInterrupts   == PastTasks \union {"tasks"}

\* What the awaits of #finishShutdown have left behind.
InterruptsJoined(s) ==
    /\ work[s] = "interrupts" => awaiting[s] \subseteq Mine(s, "interrupt")
    /\ \A r \in Mine(s, "interrupt") :
         /\ work[s] = "interrupts" =>
              duty[r] # "owned" /\ (duty[r] # "settled" => r \in awaiting[s])
         /\ work[s] \in PastInterrupts =>
              duty[r] \in {"settled", "failed"} /\ (duty[r] = "failed" => errors[s])
TasksJoined(s) ==
    \A r \in Mine(s, "task") :
        /\ work[s] = "tasks" /\ duty[r] = "working" => r \in awaiting[s]
        /\ work[s] \in PastTasks => duty[r] = "settled"
AcquisitionsJoined(s) ==
    \A r \in joining : owner[r] = s =>
        /\ work[s] = "acquisitions" => r \in awaiting[s]
        /\ work[s] \notin PastAcquisitions
Joins == \A s \in Scopes : InterruptsJoined(s) /\ TasksJoined(s) /\ AcquisitionsJoined(s)

\* The children that were captured are all there are, and the resources of a
\* scope are released only when they have gone.
Offspring ==
    /\ \A s \in Scopes : \A c \in children[s] : c # Root /\ Parent[c] = s
    /\ \A c \in Scopes \ {Root} :
         /\ work[Parent[c]] \notin {"none", "queued"} /\ Attached(c) =>
              c \in children[Parent[c]]
         /\ work[Parent[c]] \in {"cleanups", "fulfilled"} =>
              phase[c] \in {"absent", "disposed"}

\* The release loop: what it no longer waits for is newer and over.
Released(s) ==
    /\ awaiting[s] \subseteq Mine(s, "cleanup")
    /\ \A q \in Mine(s, "cleanup") \ awaiting[s] : duty[q] # "settled" =>
         /\ duty[q] = "failed" /\ errors[s]
         /\ \A r \in awaiting[s] : id[r] < id[q]
Emptied(s) == \A r \in Records : owner[r] = s => duty[r] \in {"free", "settled"}
Releases ==
    \A s \in Scopes : /\ work[s] = "cleanups" => Released(s)
                      /\ work[s] = "fulfilled" => Emptied(s)

\* Only staged publications of open scopes are visible.
Visibility ==
    \A r \in visible : /\ published
                       /\ kind[r] = "publication" /\ duty[r] = "staged"
                       /\ completion[owner[r]] = "none"

\* The shutdown protocol keeps its own books: this is what every step of
\* Lifetime preserves, and the safety properties follow from it.
IInv == /\ TypeOK /\ Lifecycle /\ Descent /\ Borrows /\ Cancellation
        /\ Shape /\ Numbering /\ Reports /\ Withdrawal /\ Joins
        /\ Offspring /\ Releases /\ Visibility
=============================================================================
