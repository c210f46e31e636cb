----------------------------- MODULE MCLifetime -----------------------------
(* The smallest ownership tree with an inside: a root with a child.        *)
EXTENDS LifetimeOwnership, LifetimeInvariant, TLC

CONSTANTS top, mid    \* scopes

PairScopes == {top, mid}
PairParent == mid :> top
PairSubtree == top :> {top, mid} @@ mid :> {mid}
=============================================================================
