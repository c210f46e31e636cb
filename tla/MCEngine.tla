------------------------------ MODULE MCEngine ------------------------------
(* Small hosts for Engine: two installations, one of which provides what   *)
(* the other wants or, when they have swapped roles, needs.                 *)
EXTENDS EngineHost, TLC

CONSTANTS alpha, beta    \* installations

Decl(p, r, w) == [provides |-> p, requires |-> r, wants |-> w]
Provider == Decl({"s"}, {}, {})
Consumer == Decl({}, {"s"}, {})
Optional == Decl({}, {}, {"s"})

MCInstallations == {alpha, beta}
MCServices == {"s"}

Lonely   == beta :> Optional
Enriched == alpha :> Provider @@ beta :> Optional
Turned   == alpha :> Consumer @@ beta :> Provider

ChangeGraphs == {Lonely, Enriched, Turned}
MCFirstGraphs == {Lonely, Enriched}
=============================================================================
