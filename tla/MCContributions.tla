--------------------------- MODULE MCContributions --------------------------
(* One extension point: an old and a new claim of one key, a claim of        *)
(* another key, and two consumers.                                           *)
EXTENDS Contributions, TLC

CONSTANTS menu             \* the extension point
CONSTANTS old, new, other  \* contributions
CONSTANTS v1, v2           \* consumers

MCTokens == {menu}
MCClaims == {old, new, other}
MCTokenOf == [c \in MCClaims |-> menu]
MCKeyOf == [c \in MCClaims |-> IF c = other THEN "b" ELSE "a"]
MCViewers == {v1, v2}
MCViewOf == [v \in MCViewers |-> menu]

\* The contributions of one key are alike, and so are the consumers.
Symmetry == Permutations({old, new}) \union Permutations(MCViewers)
=============================================================================
