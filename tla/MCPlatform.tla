----------------------------- MODULE MCPlatform -----------------------------
(* Small platforms: one registration with two artifacts, and a registration *)
(* that others depend on.                                                   *)
EXTENDS PlatformDeliveries, TLC

CONSTANTS app, lib              \* registration names
CONSTANTS app1, lib1, lib2      \* artifacts

Free0 == [n \in {} |-> {}]
OneName == {lib}
OneArtifacts == {lib1, lib2}
OneNameOf == lib1 :> lib @@ lib2 :> lib
OneDeps == lib1 :> Free0 @@ lib2 :> Free0

TwoNames == {app, lib}
TwoArtifacts == {app1, lib1, lib2}
TwoNameOf == app1 :> app @@ lib1 :> lib @@ lib2 :> lib
\* app needs the first version of lib.
TwoDeps == app1 :> (lib :> {lib1}) @@ lib1 :> Free0 @@ lib2 :> Free0

Symmetry == Permutations(Operations)
=============================================================================
