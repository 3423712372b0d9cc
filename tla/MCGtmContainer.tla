--------------------------- MODULE MCGtmContainer ---------------------------
EXTENDS GtmContainer, TLC

CONSTANTS r1, r2, r3

\* Two releases of one provider write and a workspace plan of two.
ThreeKind == r1 :> "release" @@ r2 :> "workspace" @@ r3 :> "release"
ThreeSize == r1 :> 1 @@ r2 :> 2 @@ r3 :> 1

\* Callers are interchangeable, and so are the releases.
Symmetry == Permutations(Callers) \cup {r1 :> r3 @@ r2 :> r2 @@ r3 :> r1}
=============================================================================
