---------------------------- MODULE MCVdbServer ----------------------------
(* Instances of VdbServer for TLC. *)
EXTENDS VdbServer, TLC

CONSTANTS s1, s2, c1, p1, p2, p3, cola, root

TwoSteps == <<s1, s2>>
OneCall == {c1}
ThreePresses == {p1, p2, p3}
TwoSodas == {cola, root}
SodaSymmetry == Permutations(TwoSodas)
=============================================================================
