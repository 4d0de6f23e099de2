---------------------------- MODULE MCMdbServer ----------------------------
(* Instances of MdbServer for TLC. *)
EXTENDS MdbServer, TLC

CONSTANTS s1, s2, c1, c2, v1, v2

TwoSteps == <<s1, s2>>
TwoCalls == {c1, c2}
TwoEvents == {v1, v2}
=============================================================================
