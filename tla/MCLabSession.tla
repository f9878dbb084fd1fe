--------------------------- MODULE MCLabSession ---------------------------
(***************************************************************************)
(* Instances of LabSession for TLC.                                        *)
(***************************************************************************)
EXTENDS LabSession, TLC

CONSTANTS s1, s2, h1, h2, a1, a2

Alike == Permutations({h1, h2}) \cup Permutations({a1, a2}) \cup Permutations({s1, s2})
=============================================================================
