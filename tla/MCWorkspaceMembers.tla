------------------------- MODULE MCWorkspaceMembers --------------------------
(* Small instances of WorkspaceMembers for TLC.                            *)
EXTENDS WorkspaceMembers, TLC

CONSTANTS u1, u2, u3, s1, s2

MCUsers == {u1, u2, u3}
MCSessions == {s1, s2}
Symmetry == Permutations(MCSessions)
==============================================================================
