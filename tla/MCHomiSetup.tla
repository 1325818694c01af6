----------------------------- MODULE MCHomiSetup -----------------------------
(* The installer on small instances: up to four commands, two releases.    *)
EXTENDS HomiSetup, TLC

CONSTANTS p1, p2, p3, p4, r1, r2, d1, d2

MCProc       == {p1, p2, p3, p4}
MCFewProc    == {p1, p2, p3}
MCRelease    == {r1, r2}
MCSelections == {{}, Client}
NoClients    == {{}}
MCInode      == {d1, d2}

Symmetry == Permutations(MCProc) \cup Permutations(MCRelease) \cup Permutations(MCInode)
FewSymmetry == Permutations(MCFewProc) \cup Permutations(MCRelease) \cup Permutations(MCInode)
=============================================================================
