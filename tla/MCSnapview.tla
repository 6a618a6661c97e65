----------------------------- MODULE MCSnapview -----------------------------
(* Model-checking instance of SnapviewMgmt: snapshot names, uuids and glfs *)
(* handles are model values; all three are interchangeable, so safety runs *)
(* use their permutations as symmetry.                                      *)
EXTENDS SnapviewMgmt

CONSTANTS n1, n2, u1, u2, u3, h1, h2

MC_Names == {n1, n2}
MC_Uuids == {u1, u2, u3}
MC_Handles == {h1, h2}
MC_OneHandle == {h1}

MC_Symmetry == Permutations(MC_Names) \cup Permutations(MC_Uuids)
                 \cup Permutations(MC_Handles)
=============================================================================
