---------------------------- MODULE MCBoothKiosk ----------------------------
(* Model values and symmetry for checking BoothKiosk. *)
EXTENDS BoothKiosk, TLC

CONSTANTS k1, k2, s1, s2

MCKiosk == {k1, k2}
MCStaff == {s1, s2}
MCSymmetry == Permutations(MCKiosk) \cup Permutations(MCStaff)
=============================================================================
