--------------------------- MODULE MCLabLifecycle ---------------------------
(***************************************************************************)
(* Instances of LabLifecycle for TLC.  The vCenters are interchangeable in *)
(* every definition, so the safety runs reduce by their permutations.      *)
(***************************************************************************)
EXTENDS LabLifecycle, TLC

VCenterSymmetry == Permutations(VCenter)

Nothing         == {}
AnyInterference == {"add", "remove", "concurrent"}
=============================================================================
