----------------------------- MODULE MCFDLifecycle -----------------------------
(***************************************************************************)
(* Instances of FDLifecycle for TLC: the specs of CSISpecs.                *)
(***************************************************************************)
EXTENDS FDLifecycle

Specs == INSTANCE CSISpecs

MCProgram    == Specs!CSIProgram
AllLabels    == {Specs!FDLabel, Specs!PVLabel, Specs!VCLabel, Specs!P1Label, Specs!ObsLabel,
                 Specs!FDFocus}
OnlyEdge     == {<<"EDGE-02">>}
OnlyPV       == {Specs!PVLabel}
=============================================================================
