------------------------------- MODULE CSISpecs -------------------------------
(***************************************************************************)
(* The specs of test/e2e/csi_operator_lifecycle_test.go that change the    *)
(* cluster, as programs for FDLifecycle, and the label filters that        *)
(* plans/csi-operator-fd-lifecycle-plan.md selects them by.                *)
(***************************************************************************)
EXTENDS SpecSteps, TLC

\* withInfrastructureRestore and removeFDAndSkipIfDenied.
RemoveFD == <<Defer("restore"), Do("removeFD")>>

Detached == <<Await("detached"), Await("noOrphan")>>

FD_REM_01 == <<Expect("attached")>> \o RemoveFD \o Detached \o <<Await("attached")>>

\* A pod with a volume, wherever the default StorageClass puts it: createTestNamespaceWithCleanup.
Smoke == <<Do("namespace"), Defer("deleteNamespace"), Defer("deleteVolume"), Do("smoke")>>
FD_REM_02 == RemoveFD \o <<Await("healthy")>> \o Smoke
FD_REM_03 == RemoveFD \o <<Await("detached")>>

\* Mutant: the volume's cleanup is registered last and runs first.
PV_SAFE_01_VolumeFirst ==
    <<Do("volume")>> \o RemoveFD
    \o <<Defer("deleteVolume"), Await("orphan"), Expect("attached"), Await("healthy")>>
PV_SAFE_01 ==
    <<Do("volume"), Defer("deleteVolume")>> \o RemoveFD
    \o <<Await("orphan"), Expect("attached"), Await("healthy")>>
PV_SAFE_02 == <<Do("volume")>> \o RemoveFD \o <<Await("orphan"), Do("deleteVolume")>> \o Detached
PV_SAFE_03 ==
    <<Do("volume"), Defer("deleteVolume")>> \o RemoveFD
    \o <<Await("orphan"), Do("force"), Defer("unforce")>> \o Detached

VC_REM_01 ==
    <<Defer("restoreHealthy"), Do("removeFD")>> \o Detached \o <<Do("removeVC"), Await("healthy")>>
VC_REM_02 ==
    <<Defer("restoreHealthy"), Do("removeFD"), Await("healthy"), Do("removeVC"), Await("healthy")>>

EDGE_02 == RemoveFD \o <<Await("detached"), Await("attached")>>
EDGE_03 == RemoveFD \o <<Await("healthy"), Await("attached")>>

Counted(event) == <<Do("scrape")>> \o RemoveFD \o <<Await("healthy"), Expect(event)>>
OBS_01 == Counted("detect")
OBS_02 == Counted("detach")
OBS_03 ==
    <<Do("volume"), Defer("deleteVolume"), Do("scrape")>> \o RemoveFD
    \o <<Await("orphan"), Expect("skip"), Expect("detect")>>

CSIProgram ==
    "FD-REM-01" :> FD_REM_01 @@ "FD-REM-02" :> FD_REM_02 @@ "FD-REM-03" :> FD_REM_03
    @@ "PV-SAFE-01" :> PV_SAFE_01 @@ "PV-SAFE-02" :> PV_SAFE_02 @@ "PV-SAFE-03" :> PV_SAFE_03
    @@ "VC-REM-01" :> VC_REM_01 @@ "VC-REM-02" :> VC_REM_02
    @@ "EDGE-02" :> EDGE_02 @@ "EDGE-03" :> EDGE_03
    @@ "OBS-01" :> OBS_01 @@ "OBS-02" :> OBS_02 @@ "OBS-03" :> OBS_03

\* Label filters of the plan, in the order of the file.
FDLabel     == <<"FD-REM-01", "FD-REM-02", "FD-REM-03">>
PVLabel     == <<"PV-SAFE-01", "PV-SAFE-02", "PV-SAFE-03">>
VCLabel     == <<"VC-REM-01", "VC-REM-02">>
P1Label     == <<"FD-REM-03", "PV-SAFE-03", "EDGE-02", "EDGE-03", "OBS-01", "OBS-02", "OBS-03">>
ObsLabel    == <<"OBS-01", "OBS-02", "OBS-03">>

\* FD-REM-01 fails where the removal is allowed (NoFalseFailure in FDLifecycle), and what
\* follows it is skipped: a focus in GINKGO_FLAGS runs the others without it.
FDFocus     == <<"FD-REM-02", "FD-REM-03">>
=============================================================================
