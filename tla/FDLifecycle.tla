----------------------------- MODULE FDLifecycle -----------------------------
(***************************************************************************)
(* The specs that take the failure domain (FD) of the second vCenter, or   *)
(* the vCenter itself, out of Infrastructure/cluster and put it back, run  *)
(* against the vSphere CSI operator, which tags the datastore of an FD and *)
(* takes the tag off once the FD is gone and no volume is left on it.      *)
(*                                                                         *)
(* A spec is a program of steps (SpecSteps; CSISpecs has the programs).    *)
(* What it changes is undone by the cleanups it registered (DeferCleanup), *)
(* which Ginkgo runs last in, first out, whether the spec has passed,      *)
(* failed or been skipped.  The container is Ordered: after a failed spec  *)
(* the others are skipped.  AfterAll and AfterSuite follow.                *)
(*                                                                         *)
(* A vCenter session and the checks of what the model never changes        *)
(* (storage class, SPBM profiles, CSI config, PVC phase) are part of the   *)
(* steps around them.                                                      *)
(***************************************************************************)
EXTENDS Naturals, Sequences, SpecSteps

CONSTANTS
    Program,      \* the steps of each spec
    Selections,   \* the sequences of specs that a label filter may select
    MaxFaults     \* bound: calls that fail, and waits that time out too early

SpecNames == DOMAIN Program

ASSUME ProgramAssumption   == Program \in [SpecNames -> Seq(Step)]
ASSUME ScopeAssumption     == \A s \in SpecNames : Scoped(Program[s])
ASSUME SelectionAssumption == \A s \in Selections : s \in Seq(SpecNames) /\ s # <<>>
ASSUME FaultAssumption     == MaxFaults \in Nat

\* What Infrastructure names of the second site after `make apply-lab`.
Full == {"fd", "vc"}

VARIABLES
    plan,      \* the specs the label filter has selected
    policy,    \* is the VAP that protects the FDs of Machines installed?
    infra,     \* what Infrastructure names of the second site
    volumes,   \* the specs whose CNS volume is on the FD's datastore
    namespaces,\* the specs whose test namespace exists
    listed,    \* csiOpTestNS: the specs whose namespace AfterAll is to delete
    force,     \* ClusterCSIDriver has the force-orphan-cleanup annotation
    tag,       \* the FD's datastore has the cluster's tag
    orphan,    \* OrphanCleanupPending of ClusterOperator/storage
    synced,    \* the operator has reconciled the Infrastructure of now
    counted,   \* the metrics that have increased since the last scrape
    at, pc,    \* the spec of plan that runs, and its next step
    phase,     \* what the runner does
    verdict,   \* the outcome of the spec that runs
    cleanups,  \* the stack of its cleanups
    results,   \* the outcomes of the specs that have run
    early,     \* the specs whose wait was over before the operator reconciled
    broken,    \* the cleanups that have failed
    faults

operator == <<tag, orphan, synced, counted>>
cluster  == <<infra, volumes, namespaces, force>>
runner   == <<at, pc, phase, verdict, cleanups, results, early, listed>>
vars     == <<plan, policy, cluster, operator, runner, broken, faults>>

Outcome   == {"passed", "failed", "skipped"}
Cleanup   == [undo : Undo, backup : SUBSET Full]
Breakable == Undo \cup {"namespace", "suite"}

TypeOK ==
    /\ plan \in Selections
    /\ policy \in BOOLEAN
    /\ infra \subseteq Full
    /\ volumes \subseteq SpecNames
    /\ namespaces \subseteq SpecNames
    /\ listed \subseteq SpecNames
    /\ force \in BOOLEAN
    /\ tag \in BOOLEAN
    /\ orphan \in {"absent", "False", "True"}
    /\ synced \in BOOLEAN
    /\ counted \subseteq Events
    /\ at \in 1..Len(plan)
    /\ pc \in Nat \ {0}
    /\ phase \in {"run", "cleanup", "afterAll", "afterSuite", "done"}
    /\ verdict \in Outcome
    /\ cleanups \in Seq(Cleanup)
    /\ results \in Seq(Outcome)
    /\ early \subseteq SpecNames
    /\ broken \subseteq Breakable
    /\ faults \in 0..MaxFaults

Init ==
    /\ plan \in Selections
    /\ policy \in BOOLEAN
    /\ infra = Full
    /\ volumes = {}
    /\ namespaces = {} /\ listed = {}
    /\ force = FALSE
    /\ tag = TRUE
    /\ orphan \in {"absent", "False"}
    /\ synced = TRUE
    /\ counted = {}
    /\ at = 1 /\ pc = 1
    /\ phase = "run"
    /\ verdict = "passed"
    /\ cleanups = <<>>
    /\ results = <<>>
    /\ early = {}
    /\ broken = {}
    /\ faults = 0

-----------------------------------------------------------------------------
(* The operator, as the specs expect it: it tags the datastore of an FD;   *)
(* it takes the tag off a datastore no FD names unless volumes are on it   *)
(* and it is not forced; and without the vCenter it has no tags to manage. *)

Blocked == volumes # {} /\ ~force

Wanted ==
    IF "fd" \in infra THEN [tag |-> TRUE, orphan |-> "False"]
    ELSE IF "vc" \notin infra THEN [tag |-> tag, orphan |-> "False"]
    ELSE IF tag /\ Blocked THEN [tag |-> TRUE, orphan |-> "True"]
    ELSE [tag |-> FALSE, orphan |-> "False"]

Settled == synced /\ tag = Wanted.tag /\ orphan = Wanted.orphan

Observed ==
    IF infra # {"vc"} \/ ~tag THEN {}
    ELSE {"detect", IF Blocked THEN "skip" ELSE "detach"}

Reconcile ==
    /\ ~Settled
    /\ tag' = Wanted.tag
    /\ orphan' = Wanted.orphan
    /\ synced' = TRUE
    /\ counted' = counted \cup Observed
    /\ UNCHANGED <<plan, policy, cluster, runner, broken, faults>>

-----------------------------------------------------------------------------
(* The steps of a spec.                                                    *)

Current == plan[at]
Steps   == Program[Current]

\* The spec is about to take a step of this kind.
AtStep(op) == phase = "run" /\ pc <= Len(Steps) /\ Steps[pc].op = op
Arg        == Steps[pc].arg

\* Go on to the next step, or end the spec and run its cleanups.
Advance == pc' = pc + 1 /\ UNCHANGED <<phase, verdict>>
EndAs(outcome) == verdict' = outcome /\ phase' = "cleanup" /\ UNCHANGED pc

\* IsDatastoreTagged, the condition of the storage operator, the metrics.
\* The operator is seen stable whether or not it has reconciled.
Holds(cond) ==
    \/ cond = "attached" /\ tag
    \/ cond = "detached" /\ ~tag
    \/ cond = "orphan"   /\ orphan = "True"
    \/ cond = "noOrphan" /\ orphan # "True"
    \/ cond = "healthy"
    \/ cond \in counted

\* A check that is made once.
ExpectStep ==
    /\ AtStep("expect")
    /\ IF Holds(Arg) THEN Advance ELSE EndAs("failed")
    /\ UNCHANGED <<plan, policy, cluster, operator, at, cleanups, results, early, listed, broken, faults>>

\* Eventually(...).Should(BeTrue()) ends as soon as a poll succeeds.
AwaitStep ==
    /\ AtStep("await") /\ Holds(Arg)
    /\ Advance
    /\ early' = IF Arg \in {"orphan", "detached"} /\ ~synced THEN early \cup {Current} ELSE early
    /\ UNCHANGED <<plan, policy, cluster, operator, at, cleanups, results, listed, broken, faults>>

\* What the step waits for cannot come any more: it times out.
Hopeless ==
    /\ Settled
    /\ \/ AtStep("await") /\ ~Holds(Arg)
       \/ AtStep("volume") /\ ~tag

TimeOut ==
    /\ Hopeless
    /\ EndAs("failed")
    /\ UNCHANGED <<plan, policy, cluster, operator, at, cleanups, results, early, listed, broken, faults>>

\* DeferCleanup; a cleanup that restores keeps the Infrastructure of now.
DeferStep ==
    /\ AtStep("defer")
    /\ cleanups' = <<[undo |-> Arg, backup |-> infra]>> \o cleanups
    /\ Advance
    /\ UNCHANGED <<plan, policy, cluster, operator, at, results, early, listed, broken, faults>>

\* removeFDAndSkipIfDenied: the suite's Machine is in the FD, so that the
\* policy denies its removal.
SkipIfDenied ==
    /\ AtStep("removeFD") /\ policy
    /\ EndAs("skipped")
    /\ UNCHANGED <<plan, policy, cluster, operator, at, cleanups, results, early, listed, broken, faults>>

Remove(op, what) ==
    /\ AtStep(op)
    /\ infra' = infra \ {what}
    /\ synced' = FALSE
    /\ Advance
    /\ UNCHANGED <<plan, policy, volumes, namespaces, force, tag, orphan, counted, at, cleanups, results, early, listed, broken, faults>>

RemoveFD == ~policy /\ Remove("removeFD", "fd")
RemoveVC == Remove("removeVC", "vc")

\* Wherever a volume may be once a pod uses it: the storage policy selects
\* datastores by their tag.
Placements == IF tag THEN {volumes, volumes \cup {Current}} ELSE {volumes}

\* createTestNamespace, which AfterAll is to delete; a PVC and a pod in the
\* FD's zone, so that the pod runs only when the tag is there.
CreateVolume ==
    /\ AtStep("volume") /\ tag
    /\ namespaces' = namespaces \cup {Current}
    /\ listed' = listed \cup {Current}
    /\ volumes' = volumes \cup {Current}
    /\ Advance
    /\ UNCHANGED <<plan, policy, infra, force, operator, at, cleanups, results, early, broken, faults>>

\* createTestNamespaceWithCleanup, which AfterAll does not know.
CreateNamespace ==
    /\ AtStep("namespace")
    /\ namespaces' = namespaces \cup {Current}
    /\ Advance
    /\ UNCHANGED <<plan, policy, infra, volumes, force, operator, at, cleanups, results, early, listed, broken, faults>>

\* A pod that may run anywhere, on the first vCenter at least.
SmokeTest ==
    /\ AtStep("smoke")
    /\ volumes' \in Placements
    /\ Advance
    /\ UNCHANGED <<plan, policy, infra, namespaces, force, operator, at, cleanups, results, early, listed, broken, faults>>

DeleteVolume ==
    /\ AtStep("deleteVolume")
    /\ volumes' = volumes \ {Current}
    /\ Advance
    /\ UNCHANGED <<plan, policy, infra, namespaces, force, operator, at, cleanups, results, early, listed, broken, faults>>

ForceCleanup ==
    /\ AtStep("force")
    /\ force' = TRUE
    /\ Advance
    /\ UNCHANGED <<plan, policy, infra, volumes, namespaces, operator, at, cleanups, results, early, listed, broken, faults>>

Scrape ==
    /\ AtStep("scrape")
    /\ counted' = {}
    /\ Advance
    /\ UNCHANGED <<plan, policy, cluster, tag, orphan, synced, at, cleanups, results, early, listed, broken, faults>>

\* A call fails, before or after the API server has acted, or a wait times out
\* though its condition may still come.  An annotation that is set by a call
\* that fails is never taken back.
Fault(what) ==
    /\ faults < MaxFaults
    /\ faults' = faults + 1
    /\ broken' = broken \cup what

\* What a step that fails may have created: a namespace nobody knows the name
\* of, when CreateTestNamespace gives up on it; and the namespace that AfterAll
\* knows, with or without a volume.  Without it the spec may be skipped: there
\* is no default StorageClass.
CreatedInVain ==
    \/ /\ AtStep("volume") \/ AtStep("namespace")
       /\ namespaces' = namespaces \cup {Current}
       /\ EndAs("failed") /\ Fault({"namespace"}) /\ UNCHANGED <<volumes, listed>>
    \/ /\ AtStep("volume")
       /\ namespaces' = namespaces \cup {Current} /\ listed' = listed \cup {Current}
       /\ volumes' \in Placements
       /\ Fault({})
       /\ EndAs("failed") \/ (volumes' = volumes /\ EndAs("skipped"))
    \/ /\ AtStep("smoke")
       /\ volumes' \in Placements
       /\ EndAs("failed") /\ Fault({}) /\ UNCHANGED <<namespaces, listed>>

\* Whoever cannot scrape the operator's metrics, or cannot read the default
\* StorageClass before its namespace, is skipped; registering a cleanup that
\* needs no backup cannot fail.
StepFails ==
    /\ phase = "run" /\ pc <= Len(Steps)
    /\ AtStep("defer") => Arg \in RestoreUndo
    /\ \/ /\ EndAs(IF AtStep("scrape") THEN "skipped" ELSE "failed") \/ (AtStep("namespace") /\ EndAs("skipped"))
          /\ Fault({}) /\ UNCHANGED <<cluster, synced, listed>>
       \/ /\ AtStep("removeFD") \/ AtStep("removeVC")
          /\ infra' = infra \ {IF AtStep("removeFD") THEN "fd" ELSE "vc"}
          /\ synced' = FALSE
          /\ EndAs("failed") /\ Fault({}) /\ UNCHANGED <<volumes, namespaces, force, listed>>
       \/ CreatedInVain /\ UNCHANGED <<infra, force, synced>>
       \/ /\ AtStep("force")
          /\ force' = TRUE
          /\ EndAs("failed") /\ Fault({"unforce"}) /\ UNCHANGED <<infra, volumes, namespaces, synced, listed>>
    /\ UNCHANGED <<plan, policy, tag, orphan, counted, at, cleanups, results, early>>

EndOfBody ==
    /\ phase = "run" /\ pc > Len(Steps)
    /\ EndAs("passed")
    /\ UNCHANGED <<plan, policy, cluster, operator, at, cleanups, results, early, listed, broken, faults>>

-----------------------------------------------------------------------------
(* The cleanups of a spec, its result, and the end of the suite.           *)

Popped == cleanups[1]
Rest   == Tail(cleanups)

Cleaning(undo) == phase = "cleanup" /\ cleanups # <<>> /\ Popped.undo \in undo

\* restoreInfrastructureOrFail: Get and Update.
Restore ==
    /\ Cleaning(RestoreUndo)
    /\ infra' = Popped.backup
    /\ synced' = (synced /\ infra' = infra)
    /\ cleanups' = Rest
    /\ UNCHANGED <<plan, policy, volumes, namespaces, force, tag, orphan, counted, at, pc, phase, verdict, results, early, listed, broken, faults>>

\* Errors of Delete and of the wait for the PV are ignored.
\* Mutant: the pod that uses the claim is not deleted, which keeps the claim.
CleanVolumeInUse ==
    /\ Cleaning({"deleteVolume"})
    /\ cleanups' = Rest
    /\ UNCHANGED <<plan, policy, cluster, operator, at, pc, phase, verdict, results, early, listed, broken, faults>>
CleanVolume ==
    /\ Cleaning({"deleteVolume"})
    /\ volumes' = volumes \ {Current}
    /\ cleanups' = Rest
    /\ UNCHANGED <<plan, policy, infra, namespaces, force, operator, at, pc, phase, verdict, results, early, listed, broken, faults>>

\* With the namespace goes whatever is in it.
CleanNamespace ==
    /\ Cleaning({"deleteNamespace"})
    /\ namespaces' = namespaces \ {Current}
    /\ volumes' = volumes \ {Current}
    /\ cleanups' = Rest
    /\ UNCHANGED <<plan, policy, infra, force, operator, at, pc, phase, verdict, results, early, listed, broken, faults>>

CleanForce ==
    /\ Cleaning({"unforce"})
    /\ force' = FALSE
    /\ cleanups' = Rest
    /\ UNCHANGED <<plan, policy, infra, volumes, namespaces, operator, at, pc, phase, verdict, results, early, listed, broken, faults>>

\* A failed restore fails the spec, the other cleanups ignore their errors.
\* The wait that follows the restore of VC-REM may fail too.
CleanupFails ==
    /\ Cleaning(Undo)
    /\ \/ infra' = infra /\ synced' = synced /\ Fault({Popped.undo})
       \/ /\ Cleaning({"restoreHealthy"})
          /\ infra' = Popped.backup /\ synced' = FALSE /\ Fault({})
    /\ verdict' = IF Cleaning(RestoreUndo) THEN "failed" ELSE verdict
    /\ cleanups' = Rest
    /\ UNCHANGED <<plan, policy, volumes, namespaces, force, tag, orphan, counted, at, pc, phase, results, early, listed>>

\* Mutant: the container is not Ordered.
NextSpecUnordered ==
    /\ phase = "cleanup" /\ cleanups = <<>>
    /\ results' = Append(results, verdict)
    /\ IF at = Len(plan)
       THEN phase' = "afterAll" /\ UNCHANGED <<at, pc, verdict>>
       ELSE phase' = "run" /\ at' = at + 1 /\ pc' = 1 /\ verdict' = "passed"
    /\ UNCHANGED <<plan, policy, cluster, operator, cleanups, early, listed, broken, faults>>

\* Ordered: nothing of the container runs after a failed spec.
NextSpec ==
    /\ phase = "cleanup" /\ cleanups = <<>>
    /\ results' = Append(results, verdict)
    /\ IF at = Len(plan) \/ verdict = "failed"
       THEN phase' = "afterAll" /\ UNCHANGED <<at, pc, verdict>>
       ELSE phase' = "run" /\ at' = at + 1 /\ pc' = 1 /\ verdict' = "passed"
    /\ UNCHANGED <<plan, policy, cluster, operator, cleanups, early, listed, broken, faults>>

\* AfterAll deletes the namespaces it knows, and with them their volumes; it
\* goes on when one of them fails.
\* Mutant: it returns first when the suite has created no MachineSet.
AfterAllReturnsFirst ==
    /\ phase = "afterAll" /\ phase' = "afterSuite"
    /\ UNCHANGED <<plan, policy, cluster, operator, at, pc, verdict, cleanups, results, early, listed, broken, faults>>
AfterAll ==
    /\ phase = "afterAll" /\ phase' = "afterSuite"
    /\ \E failed \in SUBSET listed :
          /\ namespaces' = namespaces \ (listed \ failed)
          /\ volumes' = volumes \ (listed \ failed)
          /\ IF failed = {} THEN UNCHANGED <<broken, faults>> ELSE Fault({"namespace"})
    /\ listed' = {}
    /\ UNCHANGED <<plan, policy, infra, force, operator, at, pc, verdict, cleanups, results, early>>

\* AfterSuite restores the Infrastructure that BeforeSuite has read.
\* Mutant: it leaves Infrastructure alone.
AfterSuiteNothing ==
    /\ phase = "afterSuite" /\ phase' = "done"
    /\ UNCHANGED <<infra, synced, broken, faults>>
    /\ UNCHANGED <<plan, policy, volumes, namespaces, force, tag, orphan, counted, at, pc, verdict, cleanups, results, early, listed>>
AfterSuite ==
    /\ phase = "afterSuite" /\ phase' = "done"
    /\ \/ infra' = Full /\ synced' = (synced /\ infra = Full) /\ UNCHANGED <<broken, faults>>
       \/ Fault({"suite"}) /\ UNCHANGED <<infra, synced>>
    /\ UNCHANGED <<plan, policy, volumes, namespaces, force, tag, orphan, counted, at, pc, verdict, cleanups, results, early, listed>>

SpecStep ==
    \/ ExpectStep \/ AwaitStep \/ TimeOut \/ DeferStep
    \/ SkipIfDenied \/ RemoveFD \/ RemoveVC
    \/ CreateVolume \/ DeleteVolume \/ CreateNamespace \/ SmokeTest \/ ForceCleanup \/ Scrape
    \/ EndOfBody
CleanupStep == Restore \/ CleanVolume \/ CleanNamespace \/ CleanForce \/ NextSpec
Failure     == StepFails \/ CleanupFails
Runner      == SpecStep \/ CleanupStep \/ AfterAll \/ AfterSuite

Next == Runner \/ Failure \/ Reconcile

Spec == Init /\ [][Next]_vars

\* The runner takes its steps and the operator reconciles; calls need not fail.
FairSpec == Spec /\ WF_vars(Runner) /\ WF_vars(Reconcile)

-----------------------------------------------------------------------------
(* Properties.                                                             *)

Starting == phase = "run" /\ pc = 1

\* A spec that restores before it ends finds the site as `make apply-lab` left
\* it, and no annotation, whatever happened in the specs before it: a spec
\* that could not restore is the last one of the container.
CleanStart == Starting => infra = Full /\ ("unforce" \notin broken => ~force)

\* While PV-SAFE-01 runs the operator never takes the tag off, not even during
\* the cleanups: Infrastructure is restored before the volume is deleted.
TagHeld ==
    [][Current = "PV-SAFE-01" /\ phase \in {"run", "cleanup"} /\ tag /\ broken = {}
         => tag']_vars

\* While a spec has something removed and goes on, the volume that may block the
\* operator is its own: the volume of a spec before it is deleted; or that spec
\* failed, and was the last one; or it skipped itself with its volume in place
\* (PV-SAFE-02), and then this one is denied its removal too.  Only a deletion
\* whose error a cleanup ignored (DeletePVC) leaves another one.
OwnVolumeOnly ==
    phase = "run" /\ infra # Full /\ "deleteVolume" \notin broken => volumes \subseteq {Current}

\* Wherever a spec was left, by a failure, a timeout or a skip, the suite forgets
\* nothing it knows of: no namespace, no volume and no annotation is left at the
\* end but one whose deletion failed, or that a failing call had created.
NothingForgotten ==
    phase = "done" =>
        /\ broken \cap {"namespace", "deleteNamespace"} = {} => namespaces = {} /\ volumes = {}
        /\ "unforce" \notin broken => ~force

\* The inductive invariant.  Once the spec has registered its restore, a
\* cleanup on the stack has the full Infrastructure as its backup, until it has
\* restored it or has failed the spec ...
Pending(undo) == \E i \in 1..Len(cleanups) : cleanups[i].undo \in undo
Registered    == \E j \in 1..Len(Steps) : j < pc /\ Steps[j] \in Restores
BackupsFull ==
    \A i \in 1..Len(cleanups) : cleanups[i].undo \in RestoreUndo => cleanups[i].backup = Full
RestorePending ==
    /\ phase = "run" => (Registered <=> Pending(RestoreUndo))
    /\ phase \in {"run", "cleanup"} /\ infra # Full =>
          Pending(RestoreUndo) \/ (phase = "cleanup" /\ verdict = "failed")
\* ... the annotation is set, and a namespace of its own is there, only with its
\* removal on the stack, or in the very next step ...
NextIs(step)   == phase = "run" /\ pc > 1 /\ pc <= Len(Steps) /\ Steps[pc] = step
UnforcePending == force => "unforce" \in broken \/ Pending({"unforce"}) \/ NextIs(Defer("unforce"))
NamespacePending ==
    \A s \in namespaces :
        \/ s \in listed
        \/ broken \cap {"namespace", "deleteNamespace"} # {}
        \/ s = Current /\ (Pending({"deleteNamespace"}) \/ NextIs(Defer("deleteNamespace")))
NothingPending ==
    /\ (phase = "run" /\ pc = 1) \/ phase \in {"afterAll", "afterSuite", "done"} => cleanups = <<>>
    /\ phase \in {"afterSuite", "done"} => listed = {}
Bookkeeping == BackupsFull /\ RestorePending /\ UnforcePending /\ NamespacePending /\ NothingPending
\* ... a volume is in a namespace of its spec; where the policy denies removals
\* nothing is removed; where it does not, the volume of a spec that has not
\* failed is handled before the next one starts.
NamespaceThere ==
    phase = "run" /\ (\E j \in 1..Len(Steps) : j < pc /\ Steps[j].op = "namespace") => Current \in namespaces
VolumePending == phase = "run" /\ (\E j \in 1..Len(Steps) : j < pc /\ Steps[j] = Defer("deleteVolume"))
                    => Pending({"deleteVolume"})
NothingDenied ==
    phase = "run" /\ policy =>
        infra = Full /\ \A j \in 1..Len(Steps) : j < pc => Steps[j].op # "removeFD"
VolumeOwned ==
    phase \in {"run", "cleanup"} /\ ~policy /\ "deleteVolume" \notin broken =>
        /\ volumes \subseteq {Current}
        /\ volumes # {} => \/ phase = "run" /\ VolumeHandled(Steps, pc)
                           \/ phase = "cleanup" /\ (verdict = "failed" \/ Pending({"deleteVolume"}))
VolumeInv == volumes \subseteq namespaces /\ NamespaceThere /\ VolumePending /\ NothingDenied /\ VolumeOwned
IInv == TypeOK /\ Bookkeeping /\ VolumeInv

\* In the end the site is back: the datastore has its tag and no cleanup is
\* pending, unless the restore of AfterSuite failed.
SiteRecovers ==
    <>[](phase = "done" /\ ("suite" \notin broken => infra = Full /\ tag /\ orphan # "True"))

\* (Violated.)  A spec fails only when a call fails or the operator is slow.
\* FD-REM-01, EDGE-02 and EDGE-03 wait for the tag to be attached again in the
\* body of the spec, before the cleanup that restores the FD has run; OBS-01
\* and OBS-02 scrape as soon as the operator is seen stable.
NoFalseFailure == faults = 0 => \A i \in DOMAIN results : results[i] # "failed"

\* A spec that waits for the effect of its removal of the FD sees the effect of this
\* removal, not what the spec before has left.  It does not hold for OnlyPV (README).
WaitsForItsRemoval == early = {}
=============================================================================
