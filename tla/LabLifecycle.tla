---------------------------- MODULE LabLifecycle ----------------------------
(***************************************************************************)
(* The day2-vcenter command (cmd/day2-vcenter, pkg/lab) against a cluster: *)
(* apply adds a vCenter to four objects one API call at a time, after      *)
(* backing them up in a file; restore writes the backup back, one object   *)
(* at a time.  Any call may fail and the process may die between any two   *)
(* calls; other actors write the same objects.                             *)
(*                                                                         *)
(* The content of an object is abstracted to the set of vCenters it names: *)
(* the spec.vcenters of the Infrastructure, the vcenter section of the     *)
(* cloud-provider-config, the credentials held by a secret.                *)
(***************************************************************************)
EXTENDS Naturals, FiniteSets

CONSTANTS
    VCenter,     \* the vCenter servers
    Absent,      \* content of a secret that does not exist
    Unparsable,  \* content of a cloud-provider-config that is not valid YAML
    NoFile,      \* no state file in the state directory
    Torn,        \* a state file left truncated by an interrupted write
    NoCycle,     \* no change of apply waits to be reverted
    Outside,     \* what other actors do: a subset of OutsideBehaviour
    TornWrites,  \* whether the write of the state file can be interrupted
    MaxApplies,  \* bound: commands apply that are started
    MaxEdits,    \* bound: changes made by other actors
    MaxFaults    \* bound: calls of the command that fail

OutsideBehaviour == {"add", "remove", "concurrent"}

Infra        == "infrastructure/cluster"
SourceConfig == "openshift-config/cloud-provider-config"
RootCreds    == "kube-system/vsphere-creds"
CloudCreds   == "openshift-config/cloud-credentials"
MachineCreds == "openshift-machine-api/vsphere-cloud-credentials"

Object        == {Infra, SourceConfig, RootCreds, CloudCreds, MachineCreds}
\* Mutant: the second target is missing from the list.
UpdateTargetsRootOnly == {RootCreds}
UpdateTargets == {RootCreds, CloudCreds}
BackupTargets == {RootCreds, CloudCreds, MachineCreds}
LabObject     == Object \ {MachineCreds}  \* what apply writes and restore writes back
MaxVCenters   == 3

Content == {Absent, Unparsable} \cup SUBSET VCenter

\* Only a secret may be absent, only the config unparsable; a partial snapshot
\* has Absent for what it does not hold.
ContentOf(o) ==
    IF o = Infra THEN SUBSET VCenter
    ELSE {IF o = SourceConfig THEN Unparsable ELSE Absent} \cup SUBSET VCenter

Snapshot == {s \in [Object -> Content] : \A o \in Object : s[o] = Absent \/ s[o] \in ContentOf(o)}
State    == {s \in Snapshot : s[Infra] # Absent /\ s[SourceConfig] # Absent}

Command  == [kind : {"apply", "restore"}, vc : VCenter, dry : BOOLEAN]

ASSUME SentinelAssumption ==
    /\ \A vcs \in SUBSET VCenter : vcs # Absent /\ vcs # Unparsable
    /\ Absent # Unparsable
    /\ NoFile \notin State /\ Torn \notin State /\ NoCycle \notin State
    /\ NoFile \notin [LabObject -> Content] /\ Torn \notin [LabObject -> Content]
    /\ NoFile # Torn

ASSUME BoundAssumption ==
    /\ IsFiniteSet(VCenter) /\ VCenter # {}
    /\ Outside \subseteq OutsideBehaviour
    /\ TornWrites \in BOOLEAN
    /\ {MaxApplies, MaxEdits, MaxFaults} \subseteq Nat

VARIABLES
    cluster,  \* content of every object
    file,     \* NoFile, Torn, or the backup in cluster-state.json
    pc,       \* where the command is; "idle" when none runs
    cmd,      \* the command that runs or ran last
    result,   \* how the last command ended
    seen,     \* the Infrastructure as apply read it at its start
    draft,    \* the backup being captured, or the one restore has loaded
    todo,     \* targets of the current loop not yet treated
    target,   \* the object the command has just read, to write it next
    read,     \* the content it read
    stale,    \* whether target has a newer resourceVersion by now
    cycle,    \* history: the cluster before the first change of apply not yet reverted
    quiet,    \* history: no other actor wrote since the last command started
    applies, edits, faults

locals == <<seen, draft, todo, target, read, stale>>
counts == <<applies, edits, faults>>
vars   == <<cluster, file, pc, cmd, result, locals, cycle, quiet, counts>>

Empty == [o \in Object |-> Absent]

Usable(f) == f \notin {NoFile, Torn}

\* Order in which the loops over the secret targets treat them.
First(S) == IF RootCreds \in S THEN RootCreds
            ELSE IF CloudCreds \in S THEN CloudCreds ELSE MachineCreds

Init ==
    /\ \E vcs \in SUBSET VCenter, config \in {"valid", "unparsable"}, cloud \in {"present", "absent"} :
          /\ vcs # {} /\ Cardinality(vcs) <= MaxVCenters
          /\ cluster = [o \in Object |->
                IF o = SourceConfig /\ config = "unparsable" THEN Unparsable
                ELSE IF o = CloudCreds /\ cloud = "absent" THEN Absent ELSE vcs]
    /\ file = NoFile
    /\ pc = "idle"
    /\ cmd \in {c \in Command : c.kind = "restore" /\ ~c.dry}
    /\ result = "none"
    /\ seen = {} /\ draft = Empty /\ todo = {}
    /\ target = Infra /\ read = {} /\ stale = FALSE
    /\ cycle = NoCycle
    /\ quiet = TRUE
    /\ applies = 0 /\ edits = 0 /\ faults = 0

(***************************************************************************)
(* The end of a command: the process exits and its variables are gone.     *)
(***************************************************************************)
Exit(r) ==
    /\ pc' = "idle"
    /\ result' = r
    /\ seen' = {} /\ draft' = Empty /\ todo' = {}
    /\ target' = Infra /\ read' = {} /\ stale' = FALSE

Goto(label) == pc' = label /\ UNCHANGED result

\* Labels between the Get and the Update of an object.
PutLabel == {"put_config", "put_secret", "restore_put"}

ReadForUpdate(o) == target' = o /\ read' = cluster[o] /\ stale' = FALSE
Write(o, content) == target = o /\ ~stale /\ cluster' = [cluster EXCEPT ![o] = content]

\* Apply is about to change the cluster for real.
OpenCycle == cycle' = IF cycle = NoCycle THEN cluster ELSE cycle

-----------------------------------------------------------------------------
(***************************************************************************)
(* apply                                                                   *)
(***************************************************************************)
StartApply(v, dry) ==
    /\ pc = "idle" /\ applies < MaxApplies
    /\ cmd' = [kind |-> "apply", vc |-> v, dry |-> dry]
    /\ pc' = "get_infra" /\ result' = "none"
    /\ quiet' = TRUE
    /\ applies' = applies + 1
    /\ UNCHANGED <<cluster, file, locals, cycle, edits, faults>>

\* Mutant: the limit of 3 vCenters is not checked.
MayAddUnbounded(infra, v) == v \notin infra

MayAdd(infra, v) == v \notin infra /\ Cardinality(infra) < MaxVCenters

\* Mutant: the backup is taken anew by every apply.
GetInfraAlwaysCaptures ==
    /\ pc = "get_infra" /\ MayAdd(cluster[Infra], cmd.vc)
    /\ seen' = cluster[Infra]
    /\ draft' = [Empty EXCEPT ![Infra] = cluster[Infra]]
    /\ Goto(IF cmd.dry THEN "get_config" ELSE "capture_config")
    /\ UNCHANGED <<cluster, file, cmd, todo, target, read, stale, cycle, quiet, counts>>

GetInfra ==
    /\ pc = "get_infra" /\ MayAdd(cluster[Infra], cmd.vc)
    /\ seen' = cluster[Infra]
    /\ IF ~cmd.dry /\ file = NoFile
         THEN /\ draft' = [Empty EXCEPT ![Infra] = cluster[Infra]]
              /\ Goto("capture_config")
         ELSE UNCHANGED draft /\ Goto("get_config")
    /\ UNCHANGED <<cluster, file, cmd, todo, target, read, stale, cycle, quiet, counts>>

RefuseApply ==
    /\ pc = "get_infra" /\ ~MayAdd(cluster[Infra], cmd.vc)
    /\ Exit("failed")
    /\ UNCHANGED <<cluster, file, cmd, cycle, quiet, counts>>

CaptureConfig ==
    /\ pc = "capture_config"
    /\ draft' = [draft EXCEPT ![SourceConfig] = cluster[SourceConfig]]
    /\ todo' = BackupTargets
    /\ Goto("capture_secret")
    /\ UNCHANGED <<cluster, file, cmd, seen, target, read, stale, cycle, quiet, counts>>

\* A target that does not exist is left out of the backup.
CaptureSecret ==
    /\ pc = "capture_secret"
    /\ draft' = [draft EXCEPT ![First(todo)] = cluster[First(todo)]]
    /\ todo' = todo \ {First(todo)}
    /\ Goto(IF todo' = {} THEN "save_state" ELSE "capture_secret")
    /\ UNCHANGED <<cluster, file, cmd, seen, target, read, stale, cycle, quiet, counts>>

SaveState ==
    /\ pc = "save_state"
    /\ file' = draft /\ draft' = Empty
    /\ Goto("get_config")
    /\ UNCHANGED <<cluster, cmd, seen, todo, target, read, stale, cycle, quiet, counts>>

\* os.WriteFile truncates, then writes: a full disk or a kill leaves a part.
SaveInterrupted ==
    /\ pc = "save_state" /\ TornWrites /\ faults < MaxFaults
    /\ file' = Torn
    /\ Exit("failed")
    /\ faults' = faults + 1
    /\ UNCHANGED <<cluster, cmd, cycle, quiet, applies, edits>>

GetConfig ==
    /\ pc = "get_config"
    /\ ReadForUpdate(SourceConfig)
    /\ todo' = UpdateTargets
    /\ Goto(IF cmd.dry THEN "get_secret" ELSE "put_config")
    /\ UNCHANGED <<cluster, file, cmd, seen, draft, cycle, quiet, counts>>

\* An unparsable config is rebuilt from the vCenters of the Infrastructure.
MergedConfig == (IF read = Unparsable THEN seen ELSE read) \cup {cmd.vc}

PutConfig ==
    /\ pc = "put_config"
    /\ Write(SourceConfig, MergedConfig)
    /\ OpenCycle
    /\ Goto("get_secret")
    /\ UNCHANGED <<file, cmd, locals, quiet, counts>>

GetSecret ==
    /\ pc = "get_secret" /\ todo # {}
    /\ IF cluster[First(todo)] = Absent \/ cmd.dry
         THEN /\ todo' = todo \ {First(todo)}
              /\ Goto("get_secret")
              /\ UNCHANGED <<target, read, stale>>
         ELSE /\ ReadForUpdate(First(todo))
              /\ Goto("put_secret")
              /\ UNCHANGED todo
    /\ UNCHANGED <<cluster, file, cmd, seen, draft, cycle, quiet, counts>>

\* The credentials of the vCenter are added to, or replaced in, the secret.
MergedSecret == read \cup {cmd.vc}

PutSecret ==
    /\ pc = "put_secret"
    /\ Write(First(todo), MergedSecret)
    /\ todo' = todo \ {First(todo)}
    /\ Goto("get_secret")
    /\ UNCHANGED <<file, cmd, seen, draft, target, read, stale, cycle, quiet, counts>>

\* The spec is built from the Infrastructure read at the start.
PatchedSpec == seen \cup {cmd.vc}

\* A merge patch: it carries no resourceVersion and replaces the whole list.
PatchInfra ==
    /\ pc = "get_secret" /\ todo = {} /\ ~cmd.dry
    /\ cluster' = [cluster EXCEPT ![Infra] = PatchedSpec]
    /\ Goto("wait_ready")
    /\ UNCHANGED <<file, cmd, locals, cycle, quiet, counts>>

DryRunPatch ==
    /\ pc = "get_secret" /\ todo = {} /\ cmd.dry
    /\ Exit("ok")
    /\ UNCHANGED <<cluster, file, cmd, cycle, quiet, counts>>

-----------------------------------------------------------------------------
(***************************************************************************)
(* restore                                                                 *)
(***************************************************************************)
StartRestore ==
    /\ pc = "idle"
    /\ cmd' = [cmd EXCEPT !.kind = "restore", !.dry = FALSE]
    /\ pc' = "load_state" /\ result' = "none"
    /\ quiet' = TRUE
    /\ UNCHANGED <<cluster, file, locals, cycle, counts>>

\* Mutants: the objects are restored in any order; the state file is removed
\* as soon as it is loaded.
LoadStateAnyOrder ==
    /\ pc = "load_state" /\ Usable(file)
    /\ draft' = file
    /\ todo' = {o \in LabObject : file[o] # Absent}
    /\ Goto("restore_get")
    /\ UNCHANGED <<cluster, file, cmd, seen, target, read, stale, cycle, quiet, counts>>

LoadStateConsumesFile ==
    /\ pc = "load_state" /\ Usable(file)
    /\ draft' = file /\ file' = NoFile
    /\ todo' = {Infra}
    /\ Goto("restore_get")
    /\ UNCHANGED <<cluster, cmd, seen, target, read, stale, cycle, quiet, counts>>

LoadState ==
    /\ pc = "load_state" /\ Usable(file)
    /\ draft' = file
    /\ todo' = {Infra}
    /\ Goto("restore_get")
    /\ UNCHANGED <<cluster, file, cmd, seen, target, read, stale, cycle, quiet, counts>>

LoadStateFails ==
    /\ pc = "load_state" /\ ~Usable(file)
    /\ Exit("failed")
    /\ UNCHANGED <<cluster, file, cmd, cycle, quiet, counts>>

\* Within a stage the objects come in any order (a Go map).
RestoreGet(o) ==
    /\ pc = "restore_get" /\ o \in todo /\ cluster[o] # Absent
    /\ ReadForUpdate(o)
    /\ Goto("restore_put")
    /\ UNCHANGED <<cluster, file, cmd, seen, draft, todo, cycle, quiet, counts>>

\* Mutants: the ConfigMap is forgotten; the secrets are forgotten.
NextStageNoConfig(o) ==
    IF o = Infra THEN {s \in UpdateTargets : draft[s] # Absent} ELSE {}

NextStageNoSecrets(o) == IF o = Infra THEN {SourceConfig} ELSE {}

\* Infrastructure first, then the ConfigMap, then the secrets of the backup.
NextStage(o) ==
    IF o = Infra THEN {SourceConfig}
    ELSE IF o = SourceConfig THEN {s \in UpdateTargets : draft[s] # Absent} ELSE {}

AfterRestoring(o) == IF todo = {o} THEN NextStage(o) ELSE todo \ {o}

RestorePut(o) ==
    /\ pc = "restore_put"
    /\ Write(o, draft[o])
    /\ todo' = AfterRestoring(o)
    /\ cycle' = IF todo' = {} THEN NoCycle ELSE cycle
    /\ Goto(IF todo' = {} THEN "wait_ready" ELSE "restore_get")
    /\ UNCHANGED <<file, cmd, seen, draft, target, read, stale, quiet, counts>>

-----------------------------------------------------------------------------
(***************************************************************************)
(* What ends every command                                                 *)
(***************************************************************************)
\* waitForClusterReady succeeded.
WaitReady ==
    /\ pc = "wait_ready"
    /\ Exit("ok")
    /\ UNCHANGED <<cluster, file, cmd, cycle, quiet, counts>>

\* The API server rejects an Update that carries an old resourceVersion.
Conflict ==
    /\ pc \in PutLabel /\ stale
    /\ Exit("failed")
    /\ UNCHANGED <<cluster, file, cmd, cycle, quiet, counts>>

\* A call returns an error, a wait times out, or the process is killed.  A
\* write whose answer is lost is the write followed by this action.
Fail ==
    /\ pc # "idle" /\ faults < MaxFaults
    /\ Exit("failed")
    /\ faults' = faults + 1
    /\ UNCHANGED <<cluster, file, cmd, cycle, quiet, applies, edits>>

-----------------------------------------------------------------------------
(***************************************************************************)
(* Other actors                                                            *)
(***************************************************************************)
MayEdit == edits < MaxEdits /\ (pc = "idle" \/ "concurrent" \in Outside)

Named(o) == cluster[o] \notin {Absent, Unparsable}

Edit(newState) ==
    /\ cluster' = newState
    /\ stale' = (pc \in PutLabel /\ (stale \/ newState[target] # cluster[target]))
    /\ quiet' = FALSE
    /\ edits' = edits + 1
    /\ UNCHANGED <<file, pc, cmd, result, seen, draft, todo, target, read, cycle, applies, faults>>

\* Somebody else adds, or removes, a vCenter everywhere.
OutsideAdd(v) ==
    /\ "add" \in Outside /\ MayEdit /\ MayAdd(cluster[Infra], v)
    /\ Edit([o \in Object |-> IF Named(o) THEN cluster[o] \cup {v} ELSE cluster[o]])

OutsideRemove(v) ==
    /\ "remove" \in Outside /\ MayEdit /\ v \in cluster[Infra] /\ cluster[Infra] # {v}
    /\ Edit([o \in Object |-> IF Named(o) THEN cluster[o] \ {v} ELSE cluster[o]])

\* The cloud credential operator derives the Machine API secret from the root secret.
ReconcileMachineCreds ==
    /\ cluster[MachineCreds] # cluster[RootCreds]
    /\ cluster' = [cluster EXCEPT ![MachineCreds] = cluster[RootCreds]]
    /\ UNCHANGED <<file, pc, cmd, result, locals, cycle, quiet, counts>>

-----------------------------------------------------------------------------
ApplyStep ==
    \/ GetInfra \/ RefuseApply
    \/ CaptureConfig \/ CaptureSecret \/ SaveState
    \/ GetConfig \/ PutConfig \/ GetSecret \/ PutSecret
    \/ PatchInfra \/ DryRunPatch

RestoreStep ==
    \/ LoadState \/ LoadStateFails
    \/ \E o \in LabObject : RestoreGet(o) \/ RestorePut(o)

CommandStep == ApplyStep \/ RestoreStep \/ WaitReady \/ Conflict

OutsideStep ==
    \/ \E v \in VCenter : OutsideAdd(v) \/ OutsideRemove(v)
    \/ ReconcileMachineCreds

Next ==
    \/ \E v \in VCenter, dry \in BOOLEAN : StartApply(v, dry)
    \/ StartRestore
    \/ CommandStep
    \/ Fail \/ SaveInterrupted
    \/ OutsideStep

Spec == Init /\ [][Next]_vars

\* A command that runs goes on or is ended by its context's deadline; whoever
\* has applied runs restore (Phase 6 of make test-e2e does), and again when it
\* has failed.
Fairness == WF_vars(CommandStep) /\ WF_vars(StartRestore)

LiveSpec == Spec /\ Fairness

-----------------------------------------------------------------------------
(***************************************************************************)
(* Properties                                                              *)
(***************************************************************************)
Label == {"idle", "get_infra", "capture_config", "capture_secret", "save_state",
          "get_config", "put_config", "get_secret", "put_secret",
          "load_state", "restore_get", "restore_put", "wait_ready"}

\* Every variable stays in its domain.
TypeOK ==
    /\ cluster \in State
    /\ file \in {NoFile, Torn} \cup State
    /\ pc \in Label
    /\ cmd \in Command
    /\ result \in {"none", "ok", "failed"}
    /\ seen \in SUBSET VCenter
    /\ draft \in Snapshot
    /\ todo \subseteq IF pc = "capture_secret" THEN BackupTargets ELSE LabObject
    /\ target \in LabObject
    /\ read \in Content
    /\ stale \in BOOLEAN
    /\ cycle \in {NoCycle} \cup State
    /\ quiet \in BOOLEAN
    /\ applies \in Nat /\ edits \in Nat /\ faults \in Nat

\* What the position of the command says of its variables and of the file.
Changing == {"get_config", "put_config", "get_secret", "put_secret", "wait_ready"}
Capturing == {"capture_config", "capture_secret", "save_state"}
Restoring == {"restore_get", "restore_put"}

ControlInv ==
    /\ pc \in Capturing => ~cmd.dry /\ draft[Infra] # Absent
    /\ pc \in {"capture_secret", "save_state"} => draft[SourceConfig] # Absent
    /\ pc = "capture_secret" => todo # {}
    /\ pc \in {"put_config", "get_secret", "put_secret"} => todo \subseteq UpdateTargets
    /\ pc = "put_config" => target = SourceConfig /\ read # Absent
    /\ pc = "put_secret" => target = First(todo) /\ todo # {} /\ read \in SUBSET VCenter
    /\ pc \in {"put_config", "put_secret"} => ~cmd.dry
    /\ pc \in Restoring => Usable(file) /\ draft = file
    /\ pc \in Restoring => todo \subseteq {o \in LabObject : draft[o] # Absent}
    /\ pc = "restore_put" => target \in todo

WriteAheadInv ==
    /\ pc \in Capturing => file = NoFile /\ cycle = NoCycle
    /\ pc \in Changing /\ ~cmd.dry => file # NoFile
    /\ cycle # NoCycle => file # NoFile

IInv == TypeOK /\ ControlInv /\ WriteAheadInv

\* "apply-lab saves backups before any change; restore-lab reverts them" (README.md:110):
\* when the cluster carries a change of apply there is a state file that restore can load.
BackupBeforeChange == cycle # NoCycle => Usable(file)

\* The backup is taken once: never over an earlier one, never while a change
\* of apply waits to be reverted, so it cannot record what apply did.
BackupTakenOnce == [][file' # file => file = NoFile /\ cycle = NoCycle]_vars

\* While a change of apply waits to be reverted the state file can be loaded, and the
\* backup that restore would write back is the cluster as it was before the first such
\* change.
BackupMatchesCycle ==
    cycle # NoCycle => Usable(file) /\ \A o \in LabObject : file[o] = cycle[o]

\* An apply that reports success, and that nobody interfered with, has left
\* the vCenter in the Infrastructure, the config and every secret it updates.
ApplyComplete ==
    result = "ok" /\ cmd.kind = "apply" /\ ~cmd.dry /\ quiet =>
        \A o \in LabObject : cluster[o] # Absent => cmd.vc \in cluster[o]

\* A restore that reports success, and that nobody interfered with, has left
\* every object of the backup as the backup has it, after any history of
\* failed applies and failed restores.
RestoreExact ==
    result = "ok" /\ cmd.kind = "restore" /\ quiet =>
        \A o \in LabObject : file[o] # Absent => cluster[o] = file[o]

\* What an object that is there and can be read names covers the Infrastructure.
Covers(content, infra) == content \in {Absent, Unparsable} \/ infra \subseteq content

\* Config and secrets cover the Infrastructure; the Machine API secret, which apply leaves
\* to the cloud credential operator, does when the operator has caught up.
CoversInfra ==
    /\ \A o \in LabObject : Covers(cluster[o], cluster[Infra])
    /\ cluster[MachineCreds] = cluster[RootCreds] => Covers(cluster[MachineCreds], cluster[Infra])

\* At whatever call a command stopped, the components find no vCenter in the
\* Infrastructure that the config, or a secret that exists, does not name; and a config
\* that nobody can read never stands beside an Infrastructure that apply has changed:
\* apply makes it readable first, restore puts it back last.
CredsCoverInfra ==
    /\ CoversInfra
    /\ cycle # NoCycle /\ cluster[SourceConfig] = Unparsable => cluster[Infra] = cycle[Infra]

\* No interleaving of applies and other actors exceeds OpenShift's 3 vCenters.
VCenterLimit == Cardinality(cluster[Infra]) <= MaxVCenters

\* Apply step 3 appends the vCenter to the Infrastructure and drops nothing, if nobody
\* changes the Infrastructure while apply runs.
ApplyAppends == [][PatchInfra => cluster'[Infra] = cluster[Infra] \cup {cmd.vc}]_vars

\* While somebody keeps running restore, every change of apply is reverted in
\* the end, however many calls failed on the way.
RestoreEventuallyReverts == (cycle # NoCycle) ~> (cycle = NoCycle)

\* The commands implement a backup taken atomically and written back whole.
Abstract ==
    INSTANCE AtomicBackup WITH
        live   <- [o \in LabObject |-> cluster[o]],
        backup <- IF Usable(file) THEN [o \in LabObject |-> file[o]] ELSE file,
        open   <- cycle # NoCycle

ImplementsAtomicBackup == Abstract!Spec
=============================================================================
