# testing-day2-vcenter in TLA+

This directory is the verification development of the repository: TLA+ modules
translated from the Go code, TLC configurations that check them on small
instances, and TLAPS proofs of what matters most for every instance.

- [The system](#the-system): parts, state, operations, what is hard
- [Modules](#modules): what models what, and how
- [Runs](#runs): what is checked, bounds, fairness
- [Proofs](#proofs)
- [Where code and documents disagree](#where-code-and-documents-disagree)
- [Not modelled](#not-modelled) and [Plan](#plan)

To run a configuration and to check the proofs of a module:

    tlc -workers 2 -config lab_alone.cfg MCLabLifecycle.tla
    tlapm LabLifecycleProofs.tla

## The system

`testing-day2-vcenter` adds a second vCenter to a running OpenShift cluster on
vSphere and tests what the cluster then does. It is a client. Its own state is a
backup file, a directory of downloaded images, a few vSphere objects (template,
VM folder, tags) and what it writes into the cluster, where operators,
administrators and its own tests act at the same time.

| Component | State | Operations | Hard behaviour | Correct when |
|---|---|---|---|---|
| Lab commands (`cmd/day2-vcenter`, `pkg/lab`) | `.lab-state/cluster-state.json`; Infrastructure, cloud-provider-config, credential secrets | apply, dry run, restore | failure or death between two API calls, repeated commands, other writers, an interrupted write of the file | backup exists before any change, is the cluster before the change, and is put back whole; a vCenter is never named without credentials |
| Readiness waits and verify (`pkg/lab/apply.go`, `pkg/framework` conditions, storage, pods, machine) | polls and deadlines | waitForClusterReady, verify | checks passed one after the other on a cluster that changes, status from before the change | what was seen ready is ready together, every wait returns |
| Infrastructure changes of a spec (`test/e2e/helpers_test.go`, CSI operator lifecycle) | backups held by Ginkgo cleanups; volumes; an annotation | withInfrastructureRestore, the specs' steps, AfterAll, AfterSuite | cleanups run after the body, last registered first; a failed restore; a reconciler alongside | every spec starts clean, the end leaves nothing behind |
| OVA cache (`pkg/vsphere/image.go`) | files under flock | DownloadOVAToDir | concurrent suites, death while downloading | a used image is complete and right, nobody blocks for ever |
| Template import (`pkg/vsphere/image.go`, `session.go`) | NFC lease, VM folder, template VM | EnsureVMFolder, FindTemplateByName, ImportOVA, DeleteTemplate | a lease neither completed nor aborted, an import that outlives the BeforeAll that started it | one whole template while it is needed, none left |
| Machines of the failure domain (`pkg/framework/machine.go`, the CSI suites) | MachineSets, Machines, Nodes | clone, scale, wait, drain, force delete | suites that share template and folder by name, cleanup after a timeout | specs have a live node, nothing is deleted under a Machine |
| Performance suites | phase timestamps, Node joins, resourceVersions, replicas | WatchMachinePhaseTimestamps, WatchNodeJoin, the resourceVersion window, ramp | phases missed between polls, Machines deleted and replaced while they are measured | timestamps in order, counts of what was there |
| vSphere sessions (`pkg/vsphere/session.go`) | session cache under a mutex | NewSession, GetOrCreate, Close, ClearSessions | none in use: no caller of the cache | - |
| Datastore tags (`pkg/vsphere/tags.go`) and synthetic orphans | tags on datastores | attach, detach, list | a reconciler at the same time | the tag attached by hand goes |
| DHCP release (`pkg/framework/node.go`) | a counter under a mutex, a semaphore | ReleaseDHCPLeases | goroutines that fail, wait for a slot or count at the same time | the semaphore holds, every success counted once, always returns |
| ConfigMap watching (`pkg/framework/configmap.go`) | last resourceVersion | WaitForConfigMapStable | a change between two polls or just before the deadline | stable means unwritten for the window, a timeout means a late write |
| Result tools (`cmd/aggregate-junit`, `cmd/perf-compare`, metrics) | none | grid of results, percentiles | files missing or cut off, a test in several files | a cell is the worst result |
| Pipelines (`Makefile`, `hack/*.sh`) | exit code, `restore_needed`, reports and run directories, the install directory | test-e2e, test-grid | kills and restarts between any two commands, what outlives a cluster | what was applied is restored, PASS is green, results are not mixed or overwritten |
| Configuration, API clients, read-only specs | none | - | - | - |

How they interact: `make test-e2e` runs apply, verify, the suites and restore,
one after the other. Apply and restore end in the readiness waits. The suites
read what apply wrote to Infrastructure, change it under withInfrastructureRestore
and rely on the CSI operator to react. Suites that need a node in the new
failure domain import a template from the OVA cache and clone a MachineSet.
`test-grid.sh` repeats all of this on new clusters and aggregates the reports. No
two components share memory: they meet in the cluster, in vSphere and on disk.

## Modules

| Module | Models | Kind |
|---|---|---|
| `LabLifecycle` | apply, dry run, restore, the state file, other writers | detailed |
| `AtomicBackup` | what apply-lab and restore-lab promise | abstract, implemented by LabLifecycle |
| `MCLabLifecycle` | values and symmetry for TLC | instance |
| `LabLifecycleProofs` | theorems about LabLifecycle | proofs |
| `ClusterReadiness`, `ClusterReadinessProofs` | waitForClusterReady and verify against a changing cluster | detailed, proofs |
| `OVACache`, `OVACacheProofs` | DownloadOVAToDir by several processes | detailed, proofs |
| `SpecSteps` | the steps specs are made of, and what makes a spec well scoped | helper |
| `FDLifecycle` | Ginkgo's runner and cleanups, the steps, the CSI operator | detailed |
| `CSISpecs` | the thirteen mutating specs as programs, and the label filters | data |
| `MCFDLifecycle`, `FDLifecycleProofs` | instance; theorems for any specs, and one for PV-SAFE-01 | instance, proofs |
| `FDNodeSuites`, `FDNodeSuitesProofs` | BeforeAll and AfterAll of the two CSI suites: template import, MachineSet, Node, and taking it down | composition, proofs |
| `PhaseWatch`, `PhaseWatchProofs` | the watches of the performance suites | detailed, proofs |
| `TestGrid`, `TestGridProofs` | test-grid.sh, the phases of `make test-e2e`, aggregate-junit | composition of the outermost level, proofs |
| `DHCPRelease` | the goroutines of ReleaseDHCPLeases | detailed |
| `StableWatch` | WaitForConfigMapStable | detailed |
| `MCHelpers`, `HelpersProofs` | DHCPRelease or StableWatch, for one run; theorems about both | instance, proofs |

`PROJECT.json` maps every definition to the lines it translates. The
definitions named "Mutant" are plausible bugs: each replaces the definition that
follows it in one experiment, which must violate a property. They are not part of
any specification.

### LabLifecycle

`cluster` holds, for each of five objects, the set of vCenters it names:
Infrastructure (`spec.vcenters`), the cloud-provider-config, and the credential
secrets `vsphere-creds`, `cloud-credentials`, `vsphere-cloud-credentials`. A failure
domain goes with its vCenter. A secret may be `Absent`, the config `Unparsable` (the code
then rebuilds it from Infrastructure). `file` is the state file: missing, torn, or a
snapshot. One command runs at a time; `pc` is the API call it makes next.

| Actions | Code |
|---|---|
| StartApply, GetInfra, RefuseApply | Apply up to HasState (apply.go:28-59) |
| CaptureConfig, CaptureSecret, SaveState, SaveInterrupted | captureState, SaveState: five reads, one write; os.WriteFile truncates first |
| GetConfig, PutConfig, GetSecret, PutSecret | updateCredentials, each Get and Update apart; Update carries the resourceVersion it read (`stale`, Conflict) |
| PatchInfra, DryRunPatch | ReplaceInfrastructureSpec: a merge patch with the list built from `seen`, without a resourceVersion |
| StartRestore, LoadState, RestoreGet, RestorePut | Restore: Infrastructure, then ConfigMaps, then the secrets in any order (a Go map), without the one the CCO manages |
| WaitReady | waitForClusterReady succeeded (ClusterReadiness has its steps) |
| Fail | any call fails, a wait times out, the process is killed |
| OutsideAdd, OutsideRemove, ReconcileMachineCreds | other administrators; the cloud credential operator (external) |

A write whose answer is lost is the write followed by Fail. `cycle`
and `quiet` are history variables: the cluster before the first change of apply not yet
reverted, and whether anybody else wrote during the command.

`AtomicBackup` leaves out the calls: one Save of a single snapshot, Adds, PutBacks,
and `open`, which closes only when every object is as in the backup. LabLifecycle maps
`live`, `backup` and `open` to `cluster`, `file` and `cycle # NoCycle`.

### ClusterReadiness

The nine polls of waitForClusterReady in their order (`Stages`), each with what it
reads (`Stable`, `DriverAvailable`, `PodsRunning`, `MachinesHealthy`, `NodesReady`,
`MachinesLabelled`). A poll is content (PollContent), is not or its call failed
(PollAgain), or the wait's timeout or the command's deadline is over (TimesOut).
Operators, pods, Machines and Nodes are external: their actions are the transitions of the status fields the code
reads, while one change is rolled out. The first poll comes right after the write (conditions.go:70), so that an operator may be
`unaware` of the change and look settled: `missed` is the history of the operators that were polled in that state.
verify looks once, at one thing after the other: the operators (VerifyOperator), the vCenters of the Infrastructure (VerifyInfra),
and the managed cloud config (VerifyConfig). `config` is its content, as the keys and servers of its vcenter section, which may not parse; `VCenterServers` and
`VCentersPresent` are cloud_config.go:34-86 on it, and `VerifyInfra` is the check at apply.go:169. The cluster-config-operator writes it when it finishes its rollout; until then it
names the vCenters from before the change.

### OVACache

One action per step of DownloadOVAToDir: directory and lock file, flock, cached file with or
without SHA256, request, temporary file, copy, hash, rename, the deferred removal and
unlock, and the use of the path afterwards without the lock. `Die` may happen at any
point: the kernel drops the flock, the temporary file stays. One image name is modelled,
whose release is fixed; processes that ask for other names use other files.

### FDLifecycle

A spec is a sequence of steps: remove the FD or the vCenter, create a namespace with a volume, create a namespace that only the spec's own cleanup knows, run
a smoke pod that may land on any datastore, delete a volume, set the annotation, wait for or expect a condition, register a cleanup. `CSISpecs`
writes the thirteen specs of `csi_operator_lifecycle_test.go` that change the cluster, FD-REM-02 with its smoke namespace, PVC and pod.
The runner is Ginkgo as the suite uses it: cleanups of a spec form a stack that is run
whatever the outcome (`Restore`, `CleanVolume`, `CleanNamespace`, `CleanForce`, `CleanupFails`); the
container is Ordered, so that a failed spec skips the rest (`NextSpec`); `AfterAll`
deletes the namespaces in `listed` (csiOpTestNS), which is not every namespace; `AfterSuite` restores the Infrastructure BeforeSuite read.
A call that fails may have taken effect, so that a step may fail with its namespace, volume or annotation created.
`Reconcile` is the CSI operator as the specs describe it (external): tag iff an FD names the
datastore, except that volumes block the removal unless forced, and that without the vCenter
there is no tag to manage. `policy` is the ValidatingAdmissionPolicy that
denies the removal of an FD with Machines (removeFDAndSkipIfDenied).
Ginkgo is external too, modelled from the order the suite's comments and cleanups rely on.

### FDNodeSuites

`pc` and `cur` are the suite that runs; `made` is `msCreated` (csiOpMSCreated), on which
AfterAll depends. Per suite there is the MachineSet (`replicas`, Absent when there is none), its Machine (`live`) and
a Machine that is being deleted (`dying`: with its Node or only its VM).
Its Node may stay for a while after it (`ghost`; race-review.md:87).
Template and folder are shared by name: `vm` is whatever has the template's name (being imported, a plain VM, a template).
vSphere destroys them in tasks (`tasks`), which go on when nobody waits for them any more.

| Actions | Code |
|---|---|
| StartSuite, FindNode, MachineSetUp, WaitForMachineSetMachines, WaitForReadyNodeInTopology | BeforeAll |
| EnsureVMFolder, FindTemplateByName, ImportVApp, LeaseWait, UploadAndComplete, MarkAsTemplate, ImportFails | ensureTemplateInSecondVC and ImportOVA, one action per call whose effect others see |
| NodeTimeout | the BeforeAll of the storage suite has 20 minutes, its import the suite's context: `imp[s]` goes on, while `pc` is in AfterAll or another suite |
| NothingMade, ScaleDown, Drained, DrainGivenUp, DeleteMachineSet, NewSession, DeleteTemplate, WaitTemplate, DeleteVMFolder, WaitFolder, CleanupExpires | AfterAll, where errors are logged and the next step is taken (`lost` remembers which) |
| ProcessEnds | the process ends with its goroutines, or is killed |
| SyncMachineSet, Provision, NodeReady, MachineGone, NodeGone, LeaseExpires, TemplateDestroyed, FolderDestroyed | controllers, kubelet and vSphere (external) |

A Node of a Machine that is being deleted, or has been, is as Ready as any other, so that FindReadyNodeInTopology may answer
"leaving". A wait that cannot come true any more ends (`WaitInVain`). OVACache is the download within ImportVApp.

### PhaseWatch

PERF-01 and one step of the steady-state suite, as two kinds of behaviour of one module. `machine` holds phase, deletion, version and
Node of each Machine by name; names are never used again. `rec`, `joined`, `before` are the maps the code
keeps. Time is in ticks, with any number of polls between two.

### TestGrid

`step` is the next command of the script. The file system outlives clusters: `reports/`, `results/run-NN`, their
status and `.lab-state` (`backup`: whose cluster it is of). `Kill` may come at any command, also half way through the copy of the
reports, and the script is started again; the cluster keeps what was done to it until it is destroyed. Apply, verify and restore are
one action each here, with the outcomes LabLifecycle has. `Phase` is one suite of `make test-e2e`; phase 4 changes Infrastructure, and when its AfterSuite
cannot put it back (helpers_test.go:80-85) the lab is `partial` and phase 5 runs on it (Makefile:112-114). BuildGrid is the algorithm of aggregate-junit, with the loop over the files of a cell
written out file by file in its order (`Cell`); `Worst` is the definition it is checked against.

### DHCPRelease and StableWatch

In DHCPRelease `released++` is a load and a store, so that the mutex matters; the WaitGroup and the semaphore are counters. In
StableWatch a read is sent and answered apart (`got`), so that the ConfigMap may be written in
between. The ticker is on a grid and drops ticks while an answer is awaited (`NextTick`); answers take up to `Delay`, which may be longer than the interval. The two do not interact: a behaviour of MCHelpers is one of either.

## Runs

| Run | Instance | Shows |
|---|---|---|
| `lab_alone` | 3 vCenters, 3 applies, 2 faults, nobody else | BackupMatchesCycle, CredsCoverInfra, the refinement of AtomicBackup, RestoreEventuallyReverts |
| `lab_interference` | 4 vCenters, 2 applies, 2 edits at any moment, 1 fault, torn writes | ApplyComplete, RestoreExact, VCenterLimit |
| `ready` | 1 Machine, 2 controllers, a pod, 2 vCenters; up to 2 operators for which the change makes work, aware of it or not | TypeOK, ReadyCluster, VerifyPassesAfterReady, WaitEnds |
| `ova` | 3 processes, with and without SHA256, wrong images, deaths | VerifiedUse, GoodStays, EveryoneReturns |
| `fd_all` | five label filters and a focus, with and without the policy, 3 faults | CleanStart, OwnVolumeOnly, NothingForgotten, TagHeld, SiteRecovers |
| `fd_nodes` | 2 suites (one with NodeTimeouts), 4 starts, 3 faults | NothingLeft, SpecsHaveNode, TemplateWhileNeeded, NotUnderMachines, MachinesGo, SuiteEnds |
| `perf` | 3 Machines for 2 replicas, 1 deleted, 1 more update | TypeOK, RecordsOrdered, AllRunningAtReturn, ChangedWereWritten, JoinedMeansAll |
| `grid` | 2 runs, 2 kills, failed destroys or suites without report | TypeOK, PassIsGreen, ReadyForTests, GridIsRight, OrphansAreFaults, ResultsStay |
| `helpers` | 3 Nodes on 2 slots; window 4, grace 11, interval 1, delay up to 2, 3 writes | CountedWhenReturned, StableMeansQuiet, TimeoutMeansWritten, HelpersReturn |
| `fd_reattach`, `grid_backup`, `lab_torn` | smallest that shows it | one disagreement each, see below |

What follows at once from the inductive invariants and is no question of its own (CompleteUse, NoStrayFiles, SlotsRespected,
BackupTakenOnce, the type invariants of the modules proved first) is not repeated in the runs: it is proved for every instance.

BackupMatchesCycle and CredsCoverInfra hold only where `lab_alone` checks them: under other
configurations they fail, see [below](#where-code-and-documents-disagree). Their theorems have the same hypotheses.

What some properties mean, where the code allows more than a reader may expect:

- *CredsCoverInfra* says that each object that can be read names every vCenter of the Infrastructure, the Machine API secret too once the
  cloud credential operator has derived it from a covering source. An object that is absent names none; a config that does
  not parse stands only beside the Infrastructure the cycle began with: the change of the Infrastructure comes after the rebuilt config.
- *ReadyCluster* and *VerifyPassesAfterReady* except the operators in `missed`. This is what the code does and not what
  its comment says, see below.
- *NothingForgotten* excepts what a failed deletion leaves, or a call that failed and had created. *OwnVolumeOnly* excepts volumes after DeletePVC failed.
- *SpecsHaveNode* lets a suite that made nothing run on a Node that goes, as race-review.md:87 describes; *TemplateWhileNeeded* lets a destroy task that an earlier
  suite no longer waits for take the template. Both say that nothing else does.
- *ReadyForTests* lets phase 5 run on what phase 4 could not restore, when make has failed already.
- *TimeoutMeansWritten* allows for the two reads it takes to see a write and the end of the window, each as late as the answers are.

### Bounds, and why they are enough

- *vCenters.* OpenShift's limit is 3. Four are the least for VCenterLimit to be able to
  fail; for the other properties three tell apart old, new and somebody else's.
- *Applies, faults.* Three applies give first apply, apply repeated after a
  failure, and apply after a restore, in one behaviour; restores are
  unbounded. Two faults break an apply and then the restore of it; an apply or
  restore may stop at every call.
- *Edits.* One change of another actor is enough to make every value that was read stale; two
  make and unmake a vCenter during one apply.
- *Polls.* `MaxPolls`, `MaxWaiting` count ticks left of a wait and of the command. Only which
  ends first matters, and both orders occur. The cluster takes any number of
  steps between two polls.
- *Operators.* The change makes work for two of the four at most (`MaxReacting`), so that one may undo what was seen of the other. The proofs have no such bound.
- *Machines.* ReadyCluster is a conjunction over Machines whose steps do not
  interact, so one Machine shows it.
- *Processes.* A holder, a waiter and one that comes later. The proofs hold for any number.
- *Faults of the suites.* Three break a spec, its restore and the end of the suite. In `fd_nodes` three are a BeforeAll that fails or
  times out, an AfterAll that gives up a step, and a fault of the suite after it; four starts let each suite run again after the other.
  The proofs are for any number.
- *Selections.* The label filters of the plan run the thirteen specs, but FD-REM-02 only after FD-REM-01, which cannot pass where the removal is
  allowed; a focus (GINKGO_FLAGS) runs it without FD-REM-01.
- *Machines of the watches.* Two replicas and a third Machine that replaces a deleted one are the least for a record that no
  longer has a Machine and a Machine that is in one snapshot only. Two ticks separate the times of phases.
- *Runs of the grid.* The second is the first that meets what another has left; two faults are a kill and a failed
  destroy, or a kill of the run that resumes.
- *Nodes and slots.* Three Nodes on two slots make one wait; two at once can lose an increment.
- *Window and grace.* As in the code, a grace period holds a whole window and several
  polls; three writes come before, in and after the first window, and answers are slower than the interval.
- *Symmetry* permutes vCenters in the safety runs of LabLifecycle only. No run with
  a liveness property uses it.

Deadlock is checked in the LabLifecycle runs: a command can always be started.
The other systems end, and their configurations say so.

### Fairness

- `WF(CommandStep)`: a command that runs makes its next call; each call has the
  context of 45 minutes (main.go:15-18), so that it returns.
- `WF(StartRestore)`: whoever applied runs restore, and again after it failed. `make
  test-e2e` starts it once (Phase 6); repeating it is left to the person who reads the exit code. This is an
  assumption about the use of the tool, without which nothing would revert the cluster.
- `WF(WaitStep)`: polls come from a ticker under two deadlines.
- `WF(Step(p))` of OVACache: a process that does not die goes on. Each asks for the lock
  once, so weak fairness is enough for flock.
- `WF(Runner)`, `WF(Reconcile)` of FDLifecycle: Ginkgo goes on after every outcome; the operator
  reconciles. No fairness is put on failures, deaths, other actors or the cluster.
- FDNodeSuites: `WF(Runner)` and `WF(Import(s))`, since every call and wait has a deadline and the import is a goroutine of its own;
  weak fairness of the controllers, the kubelet, the removal of Machines and Nodes, and the destroy tasks. Nobody has to start a suite, and nothing has to fail.
- MCHelpers: `WF` of the caller and of the clock; `SF` of each goroutine, because Go serves those that wait for a channel or a
  mutex in turn, while each may be disabled again and again by another that takes the slot.

In FDLifecycle a wait times out freely once its condition can no longer come; a timeout before
that counts as a fault, like a failed call.

## Proofs

Every safety invariant, every action property and the refinement that a passing run checks is also a theorem, for every
value of the constants that the named assumptions admit. Where a theorem has a hypothesis beyond
these, it is the setting in which the run checks the property, and outside of it TLC shows a counterexample:

| Theorem | Property | Hypothesis | Without it |
|---|---|---|---|
| LabLifecycleProofs: ApplyIsComplete, RestoreIsExact, LimitHolds | ApplyComplete, RestoreExact, VCenterLimit | none | |
| BackupPrecedesChange | BackupBeforeChange | no torn write | `lab_torn` |
| CredsAlwaysCover | CredsCoverInfra | nobody else writes, no torn write | others add a vCenter while a config that restore has put back, and that does not parse, stands beside the Infrastructure (that writes are whole is a hypothesis of the proof, by MatchInv: TLC finds no counterexample to it) |
| CoversDespiteAdds | CoversInfra, its first part | others only add vCenters, between commands | added during apply: an unparsable config is rebuilt from the list read earlier; removed in between: restore, stopped after its first call, has named the vCenter again |
| BackupMatches | BackupMatchesCycle | nobody else writes, no torn write | an old or torn file is kept, see below |
| RefinesAtomicBackup | ImplementsAtomicBackup | nobody else writes | AtomicBackup has no other actor |
| ApplyAppendsAlone | ApplyAppends (no run) | no concurrent writer | the patch drops what was added meanwhile |
| ClusterReadinessProofs: TypeCorrect, ReadyMeansAll, VerifyPasses | TypeOK, ReadyCluster, VerifyPassesAfterReady | none | |
| OVACacheProofs: VerifiedUseHolds, GoodStaysHolds | VerifiedUse, GoodStays | none | |
| FDLifecycleProofs: CleanStartHolds, OnlyItsOwnVolume, NothingIsForgotten | CleanStart, OwnVolumeOnly, NothingForgotten | none (any Scoped specs) | |
| TagIsHeld | TagHeld | PV-SAFE-01 is the program of CSISpecs, the other specs are any Scoped ones | |
| FDNodeSuitesProofs: NothingLeftHolds, SpecsHaveNodeHolds, TemplateWhileNeededHolds, NotUnderMachinesHolds | NothingLeft, SpecsHaveNode, TemplateWhileNeeded, NotUnderMachines | none | |
| PhaseWatchProofs: TypeCorrect, RecordsAreOrdered, ReturnIsAllRunning, ChangesAreWrites, JoinedIsAll | TypeOK, RecordsOrdered, AllRunningAtReturn, ChangedWereWritten, JoinedMeansAll | none | |
| TestGridProofs: TypeCorrect, TestsFindTheLab, CollectedStays, OrphansAreCounted, PassRunsAreGreen, GridIsTheWorst | TypeOK, ReadyForTests, ResultsStay, OrphansAreFaults, PassIsGreen, GridIsRight | none | |
| HelpersProofs: HelpersCount, StableIsQuiet, TimeoutIsLateWrite | CountedWhenReturned, StableMeansQuiet, TimeoutMeansWritten | none | |

Every strengthening was an invariant of a TLC run before it was proved.

**LabLifecycleProofs**, for every finite set of vCenters, any number of applies and faults
(SentinelAssumption: the model values differ; BoundAssumption).
`InductiveInvariant` proves `IInv == TypeOK /\ ControlInv /\ WriteAheadInv`, for every behaviour of other actors, with and without torn writes.
BackupBeforeChange, which needs whole writes besides (`NextWhole`), alone is not inductive: PutConfig opens the cycle, and only
the position of the command says that the file exists by then. WriteAheadInv says so for every label of
the changing part, and that while a backup is captured there is neither a file nor an open cycle, which is why SaveState
cannot record a change of apply (`BackupIsTakenOnce`). ControlInv carries what the
later calls rely on: the draft is whole when it is saved, restore's draft is the file, the target of a write is the one read.

`CommandProgress` adds what a command has achieved at each call, as long as `quiet`: what was captured, read, added or put back so far agrees
with the cluster. ApplyComplete and RestoreExact are its last lines, and it is what the other results use.
`LimitInv` carries the limit through everything a command holds: what apply has read is below it (RefuseApply), and the draft and the file are within it, which
is why restore may write an old list. That others respect the limit is the guard of OutsideAdd: OpenShift's validation.
`CoverInv` says that cluster *and* backup cover the Infrastructure of the backup: without it a restore that stopped after its
first call would be unjustified. The order of the calls does the rest: apply writes Infrastructure last, restore first. `MatchInv` says that with no cycle open the cluster equals the
file, so that the next apply, which keeps the old file, still starts from what it holds; this is exactly what fails once anybody else writes between commands.
For CredsAlwaysCover `ReadableInv` adds that a config which does not parse stands only beside an Infrastructure as the cycle found it, and `RebuiltInv` why: apply has rebuilt
the config before it goes on to the secrets and the Infrastructure.
`RefinesAtomicBackup` maps every step: SaveState to Save, because by CaptureInv the five reads are one
snapshot; PutConfig, PutSecret and PatchInfra to Add; RestorePut to PutBack; all others stutter.

**ClusterReadinessProofs**, for any Machines, controllers and pods. ReadyCluster speaks of nine things at once, the polls see them one
after the other. `PassedInv` says for each poll that what it saw still holds later, and why needs three facts about the
cluster: an operator that is done stays done and one that is at work says so (`RolloutInv`), so that an operator seen stable is done or in `missed`; the driver reports Degraded while it does not report Available, and pods are replaced only while the storage operator
works (so that the order of the polls matters: it is polled before them); and a Machine with a Node keeps it until it is gone (`LinkInv`).
`ConfigInv` ties the content of the cloud config to the rollout of the config-operator, by what `ConfigFor` writes; VerifyPasses needs it, and that a later write of the config-operator keeps a config complete.

**OVACacheProofs**, for any number of processes (FreeAssumption). IInv: exactly the
process between lock and unlock holds it, the image's file is never partial, and
what a process found out about it (`Cached(p)` after a good return) stays true. The last part is what
`VerifiedUseHolds` and `CompleteUseHolds` need, since the file is opened without the lock; it survives others because
who re-downloads without a SHA256 has found no file, and who has a SHA256 renames only a right one, so that
`GoodStaysHolds`. `NoStrayFilesHolds` is the last conjunct.

**FDLifecycleProofs**, for *any* programs that are `Scoped` (a spec registers one restore,
before it changes Infrastructure, the removal of the annotation and of a namespace of its own directly after
making them, and handles its volume before it ends), any selection and any number of faults. IInv ties the changed state to the stack: while Infrastructure is not full, a restore
with the full backup is on the stack, or the spec has failed (and the Ordered container
ends); the annotation and a namespace that AfterAll does not know are there only with their removal on the stack, or in the next step, or already given up; a volume is in a namespace of its
spec, and one spec has handled its volume before the next starts, unless the policy has it skipped, in which case nothing is removed. CleanStartHolds, OnlyItsOwnVolume and NothingIsForgotten
follow. ScopeAssumption is checked by TLC for the thirteen programs in `fd_all`. `TagIsHeld` needs the stack of PV-SAFE-01 itself (`HeldInv`):
the restore is above the removal of the volume, so that whenever the failure domain is missing the volume still blocks the operator. It starts from
CleanStart: another spec could have left the annotation, which would let the operator through.

**FDNodeSuitesProofs**, for any suites, with or without NodeTimeouts, any number of starts and faults
(SuiteAssumption, BoundAssumption). None of the properties is inductive. TemplateWhileNeeded needs `ImportInv`: a task destroys what exists, a
left-over import of another suite cannot take the template away, since only the holder of the one open lease changes the VM, and while one is open
the VM is not a template; and a VM is never without its folder. SpecsHaveNode needs `OwnMachine` (nobody scales the MachineSet or deletes its Machine while it is in use), and it and NothingLeft need `NoFault`, which says for every step what exists
as long as nothing has failed, the tasks and the Nodes left behind included. `NotUnderMachinesHolds` needs `DrainInv`: unless a step was done without,
the MachineSet asks for nothing from scaling down on, and there is no Machine from the drain on.

**PhaseWatchProofs**, for any number of Machines, deletions, writes and ticks (BoundAssumption: at least one worker is asked for, as
provisioning_perf_test.go:36 insists). RecordsOrdered is kept by `Stamp`, which gives a missed phase the time of the poll. AllRunningAtReturn is not a
matter of one poll: records outlive Machines, and only `ShortInv` (as long as the watch goes on, fewer than Target of the recorded Machines still run) makes some
Machine new in the last poll, so that AllRunningTime is now. `WindowInv` relates resourceVersions and writes; it needs that names are not used again.

**TestGridProofs**, for any number of runs, kills and failed destroys. PassIsGreen needs what make has seen so far at each phase (`PassInv`) and that reports of an
earlier run are not there (`RunInv`, FilesInv). OrphansAreFaults is not inductive between two runs, where the install directory still
knows a cluster that the next create forgets: `OrphanInv` counts it as lost already. GridIsRight holds because Worse is a
maximum (`RankOrder`) and a missing result never wins.

**HelpersProofs.** *DHCPRelease*, for any finite set of Nodes and any number of slots (NodeAssumption). `CountInv` says what each counter is the
cardinality of: the WaitGroup of the goroutines that have not ended, the semaphore of those inside, `released` of those that have
succeeded and stored; and that who is between load and store holds the mutex and has read the
current value. Every step moves one goroutine in or out of one of these sets. `HelpersCount` follows, because
Wait passes only with an empty first set. *StableWatch*, for any window, grace, interval and number of writes (TimeAssumption). StableMeansQuiet needs `SinceInv`: the version
compared last was written before stableSince, and an answer on its way is no older than that. TimeoutMeansWritten needs bounds in the other direction (`DueInv`, `NewInv`, `EndInv`):
reads are at most `Gap == max(Interval, Delay)` apart (`GapFacts`, `TickFacts`: the ticker drops the ticks that come while an answer is awaited), a write is read within Gap + Delay, and once nothing is
written any more the reads end within the same time after the window. With a Delay longer than the interval the bound is wider, not void.

*Only model-checked:* the seven liveness properties (RestoreEventuallyReverts, WaitEnds, EveryoneReturns, SiteRecovers, MachinesGo, SuiteEnds, HelpersReturn)
and the three properties that fail as the runs show. Liveness under fairness and ENABLED are beyond the prover, as are results about
recursively defined operators for every input; no module that is
proved about uses RECURSIVE. For that reason the loop over files in TestGrid is written out.

## Where code and documents disagree

Shown by a run:

1. `fd_reattach`: EDGE-02 (and FD-REM-01, EDGE-03) waits in its body for a tag that can come back
   only after its own cleanup.
2. `grid_backup`: nothing removes `.lab-state`, which outlives the cluster. The second run of the grid keeps the backup of the
   first run's cluster (apply.go:59) and restores the new cluster from it, with its credentials and configuration.
3. `lab_torn`: README.md:110 promises a backup before any change. An apply repeated after its
   SaveState was interrupted (os.WriteFile truncates first, state.go:35) finds a file (state.go:55), takes no
   backup (apply.go:59) and changes the cluster; restore cannot parse the file (state.go:48).

To be seen with one change of a configuration, without a run of their own:

- Restore leaves the file, so the next apply keeps the backup of the
  earlier cycle (apply.go:59) and restore drops what was configured in between: the same lines as `grid_backup`
  in one cluster. (BackupMatchesCycle in `lab_alone` with one vCenter added by others between commands.)
- README.md:65 says apply appends the vCenter. The patch
  replaces the list by the one read at the start plus the vCenter. (ApplyAppends in `lab_interference`; without concurrent writers it is proved, ApplyAppendsAlone.)
- The first poll of WaitForClusterOperatorStable may read the status from
  before the change; the comment (conditions.go:65-66) says that it "confirms the operator has finished rolling out". (ReadyCluster in `ready` with `Operator`
  for `Operator \ missed`.) What the waits do guarantee all the same is ReadyCluster as it is checked and proved.
- OBS-01 scrapes as soon as the operator is seen stable, which may be before it has reconciled. (NoFalseFailure in `fd_reattach` with the label filter ObsLabel.)
- docs/tests/N-CM-02.md:14 says that the wait for a stable ConfigMap "fails if it changes"; WaitForConfigMapStable (configmap.go:137) starts
  its window again and fails only at the deadline. StableWatch has what the code does; StableMeansQuiet and TimeoutMeansWritten say what the two answers mean.
- The removal of the force-orphan-cleanup annotation ignores its errors (csi_operator_lifecycle_test.go:740): with the annotation left, the specs after it wait in vain for
  OrphanCleanupPending. (`fd_all`; NothingForgotten and CleanStart name the failed call as the only way.)
- A suite takes the Ready Node of a Machine that is being deleted, or has just been, for its own and makes nothing (race-review.md:87, Finding 2): reachable in `fd_nodes`
  without a fault. (`pc = "specs" => node = "lasting"` is violated.)
- PV-SAFE-02 may take the OrphanCleanupPending that PV-SAFE-01 left for its own. (WaitsForItsRemoval
  in `fd_all` with Selections <- OnlyPV.)

Seen while modelling, outside what a property says:

- The comment of WaitForCSIDriverPodsReady (storage.go:639-640) says "with no excessive
  restarts"; the code (storage.go:661) reads the phase only.
- VC-REM-02 (csi_operator_lifecycle_test.go:860) removes the vCenter after a wait for a stable
  operator; plans/csi-operator-fd-lifecycle-plan.md:288 asks for "Same sequence as VC-REM-01", which waits
  for the tag to be detached first. In the model the operator may never get to detach it.
- OBS-02 (csi_operator_lifecycle_test.go:1019) scrapes as soon as the operator is seen stable;
  docs/tests/OBS-02.md:10 expects the metric of the detach to have increased.
- PV-SAFE-02 (csi_operator_lifecycle_test.go:649) registers no cleanup for its pod and PVC, while the
  plan (480-483) says every test does; a skipped or failed PV-SAFE-02 leaves them until AfterAll.
- Nodes that oc never reached because the context had ended count as released (node.go:90); the comment means
  commands that were killed half way. DHCPRelease counts them as the code does.
- The watch of a steady-state step counts from its records, on purpose (steady_state_perf_test.go:412): a Machine that was Running and is deleted
  counts, and WatchNodeJoin then waits its three minutes for a Node that is gone. AllRunningTime after a timeout is that of the last Machine seen.
- waitMachineSetRunning (steady_state_perf_test.go:271) counts Machines that are being deleted, which
  WaitForMachineSetMachines no longer does; AfterAll (:93) does not restore sets that had no replicas.
- NewSession (session.go:92) logs in before it looks up the datacenter and REST; when one of these fails nobody logs out.
- AfterAll deletes template and folder by name, also when the suite has created neither (csi_operator_lifecycle_test.go:362).
- The spec is sent as a merge patch (infrastructure.go:82): a list the Go type omits when empty is not emptied.
- perf-compare's percentile (main.go:332) truncates its index: p99 of fewer than 101 Machines is not the maximum.
- queryMetricOrZero takes the first of several series; Machines' creation is the API server's clock, the other
  times are the client's; the pass rate of a test that never ran is 0.

## Not modelled

- *Of LabLifecycle:* two commands at once; creation and deletion of secrets by others during a command; the
  content of objects beyond the vCenters named (datacenters, failure domains, passwords). Denial of the
  patch by admission is `Fail`.
- *Of ClusterReadiness:* a cluster that gets worse without a change (a node lost).
- *Of FDLifecycle:* specs and steps that change nothing or test what the model never changes (storage class, SPBM
  profiles, CSI config, FD-ADD, FD-REM-04), the deferred EDGE-01, the observational VC-REM-03,
  an operator other than the one the specs describe.
- *Of FDNodeSuites:* workspace, network and labels of the cloned MachineSet, OVF descriptor, choice of the host, secure boot; a Node that becomes
  NotReady by itself; the delay of the garbage collector.
- *Of the performance suites:* scaling the worker sets down and up around the ramp (single calls and waits of the kinds FDNodeSuites
  has), statistics, log capture, reports. *Of the result tools:* HTML, Markdown, metric text, the tables of perf-compare: output of
  one pass over its input. *Of the pipelines:* perf-benchmark.sh, a sequence of commands without state of its own.
- *Of the ConfigMap helpers:* snapshot, restore and comparison, which are single calls.
- *Components without a module* are listed in PROJECT.json with the reason. Sessions (no caller of the cache), synthetic orphans (the program
  and reconciler of FDLifecycle against a second datastore), configuration, clients and read-only specs have no state or order worth a model.

## Plan

The system's parts with state and order of their own are modelled, and what the runs check of safety is proved. What is left:

1. The fairness-free part of the liveness arguments: measures that every step of a wait, of a command or of a suite decreases (WaitEnds, SuiteEnds, RestoreEventuallyReverts), as
   action properties and theorems.
2. Theorems for the settings in which a property fails: what still holds of the backup with others between commands or after a torn write (CoversDespiteAdds is the first of
   them), and CredsAlwaysCover without the hypothesis of whole writes.
3. That the thirteen programs of CSISpecs are Scoped, which TLC evaluates, as a theorem.
