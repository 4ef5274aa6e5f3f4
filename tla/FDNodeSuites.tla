---------------------------- MODULE FDNodeSuites ----------------------------
(***************************************************************************)
(* The two CSI suites that need a Node in the failure domain of the second *)
(* vCenter.  When there is none, BeforeAll imports a template into the VM  *)
(* folder of the cluster, makes a MachineSet of its own and waits for its  *)
(* Machine and a Ready Node; AfterAll takes all of it down.  The suites    *)
(* run one after the other, in any order and any number of times, and      *)
(* share the name of the template and of the folder.                       *)
(*                                                                         *)
(* The import runs under the context of the whole suite: when the          *)
(* NodeTimeout of a BeforeAll is over, Ginkgo goes on to AfterAll and the  *)
(* goroutine that imports stays, until it has finished or the process has. *)
(*                                                                         *)
(* A call that fails, whose reply is lost, a wait that ends too early and  *)
(* the death of the process are faults.  vSphere, the MachineSet           *)
(* controller and the kubelet are external: vSphere destroys a VM or a     *)
(* folder in a task that goes on when its caller no longer waits for it,   *)
(* and a Node may outlive its Machine (race-review.md:87).                 *)
(***************************************************************************)
EXTENDS Integers, FiniteSets

CONSTANTS
    Suites,      \* the suites; each has a MachineSet, named after it
    Timed,       \* those whose BeforeAll and AfterAll have a NodeTimeout
    MaxRuns,     \* bound: suites that are started
    MaxFaults    \* bound: faults

ASSUME SuiteAssumption == Timed \subseteq Suites
ASSUME BoundAssumption == MaxRuns \in Nat /\ MaxFaults \in Nat

VARIABLES
    pc, cur,     \* what the suite that runs does next, and which one it is
    made,        \* msCreated: it counts the MachineSet as its own
    node,        \* what it took for its Node: one that stays, or one that goes
    lost,        \* the steps of AfterAll that it had to do without
    imp,         \* where the import of each suite is
    folder, vm,  \* the VM folder; the VM that has the name of the template
    tasks,       \* the destroy tasks of vSphere that have not ended
    replicas,    \* of each MachineSet
    live,        \* its Machine, and how far it has come
    dying,       \* its Machines that are being deleted; has one a Ready Node?
    ghost,       \* is there a Node of it whose Machine has gone?
    runs, faults

runner   == <<pc, cur, made, node, lost>>
vsphere  == <<folder, vm, tasks>>
machines == <<replicas, live, dying, ghost>>
vars     == <<runner, imp, vsphere, machines, runs, faults>>

Absent == -1     \* there is no such MachineSet
Step   == {"idle", "find", "import", "getset", "waitmachine", "waitnode", "specs",
           "after", "drain", "delset", "session", "deltemplate", "waittemplate",
           "delfolder", "waitfolder"}

TypeOK ==
    /\ pc \in Step /\ cur \in Suites /\ made \in BOOLEAN
    /\ node \in {"none", "lasting", "leaving"}
    /\ lost \subseteq {"scale", "drain", "delete", "rest"}
    /\ imp \in [Suites -> {"no", "folder", "find", "vapp", "lease", "upload", "mark"}]
    /\ folder \in BOOLEAN /\ vm \in {"none", "importing", "plain", "template"}
    /\ tasks \subseteq {"template", "folder"}
    /\ replicas \in [Suites -> {Absent, 0, 1}]
    /\ live \in [Suites -> {"none", "new", "running", "ready"}]
    /\ dying \in [Suites -> {"none", "vm", "node"}]
    /\ ghost \in [Suites -> BOOLEAN]
    /\ runs \in 0..MaxRuns /\ faults \in 0..MaxFaults

Init ==
    /\ pc = "idle" /\ cur \in Suites /\ made = FALSE /\ node = "none" /\ lost = {}
    /\ imp = [s \in Suites |-> "no"]
    /\ folder = FALSE /\ vm = "none" /\ tasks = {}
    /\ replicas = [s \in Suites |-> Absent]
    /\ live = [s \in Suites |-> "none"] /\ dying = [s \in Suites |-> "none"]
    /\ ghost = [s \in Suites |-> FALSE]
    /\ runs = 0 /\ faults = 0

Fault == faults < MaxFaults /\ faults' = faults + 1

NoMachine(s) == live[s] = "none" /\ dying[s] = "none"
Lasting      == \E s \in Suites : live[s] = "ready" /\ replicas[s] = 1
Leaving      == \E s \in Suites : (live[s] = "ready" /\ replicas[s] # 1) \/ dying[s] = "node" \/ ghost[s]
Cloneable    == vm = "template" /\ folder

\* A Node is Ready before, while and for a while after its Machine is deleted:
\* the look at the Node alone cannot tell one that stays from one that goes.
\* When there are several, the first of the list is taken.
FindReadyNodeInTopology(found) ==
    \/ found = "lasting" /\ Lasting
    \/ found = "leaving" /\ Leaving
    \/ found = "none" /\ ~Lasting /\ ~Leaving

(***************************************************************************)
(* BeforeAll.                                                              *)
(***************************************************************************)
StartSuite(s) ==
    /\ pc = "idle" /\ runs < MaxRuns /\ imp[s] = "no"
    /\ runs' = runs + 1 /\ cur' = s /\ pc' = "find"
    /\ made' = FALSE /\ node' = "none" /\ lost' = {}
    /\ UNCHANGED <<imp, vsphere, machines, faults>>

FindNode ==
    /\ pc = "find"
    /\ node' \in {"none", "lasting", "leaving"} /\ FindReadyNodeInTopology(node')
    /\ \/ node' # "none" /\ pc' = "specs" /\ UNCHANGED imp
       \/ node' = "none" /\ pc' = "import" /\ imp' = [imp EXCEPT ![cur] = "folder"]
    /\ UNCHANGED <<cur, made, lost, vsphere, machines, runs, faults>>

\* The import of s returns; next is where BeforeAll goes on, if it still waits.
ImportReturns(s, next) ==
    /\ imp' = [imp EXCEPT ![s] = "no"]
    /\ pc' = IF pc = "import" /\ cur = s THEN next ELSE pc
    /\ UNCHANGED <<cur, made, node, lost>>

ImportGoesOn(s, step) == imp' = [imp EXCEPT ![s] = step] /\ UNCHANGED runner

EnsureVMFolder(s) ==
    /\ imp[s] = "folder"
    /\ folder' = TRUE /\ ImportGoesOn(s, "find")
    /\ UNCHANGED <<vm, tasks, machines, runs, faults>>

\* Mutant: any VM of the name will do, as if config.template were not read.
FindAnyVMByName(s) ==
    /\ imp[s] = "find"
    /\ \/ vm # "none" /\ ImportReturns(s, "getset")
       \/ vm = "none" /\ ImportGoesOn(s, "vapp")
    /\ UNCHANGED <<vsphere, machines, runs, faults>>

FindTemplateByName(s) ==
    /\ imp[s] = "find"
    /\ \/ vm = "template" /\ ImportReturns(s, "getset")
       \/ vm \in {"importing", "plain"} /\ ImportReturns(s, "after")
       \/ vm = "none" /\ ImportGoesOn(s, "vapp")
    /\ UNCHANGED <<vsphere, machines, runs, faults>>

\* The image is downloaded (OVACache), and ImportVApp asks for a VM and a lease.
ImportVApp(s) ==
    /\ imp[s] = "vapp"
    /\ \/ folder /\ vm = "none" /\ vm' = "importing" /\ ImportGoesOn(s, "lease")
       \/ (~folder \/ vm # "none") /\ ImportReturns(s, "after") /\ UNCHANGED vm
    /\ UNCHANGED <<folder, tasks, machines, runs, faults>>

LeaseWait(s) ==
    /\ imp[s] = "lease" /\ ImportGoesOn(s, "upload")
    /\ UNCHANGED <<vsphere, machines, runs, faults>>

UploadAndComplete(s) ==
    /\ imp[s] = "upload" /\ vm' = "plain" /\ ImportGoesOn(s, "mark")
    /\ UNCHANGED <<folder, tasks, machines, runs, faults>>

\* The VM is looked up by its name again: meanwhile it may have been destroyed.
MarkAsTemplate(s) ==
    /\ imp[s] = "mark"
    /\ \/ vm = "plain" /\ vm' = "template" /\ ImportReturns(s, "getset")
       \/ vm # "plain" /\ ImportReturns(s, "after") /\ UNCHANGED vm
    /\ UNCHANGED <<folder, tasks, machines, runs, faults>>

\* What a failed call, or one whose reply is lost, leaves behind.  Until
\* lease.Wait has returned nobody aborts the lease; later the deferred Abort
\* does, and its own failure is logged.
ImportFails(s) ==
    /\ Fault /\ imp[s] # "no" /\ ImportReturns(s, "after")
    /\ folder' \in IF imp[s] = "folder" THEN {folder, TRUE} ELSE {folder}
    /\ vm' \in IF imp[s] = "vapp" /\ folder /\ vm = "none" THEN {vm, "importing"}
               ELSE IF imp[s] = "upload" THEN {"none", "importing", "plain"}
               ELSE IF imp[s] = "mark" /\ vm = "plain" THEN {vm, "template"}
               ELSE {vm}
    /\ tasks' = IF vm' = "none" THEN tasks \ {"template"} ELSE tasks
    /\ UNCHANGED <<machines, runs>>

\* The NodeTimeout of BeforeAll is over while it waits for the import.
NodeTimeout ==
    /\ Fault /\ pc = "import" /\ cur \in Timed /\ pc' = "after"
    /\ UNCHANGED <<cur, made, node, lost, imp, vsphere, machines, runs>>

\* The suite's own MachineSet: cloned and created with one replica, or, when an
\* earlier run has left it, scaled up if it has none.
MachineSetUp ==
    /\ pc = "getset" /\ pc' = "waitmachine" /\ made' = TRUE
    /\ replicas' = [replicas EXCEPT ![cur] = 1]
    /\ UNCHANGED <<cur, node, lost, imp, vsphere, live, dying, ghost, runs, faults>>

\* A Get that fails counts as a missing MachineSet, and Create then fails
\* because there is one; or the reply to Create or Update is lost.
MachineSetUpFails ==
    /\ Fault /\ pc = "getset" /\ pc' = "after"
    /\ \/ replicas' = [replicas EXCEPT ![cur] = 1]
       \/ UNCHANGED replicas
    /\ UNCHANGED <<cur, made, node, lost, imp, vsphere, live, dying, ghost, runs>>

WaitForMachineSetMachines ==
    /\ pc = "waitmachine" /\ live[cur] \in {"running", "ready"} /\ pc' = "waitnode"
    /\ UNCHANGED <<cur, made, node, lost, imp, vsphere, machines, runs, faults>>

\* Its time is over: there is nothing a VM could be cloned from.
WaitInVain ==
    /\ pc = "waitmachine" /\ live[cur] \in {"none", "new"} /\ ~Cloneable /\ pc' = "after"
    /\ UNCHANGED <<cur, made, node, lost, imp, vsphere, machines, runs, faults>>

\* Mutant: the Node of a Machine that runs is taken to be Ready.
RunningIsEnough ==
    /\ pc = "waitnode" /\ live[cur] \in {"running", "ready"} /\ node' = "lasting" /\ pc' = "specs"
    /\ UNCHANGED <<cur, made, lost, imp, vsphere, machines, runs, faults>>

WaitForReadyNodeInTopology ==
    /\ pc = "waitnode" /\ pc' = "specs"
    /\ node' \in {"lasting", "leaving"} /\ FindReadyNodeInTopology(node')
    /\ UNCHANGED <<cur, made, lost, imp, vsphere, machines, runs, faults>>

BeforeAllFails ==
    /\ Fault /\ pc \in {"find", "waitmachine", "waitnode"} /\ pc' = "after"
    /\ UNCHANGED <<cur, made, node, lost, imp, vsphere, machines, runs>>

RunSpecs ==
    /\ pc = "specs" /\ pc' = "after"
    /\ UNCHANGED <<cur, made, node, lost, imp, vsphere, machines, runs, faults>>

(***************************************************************************)
(* AfterAll.  Errors are logged and the next step is taken.                *)
(***************************************************************************)
NothingMade ==
    /\ pc = "after" /\ ~made /\ pc' = "idle"
    /\ UNCHANGED <<cur, made, node, lost, imp, vsphere, machines, runs, faults>>

\* The step of AfterAll at pc has been done, or failed and is given up.
Done(next)       == pc' = next /\ UNCHANGED <<cur, made, node, lost, imp, runs>>
Without(x, next) == pc' = next /\ lost' = lost \union {x} /\ UNCHANGED <<cur, made, node, imp, runs>>

\* Mutant: AfterAll ends when the MachineSet cannot be scaled down.
ScaleDownOrReturn ==
    /\ pc = "after" /\ made /\ UNCHANGED <<vsphere, live, dying, ghost>>
    /\ \/ /\ replicas' = [replicas EXCEPT ![cur] = IF @ = Absent THEN Absent ELSE 0]
          /\ Done("drain") /\ UNCHANGED faults
       \/ Fault /\ Without("scale", "idle") /\ UNCHANGED replicas

ScaleDown ==
    /\ pc = "after" /\ made /\ UNCHANGED <<vsphere, live, dying, ghost>>
    /\ \/ /\ replicas' = [replicas EXCEPT ![cur] = IF @ = Absent THEN Absent ELSE 0]
          /\ Done("drain") /\ UNCHANGED faults
       \/ Fault /\ Without("scale", "drain") /\ UNCHANGED replicas

\* Mutant: a Machine that is being deleted does not count.
DrainedOfLive ==
    /\ pc = "drain" /\ live[cur] = "none" /\ Done("delset")
    /\ UNCHANGED <<vsphere, machines, faults>>

Drained ==
    /\ pc = "drain" /\ NoMachine(cur) /\ Done("delset")
    /\ UNCHANGED <<vsphere, machines, faults>>

\* What becomes of s when its Machine is deleted: deletion has only begun.
Deleting(s) ==
    /\ live' = [live EXCEPT ![s] = "none"]
    /\ dying' = [dying EXCEPT ![s] =
                    IF live[s] = "ready" \/ @ = "node" THEN "node"
                    ELSE IF live[s] # "none" THEN "vm" ELSE @]

\* Mutant: the wait has no timeout of its own.
DrainFails ==
    /\ pc = "drain" /\ Without("drain", "delset") /\ Fault
    /\ Deleting(cur) \/ UNCHANGED <<live, dying>>
    /\ UNCHANGED <<vsphere, replicas, ghost>>

\* The wait times out: too early, or because the MachineSet still has a replica.
DrainGivenUp ==
    /\ pc = "drain" /\ Without("drain", "delset")
    /\ \/ Fault
       \/ replicas[cur] = 1 /\ UNCHANGED faults
    /\ \/ Deleting(cur)                  \* ForceDeleteMachineSetMachines
       \/ UNCHANGED <<live, dying>>      \* its List or Delete fails
    /\ UNCHANGED <<vsphere, replicas, ghost>>

\* The garbage collector deletes a Machine that is left; its delay is left out.
DeleteMachineSet ==
    /\ pc = "delset" /\ UNCHANGED vsphere
    /\ \/ /\ replicas' = [replicas EXCEPT ![cur] = Absent] /\ Deleting(cur)
          /\ Done("session") /\ UNCHANGED <<ghost, faults>>
       \/ Fault /\ Without("delete", "session") /\ UNCHANGED machines

NewSession ==
    /\ pc = "session" /\ UNCHANGED <<vsphere, machines>>
    /\ \/ Done("deltemplate") /\ UNCHANGED faults
       \/ Fault /\ Done("idle")

\* Whatever has the name is destroyed, in a task.  When the reply to the request
\* is lost the task may have been started.
DeleteTemplate ==
    /\ pc = "deltemplate" /\ UNCHANGED <<folder, vm, machines>>
    /\ \/ vm = "none" /\ Done("delfolder") /\ UNCHANGED <<tasks, faults>>
       \/ vm # "none" /\ Done("waittemplate") /\ tasks' = tasks \union {"template"} /\ UNCHANGED faults
       \/ /\ Fault /\ Done("delfolder")
          /\ tasks' = tasks \/ (vm # "none" /\ tasks' = tasks \union {"template"})

WaitTemplate ==
    /\ pc = "waittemplate" /\ Done("delfolder") /\ UNCHANGED <<vsphere, machines>>
    /\ \/ "template" \notin tasks /\ UNCHANGED faults
       \/ Fault

\* Mutant: the VM folder is left.
DeleteVMFolderNever ==
    /\ pc = "delfolder" /\ Done("idle") /\ UNCHANGED <<vsphere, machines, faults>>

DeleteVMFolder ==
    /\ pc = "delfolder" /\ UNCHANGED <<folder, vm, machines>>
    /\ \/ ~folder /\ Done("idle") /\ UNCHANGED <<tasks, faults>>
       \/ folder /\ Done("waitfolder") /\ tasks' = tasks \union {"folder"} /\ UNCHANGED faults
       \/ /\ Fault /\ Done("idle")
          /\ tasks' = tasks \/ (folder /\ tasks' = tasks \union {"folder"})

WaitFolder ==
    /\ pc = "waitfolder" /\ Done("idle") /\ UNCHANGED <<vsphere, machines>>
    /\ \/ "folder" \notin tasks /\ UNCHANGED faults
       \/ Fault

\* The NodeTimeout of AfterAll is over: every call it still makes fails, and a
\* task it has started goes on.
CleanupExpires ==
    /\ Fault /\ cur \in Timed
    /\ pc \in {"after", "drain", "delset", "session", "deltemplate", "waittemplate", "delfolder", "waitfolder"}
    /\ Without("rest", "idle") /\ UNCHANGED <<vsphere, machines>>

\* The process ends, or is killed while a suite runs: its goroutines go with it.
ProcessEnds ==
    /\ \/ pc = "idle" /\ imp # [s \in Suites |-> "no"] /\ UNCHANGED <<lost, faults>>
       \/ pc # "idle" /\ Fault /\ lost' = lost \union {"rest"}
    /\ pc' = "idle" /\ imp' = [s \in Suites |-> "no"]
    /\ UNCHANGED <<cur, made, node, vsphere, machines, runs>>

(***************************************************************************)
(* The cluster and vSphere (external).                                     *)
(***************************************************************************)
LeaseExpires ==
    /\ vm = "importing" /\ \A s \in Suites : imp[s] \notin {"lease", "upload"}
    /\ vm' = "none" /\ tasks' = tasks \ {"template"}
    /\ UNCHANGED <<runner, imp, folder, machines, runs, faults>>

\* A VM with an open lease is not destroyed.
TemplateDestroyed ==
    /\ "template" \in tasks /\ tasks' = tasks \ {"template"}
    /\ \/ vm' = (IF vm = "importing" THEN vm ELSE "none") /\ UNCHANGED faults
       \/ Fault /\ UNCHANGED vm
    /\ UNCHANGED <<runner, imp, folder, machines, runs>>

\* The folder goes with the VMs in it; vSphere refuses while one is powered on
\* or being imported.
FolderDestroyed ==
    /\ "folder" \in tasks /\ UNCHANGED <<runner, imp, machines, runs>>
    /\ \/ /\ vm # "importing" /\ \A s \in Suites : live[s] \in {"none", "new"}
          /\ folder' = FALSE /\ vm' = "none" /\ tasks' = {} /\ UNCHANGED faults
       \/ /\ \/ vm = "importing"
             \/ \E s \in Suites : live[s] \in {"running", "ready"} \/ dying[s] # "none"
          /\ tasks' = tasks \ {"folder"} /\ UNCHANGED <<folder, vm, faults>>
       \/ Fault /\ tasks' = tasks \ {"folder"} /\ UNCHANGED <<folder, vm>>

Controlled == <<runner, imp, vsphere, runs, faults>>

\* The controller makes the Machine of a replica, and deletes one too many.
SyncMachineSet(s) ==
    /\ \/ replicas[s] = 1 /\ live[s] = "none" /\ live' = [live EXCEPT ![s] = "new"] /\ UNCHANGED dying
       \/ replicas[s] = 0 /\ live[s] # "none" /\ Deleting(s)
    /\ UNCHANGED <<replicas, ghost, Controlled>>

\* The VM is cloned from the template into the folder and its kubelet joins.
Provision(s) ==
    /\ live[s] = "new" /\ folder /\ vm = "template"
    /\ live' = [live EXCEPT ![s] = "running"]
    /\ UNCHANGED <<replicas, dying, ghost, Controlled>>

NodeReady(s) ==
    /\ live[s] = "running" /\ live' = [live EXCEPT ![s] = "ready"]
    /\ UNCHANGED <<replicas, dying, ghost, Controlled>>

MachineGone(s) ==
    /\ dying[s] # "none" /\ dying' = [dying EXCEPT ![s] = "none"]
    /\ \/ UNCHANGED ghost
       \/ dying[s] = "node" /\ ghost' = [ghost EXCEPT ![s] = TRUE]
    /\ UNCHANGED <<replicas, live, Controlled>>

NodeGone(s) ==
    /\ ghost[s] /\ ghost' = [ghost EXCEPT ![s] = FALSE]
    /\ UNCHANGED <<replicas, live, dying, Controlled>>

Import(s) ==
    \/ EnsureVMFolder(s) \/ FindTemplateByName(s) \/ ImportVApp(s) \/ LeaseWait(s)
    \/ UploadAndComplete(s) \/ MarkAsTemplate(s)
AfterAll ==
    \/ NothingMade \/ ScaleDown \/ Drained \/ DrainGivenUp \/ DeleteMachineSet
    \/ NewSession \/ DeleteTemplate \/ WaitTemplate \/ DeleteVMFolder \/ WaitFolder
Runner ==
    \/ FindNode \/ MachineSetUp \/ WaitForMachineSetMachines \/ WaitInVain
    \/ WaitForReadyNodeInTopology \/ RunSpecs \/ AfterAll
Cluster(s) == SyncMachineSet(s) \/ Provision(s) \/ NodeReady(s) \/ MachineGone(s) \/ NodeGone(s)
VSphere    == LeaseExpires \/ TemplateDestroyed \/ FolderDestroyed

Next ==
    \/ Runner
    \/ \E s \in Suites : StartSuite(s) \/ Import(s) \/ ImportFails(s) \/ Cluster(s)
    \/ MachineSetUpFails \/ BeforeAllFails \/ NodeTimeout \/ CleanupExpires
    \/ ProcessEnds \/ VSphere

Spec == Init /\ [][Next]_vars

\* Polls and calls have deadlines, an import goes on by itself, the controllers
\* of the cluster work, destroy tasks end.  Nobody has to start a suite, and nothing has to fail.
Fairness ==
    /\ WF_vars(Runner)
    /\ \A s \in Suites : WF_vars(Import(s)) /\ WF_vars(SyncMachineSet(s))
    /\ \A s \in Suites : WF_vars(Provision(s)) /\ WF_vars(NodeReady(s))
    /\ \A s \in Suites : WF_vars(MachineGone(s)) /\ WF_vars(NodeGone(s))
    /\ WF_vars(TemplateDestroyed) /\ WF_vars(FolderDestroyed)

LiveSpec == Spec /\ Fairness

(***************************************************************************)
(* Properties.                                                             *)
(***************************************************************************)
\* When nothing has failed, nothing is left between two suites: no folder, VM,
\* MachineSet or Machine, no import and no task (AfterAll of both suites).  Only
\* the Node of the Machine may still be there.
NothingLeft ==
    pc = "idle" /\ faults = 0 =>
        /\ ~folder /\ vm = "none" /\ tasks = {}
        /\ \A s \in Suites : imp[s] = "no" /\ replicas[s] = Absent /\ NoMachine(s)

\* A Node that stays when BeforeAll finds it stays while the specs run, and the
\* Machine a suite has made is there under its specs, whatever has failed.  A Node
\* that is going away is taken for the suite's own only when BeforeAll found it at
\* once and made nothing (race-review.md:87, no fault is needed), or after a fault.
SpecsHaveNode ==
    pc = "specs" =>
        /\ node = "lasting" => Lasting
        /\ made => replicas[cur] = 1 /\ live[cur] \in {"running", "ready"}
        /\ node = "lasting" \/ (node = "leaving" /\ (~made \/ faults > 0))

\* From the moment a suite asks for its MachineSet until its AfterAll, a VM can be
\* cloned, whatever an import left over from another suite does.  One thing alone
\* can take the template or the folder away: a destroy task that an earlier suite
\* has started and, after a fault, no longer waits for.
Needed == \/ pc = "getset"
          \/ made /\ pc \in {"waitmachine", "waitnode", "specs"}
TemplateWhileNeeded ==
    [][Needed' => \/ Cloneable'
                  \/ Needed /\ ~Cloneable
                  \/ Needed /\ tasks' # tasks /\ faults > 0]_vars

\* The lease belongs to one import, and the VM that has it exists; a VM is in the
\* folder; BeforeAll waits for an import that is under way; a task destroys
\* something that exists.
Leased    == {"lease", "upload"}
ImportInv ==
    /\ pc = "import" => imp[cur] # "no"
    /\ pc = "find" => ~made
    /\ vm # "none" => folder
    /\ "template" \in tasks => vm # "none"
    /\ "folder" \in tasks => folder
    /\ \A s \in Suites : imp[s] \in Leased => vm = "importing"
    /\ \A s, t \in Suites : imp[s] \in Leased /\ imp[t] \in Leased => s = t

\* From the creation of the MachineSet to the end of the specs nobody scales it or
\* deletes its Machine.
OwnMachine ==
    /\ pc \in {"waitmachine", "waitnode"} => made /\ replicas[cur] = 1
    /\ pc = "waitnode" => live[cur] \in {"running", "ready"}

\* What there is at each step of the suite that runs as long as nothing has failed.
\* A suite that has found a Node makes nothing.
Resting      == {"idle", "find", "import", "getset", "session", "deltemplate",
                 "waittemplate", "delfolder", "waitfolder"}
Provisioning == pc \in {"waitmachine", "waitnode"} \/ (made /\ pc \in {"specs", "after"})
Found        == ~made /\ pc \in {"specs", "after"}
NoFault ==
    faults = 0 =>
        /\ lost = {}
        /\ \A s \in Suites : s # cur => imp[s] = "no" /\ replicas[s] = Absent /\ NoMachine(s)
        /\ pc # "import" => imp[cur] = "no"
        /\ pc \in {"import", "getset"} \/ Provisioning => \A s \in Suites : ~ghost[s]
        /\ pc \in Resting \/ Found => replicas[cur] = Absent /\ NoMachine(cur)
        /\ Provisioning => replicas[cur] = 1 /\ dying[cur] = "none"
        /\ pc \in {"drain", "delset"} => replicas[cur] = 0
        /\ pc = "delset" => NoMachine(cur)
        /\ pc \in {"idle", "find"} \/ Found \/ imp[cur] = "folder" => ~folder /\ vm = "none"
        /\ imp[cur] \in {"find", "vapp"} => folder /\ vm = "none"
        /\ imp[cur] = "mark" => vm = "plain"
        /\ pc \in {"getset", "drain", "delset", "session", "deltemplate"} \/ Provisioning => vm = "template"
        /\ "template" \in tasks => pc = "waittemplate"
        /\ "folder" \in tasks => pc = "waitfolder"
        /\ pc = "waittemplate" => folder /\ vm \in {"none", "template"} /\ ("template" \in tasks \/ vm = "none")
        /\ pc = "delfolder" => folder /\ vm = "none"
        /\ pc = "waitfolder" => vm = "none" /\ ("folder" \in tasks \/ ~folder)

\* Unless AfterAll has given up, the MachineSet asks for no Machine from its scaling
\* down on, and there is none from the drain on.
Emptied  == {"delset", "session", "deltemplate", "waittemplate", "delfolder", "waitfolder"}
DrainInv ==
    /\ pc \in Emptied \union {"drain"} /\ "scale" \notin lost => replicas[cur] # 1
    /\ pc \in Emptied /\ "scale" \notin lost /\ "drain" \notin lost => NoMachine(cur)

\* The inductive invariant.
IInv == TypeOK /\ ImportInv /\ OwnMachine /\ NoFault /\ SpecsHaveNode /\ DrainInv

\* A task of AfterAll destroys the template or the folder under a Machine of the
\* suite only if scaling down failed or the drain was given up; under any Machine,
\* and in a task nobody waits for, only after a fault.
Destroys == (folder /\ ~folder') \/ (vm = "template" /\ vm' = "none")
NotUnderMachines ==
    [][Destroys => /\ pc \in Emptied => NoMachine(cur) \/ lost \intersect {"scale", "drain"} # {}
                   /\ faults = 0 => pc \in {"waittemplate", "waitfolder"} /\ \A s \in Suites : NoMachine(s)]_vars

\* The Machines of a suite go away after its AfterAll, though scaling, the wait
\* or the deletion of the MachineSet has failed, unless both requests were lost,
\* AfterAll did not come to its end, or the suite is run again and makes new ones.
GivenUp     == "rest" \in lost \/ {"scale", "delete"} \subseteq lost
MachinesGo  ==
    \A s \in Suites : pc = "after" /\ made /\ cur = s
                        ~> NoMachine(s) \/ GivenUp \/ (pc = "getset" /\ cur = s)

\* Every suite comes to its end: no wait is for something that can no longer be.
SuiteEnds == pc # "idle" ~> pc = "idle"
=============================================================================
