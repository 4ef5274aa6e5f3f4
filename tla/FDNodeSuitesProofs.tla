------------------------- MODULE FDNodeSuitesProofs -------------------------
(***************************************************************************)
(* Theorems about FDNodeSuites, for any suites, any number of runs and any *)
(* number of faults.                                                       *)
(***************************************************************************)
EXTENDS FDNodeSuites, TLAPS

\* Every step keeps the types.
LEMMA TypeStep == IInv /\ Next => TypeOK'
<1> SUFFICES ASSUME TypeOK, Next PROVE TypeOK'
  BY DEF IInv
<1> USE SuiteAssumption, BoundAssumption DEF TypeOK, Step, Absent
<1>1. CASE FindNode
  BY <1>1 DEF FindNode, FindReadyNodeInTopology, Lasting, Leaving, vsphere, machines
<1>2. CASE MachineSetUp
  BY <1>2 DEF MachineSetUp, vsphere
<1>3. CASE WaitForMachineSetMachines
  BY <1>3 DEF WaitForMachineSetMachines, vsphere, machines
<1>4. CASE WaitForReadyNodeInTopology
  BY <1>4 DEF WaitForReadyNodeInTopology, FindReadyNodeInTopology, Lasting, Leaving, vsphere, machines
<1>5. CASE RunSpecs
  BY <1>5 DEF RunSpecs, vsphere, machines
<1>6. CASE NothingMade
  BY <1>6 DEF NothingMade, vsphere, machines
<1>7. CASE ScaleDown
  <2>1. faults' \in 0..MaxFaults
    BY <1>7 DEF ScaleDown, Fault
  <2>2. /\ pc' \in Step /\ lost' \subseteq {"scale", "drain", "delete", "rest"}
        /\ UNCHANGED <<cur, made, node, imp, runs, vsphere, live, dying, ghost>>
    BY <1>7 DEF ScaleDown, Done, Without
  <2>3. replicas' \in [Suites -> {Absent, 0, 1}]
    BY <1>7 DEF ScaleDown
  <2> QED
    BY <2>1, <2>2, <2>3 DEF vsphere
<1>8. CASE Drained
  BY <1>8 DEF Drained, Done, vsphere, machines
<1>9. CASE DrainGivenUp
  BY <1>9 DEF DrainGivenUp, Deleting, Without, Fault, vsphere
<1>10. CASE DeleteMachineSet
  <2>1. faults' \in 0..MaxFaults
    BY <1>10 DEF DeleteMachineSet, Fault
  <2>2. /\ pc' \in Step /\ lost' \subseteq {"scale", "drain", "delete", "rest"}
        /\ UNCHANGED <<cur, made, node, imp, runs, vsphere>>
    BY <1>10 DEF DeleteMachineSet, Done, Without
  <2>3. /\ replicas' \in [Suites -> {Absent, 0, 1}]
        /\ live' \in [Suites -> {"none", "new", "running", "ready"}]
        /\ dying' \in [Suites -> {"none", "vm", "node"}] /\ ghost' = ghost
    BY <1>10 DEF DeleteMachineSet, Deleting, machines
  <2> QED
    BY <2>1, <2>2, <2>3 DEF vsphere
<1>11. CASE NewSession
  <2>1. faults' \in 0..MaxFaults
    BY <1>11 DEF NewSession, Fault
  <2>2. pc' \in Step /\ UNCHANGED <<cur, made, node, lost, imp, runs, vsphere, machines>>
    BY <1>11 DEF NewSession, Done
  <2> QED
    BY <2>1, <2>2 DEF vsphere, machines
<1>12. CASE DeleteTemplate
  <2>1. faults' \in 0..MaxFaults
    BY <1>12 DEF DeleteTemplate, Fault
  <2>2. /\ pc' \in Step /\ tasks' \subseteq {"template", "folder"}
        /\ UNCHANGED <<cur, made, node, lost, imp, runs, folder, vm, machines>>
    BY <1>12 DEF DeleteTemplate, Done
  <2> QED
    BY <2>1, <2>2 DEF machines
<1>13. CASE DeleteVMFolder
  <2>1. faults' \in 0..MaxFaults
    BY <1>13 DEF DeleteVMFolder, Fault
  <2>2. /\ pc' \in Step /\ tasks' \subseteq {"template", "folder"}
        /\ UNCHANGED <<cur, made, node, lost, imp, runs, folder, vm, machines>>
    BY <1>13 DEF DeleteVMFolder, Done
  <2> QED
    BY <2>1, <2>2 DEF machines
<1>14. ASSUME NEW s \in Suites, StartSuite(s) PROVE TypeOK'
  <2>1. runs' \in 0..MaxRuns
    BY <1>14 DEF StartSuite
  <2>2. /\ made' \in BOOLEAN /\ lost' \subseteq {"scale", "drain", "delete", "rest"}
        /\ pc' \in Step /\ cur' \in Suites /\ node' \in {"none", "lasting", "leaving"}
    BY <1>14 DEF StartSuite
  <2> QED
    BY <1>14, <2>1, <2>2 DEF StartSuite, vsphere, machines
<1>15. ASSUME NEW s \in Suites, EnsureVMFolder(s) PROVE TypeOK'
  BY <1>15 DEF EnsureVMFolder, ImportGoesOn, runner, machines
<1>16. ASSUME NEW s \in Suites, FindTemplateByName(s) PROVE TypeOK'
  BY <1>16 DEF FindTemplateByName, ImportReturns, ImportGoesOn, runner, vsphere, machines
<1>17. ASSUME NEW s \in Suites, ImportVApp(s) PROVE TypeOK'
  BY <1>17 DEF ImportVApp, ImportReturns, ImportGoesOn, runner, machines
<1>18. ASSUME NEW s \in Suites, LeaseWait(s) PROVE TypeOK'
  BY <1>18 DEF LeaseWait, ImportGoesOn, runner, vsphere, machines
<1>19. ASSUME NEW s \in Suites, UploadAndComplete(s) PROVE TypeOK'
  BY <1>19 DEF UploadAndComplete, ImportGoesOn, runner, machines
<1>20. ASSUME NEW s \in Suites, MarkAsTemplate(s) PROVE TypeOK'
  BY <1>20 DEF MarkAsTemplate, ImportReturns, machines
<1>21. ASSUME NEW s \in Suites, ImportFails(s) PROVE TypeOK'
  <2>1. faults' \in 0..MaxFaults
    BY <1>21 DEF ImportFails, Fault
  <2>2. folder' \in BOOLEAN
    BY <1>21 DEF ImportFails
  <2>3. vm' \in {"none", "importing", "plain", "template"}
    BY <1>21 DEF ImportFails
  <2>4. /\ pc' \in Step /\ imp' \in [Suites -> {"no", "folder", "find", "vapp", "lease", "upload", "mark"}]
        /\ UNCHANGED <<cur, made, node, lost, machines, runs>>
    BY <1>21 DEF ImportFails, ImportReturns
  <2>5. tasks' \subseteq {"template", "folder"}
    BY <1>21 DEF ImportFails
  <2> QED
    BY <2>1, <2>2, <2>3, <2>4, <2>5 DEF machines
<1>22. ASSUME NEW s \in Suites, SyncMachineSet(s) PROVE TypeOK'
  BY <1>22 DEF SyncMachineSet, Deleting, Controlled, runner, vsphere
<1>23. ASSUME NEW s \in Suites, Provision(s) PROVE TypeOK'
  BY <1>23 DEF Provision, Controlled, runner, vsphere
<1>24. ASSUME NEW s \in Suites, NodeReady(s) PROVE TypeOK'
  BY <1>24 DEF NodeReady, Controlled, runner, vsphere
<1>25. ASSUME NEW s \in Suites, MachineGone(s) PROVE TypeOK'
  BY <1>25 DEF MachineGone, Controlled, runner, vsphere
<1>26. CASE MachineSetUpFails
  BY <1>26 DEF MachineSetUpFails, Fault, vsphere
<1>27. CASE BeforeAllFails
  BY <1>27 DEF BeforeAllFails, Fault, vsphere, machines
<1>28. CASE NodeTimeout
  BY <1>28 DEF NodeTimeout, Fault, vsphere, machines
<1>29. CASE CleanupExpires
  BY <1>29 DEF CleanupExpires, Without, Fault, vsphere, machines
<1>30. CASE ProcessEnds
  <2>1. faults' \in 0..MaxFaults
    BY <1>30 DEF ProcessEnds, Fault
  <2>2. /\ pc' \in Step /\ lost' \subseteq {"scale", "drain", "delete", "rest"}
        /\ imp' \in [Suites -> {"no", "folder", "find", "vapp", "lease", "upload", "mark"}]
        /\ UNCHANGED <<cur, made, node, vsphere, machines, runs>>
    BY <1>30 DEF ProcessEnds
  <2> QED
    BY <2>1, <2>2 DEF vsphere, machines
<1>31. CASE LeaseExpires
  BY <1>31 DEF LeaseExpires, runner, machines
<1>32. CASE WaitInVain
  BY <1>32 DEF WaitInVain, vsphere, machines
<1>33. CASE WaitTemplate
  BY <1>33 DEF WaitTemplate, Done, Fault, vsphere, machines
<1>34. CASE WaitFolder
  BY <1>34 DEF WaitFolder, Done, Fault, vsphere, machines
<1>35. ASSUME NEW s \in Suites, NodeGone(s) PROVE TypeOK'
  BY <1>35 DEF NodeGone, Controlled, runner, vsphere
<1>36. CASE TemplateDestroyed
  BY <1>36 DEF TemplateDestroyed, Fault, runner, machines
<1>37. CASE FolderDestroyed
  <2>1. faults' \in 0..MaxFaults
    BY <1>37 DEF FolderDestroyed, Fault
  <2>2. /\ folder' \in BOOLEAN /\ vm' \in {"none", "importing", "plain", "template"}
        /\ tasks' \subseteq {"template", "folder"}
    BY <1>37 DEF FolderDestroyed
  <2> QED
    BY <1>37, <2>1, <2>2 DEF FolderDestroyed, runner, machines
<1> QED
  BY <1>1, <1>2, <1>3, <1>4, <1>5, <1>6, <1>7, <1>8, <1>9, <1>10, <1>11, <1>12, <1>13, <1>14, <1>15, <1>16, <1>17, <1>18, <1>19, <1>20, <1>21, <1>22, <1>23, <1>24, <1>25, <1>26, <1>27, <1>28, <1>29, <1>30, <1>31,
     <1>32, <1>33, <1>34, <1>35, <1>36, <1>37
     DEF Next, Runner, AfterAll, Import, Cluster, VSphere

\* Every step keeps the lease with one import, and the VMs in the folder.
LEMMA ImportStep == IInv /\ Next => ImportInv'
<1> SUFFICES ASSUME TypeOK, ImportInv, Next PROVE ImportInv'
  BY DEF IInv
<1> USE SuiteAssumption, BoundAssumption DEF TypeOK, ImportInv, Leased
<1>1. CASE FindNode
  BY <1>1 DEF FindNode, FindReadyNodeInTopology, Lasting, Leaving, vsphere, machines
<1>2. CASE MachineSetUp
  BY <1>2 DEF MachineSetUp, vsphere
<1>3. CASE WaitForMachineSetMachines
  BY <1>3 DEF WaitForMachineSetMachines, vsphere, machines
<1>4. CASE WaitForReadyNodeInTopology
  BY <1>4 DEF WaitForReadyNodeInTopology, FindReadyNodeInTopology, Lasting, Leaving, vsphere, machines
<1>5. CASE RunSpecs
  BY <1>5 DEF RunSpecs, vsphere, machines
<1>6. CASE NothingMade
  BY <1>6 DEF NothingMade, vsphere, machines
<1>7. CASE ScaleDown
  BY <1>7 DEF ScaleDown, Done, Without, Fault, vsphere
<1>8. CASE Drained
  BY <1>8 DEF Drained, Done, vsphere, machines
<1>9. CASE DrainGivenUp
  BY <1>9 DEF DrainGivenUp, Deleting, Without, Fault, vsphere
<1>10. CASE DeleteMachineSet
  BY <1>10 DEF DeleteMachineSet, Deleting, Done, Without, Fault, vsphere, machines
<1>11. CASE NewSession
  BY <1>11 DEF NewSession, Done, Fault, vsphere, machines
<1>12. CASE DeleteTemplate
  BY <1>12 DEF DeleteTemplate, Done, Fault, machines
<1>13. CASE DeleteVMFolder
  BY <1>13 DEF DeleteVMFolder, Done, Fault, vsphere, machines
<1>14. ASSUME NEW s \in Suites, StartSuite(s) PROVE ImportInv'
  BY <1>14 DEF StartSuite, vsphere, machines
<1>15. ASSUME NEW s \in Suites, EnsureVMFolder(s) PROVE ImportInv'
  BY <1>15 DEF EnsureVMFolder, ImportGoesOn, runner, machines
<1>16. ASSUME NEW s \in Suites, FindTemplateByName(s) PROVE ImportInv'
  BY <1>16 DEF FindTemplateByName, ImportReturns, ImportGoesOn, runner, vsphere, machines
<1>17. ASSUME NEW s \in Suites, ImportVApp(s) PROVE ImportInv'
  BY <1>17 DEF ImportVApp, ImportReturns, ImportGoesOn, runner, machines
<1>18. ASSUME NEW s \in Suites, LeaseWait(s) PROVE ImportInv'
  BY <1>18 DEF LeaseWait, ImportGoesOn, runner, vsphere, machines
<1>19. ASSUME NEW s \in Suites, UploadAndComplete(s) PROVE ImportInv'
  BY <1>19 DEF UploadAndComplete, ImportGoesOn, runner, machines
<1>20. ASSUME NEW s \in Suites, MarkAsTemplate(s) PROVE ImportInv'
  BY <1>20 DEF MarkAsTemplate, ImportReturns, machines
<1>21. ASSUME NEW s \in Suites, ImportFails(s) PROVE ImportInv'
  <2>1. /\ imp' = [imp EXCEPT ![s] = "no"] /\ UNCHANGED <<cur, made>>
        /\ pc' \in {pc, "after"} /\ (pc = "import" /\ cur = s => pc' = "after")
    BY <1>21 DEF ImportFails, ImportReturns
  <2>2. folder => folder'
    BY <1>21 DEF ImportFails
  <2>3. vm' # vm => folder /\ (imp[s] \in {"vapp", "upload", "mark"}) /\ (imp[s] = "vapp" => vm = "none") /\ (imp[s] = "mark" => vm = "plain")
    BY <1>21 DEF ImportFails
  <2>4. \A t \in Suites : imp'[t] \in Leased => t # s /\ imp[t] \in Leased
    BY <2>1
  <2>5. "template" \in tasks' => vm' # "none"
    BY <1>21 DEF ImportFails
  <2>6. "folder" \in tasks' => "folder" \in tasks
    BY <1>21 DEF ImportFails
  <2> QED
    BY <2>1, <2>2, <2>3, <2>4, <2>5, <2>6
<1>22. ASSUME NEW s \in Suites, SyncMachineSet(s) PROVE ImportInv'
  BY <1>22 DEF SyncMachineSet, Deleting, Controlled, runner, vsphere
<1>23. ASSUME NEW s \in Suites, Provision(s) PROVE ImportInv'
  BY <1>23 DEF Provision, Controlled, runner, vsphere
<1>24. ASSUME NEW s \in Suites, NodeReady(s) PROVE ImportInv'
  BY <1>24 DEF NodeReady, Controlled, runner, vsphere
<1>25. ASSUME NEW s \in Suites, MachineGone(s) PROVE ImportInv'
  BY <1>25 DEF MachineGone, Controlled, runner, vsphere
<1>26. CASE MachineSetUpFails
  BY <1>26 DEF MachineSetUpFails, Fault, vsphere
<1>27. CASE BeforeAllFails
  BY <1>27 DEF BeforeAllFails, Fault, vsphere, machines
<1>28. CASE NodeTimeout
  BY <1>28 DEF NodeTimeout, Fault, vsphere, machines
<1>29. CASE CleanupExpires
  BY <1>29 DEF CleanupExpires, Without, Fault, vsphere, machines
<1>30. CASE ProcessEnds
  BY <1>30 DEF ProcessEnds, Fault, vsphere, machines
<1>31. CASE LeaseExpires
  BY <1>31 DEF LeaseExpires, runner, machines
<1>32. CASE WaitInVain
  BY <1>32 DEF WaitInVain, vsphere, machines
<1>33. CASE WaitTemplate
  BY <1>33 DEF WaitTemplate, Done, Fault, vsphere, machines
<1>34. CASE WaitFolder
  BY <1>34 DEF WaitFolder, Done, Fault, vsphere, machines
<1>35. ASSUME NEW s \in Suites, NodeGone(s) PROVE ImportInv'
  BY <1>35 DEF NodeGone, Controlled, runner, vsphere
<1>36. CASE TemplateDestroyed
  BY <1>36 DEF TemplateDestroyed, Fault, runner, machines
<1>37. CASE FolderDestroyed
  <2>1. CASE folder' = FALSE /\ vm # "importing" /\ vm' = "none" /\ tasks' = {}
    BY <1>37, <2>1 DEF FolderDestroyed, runner, machines
  <2>2. CASE tasks' = tasks \ {"folder"} /\ UNCHANGED <<folder, vm>>
    BY <1>37, <2>2 DEF FolderDestroyed, runner, machines
  <2> QED
    BY <1>37, <2>1, <2>2 DEF FolderDestroyed
<1> QED
  BY <1>1, <1>2, <1>3, <1>4, <1>5, <1>6, <1>7, <1>8, <1>9, <1>10, <1>11, <1>12, <1>13, <1>14, <1>15, <1>16, <1>17, <1>18, <1>19, <1>20, <1>21, <1>22, <1>23, <1>24, <1>25, <1>26, <1>27, <1>28, <1>29, <1>30, <1>31,
     <1>32, <1>33, <1>34, <1>35, <1>36, <1>37
     DEF Next, Runner, AfterAll, Import, Cluster, VSphere

\* No step but the end of a destroy task takes the template or the folder from a suite
\* that needs them: an import that is left over has the lease, and then there is no
\* template, or it fails.
TemplateKept ==
    Needed' => \/ Cloneable'
               \/ Needed /\ ~Cloneable
               \/ Needed /\ tasks' # tasks /\ faults > 0
LEMMA TemplateStep == IInv /\ Next => TemplateKept
<1> SUFFICES ASSUME TypeOK, ImportInv, NoFault, Next PROVE TemplateKept
  BY DEF IInv
<1> USE SuiteAssumption, BoundAssumption DEF TypeOK, ImportInv, Leased, TemplateKept, Needed, Cloneable
<1>1. CASE FindNode
  BY <1>1 DEF FindNode, FindReadyNodeInTopology, Lasting, Leaving, vsphere, machines
<1>2. CASE MachineSetUp
  BY <1>2 DEF MachineSetUp, vsphere
<1>3. CASE WaitForMachineSetMachines
  BY <1>3 DEF WaitForMachineSetMachines, vsphere, machines
<1>4. CASE WaitForReadyNodeInTopology
  BY <1>4 DEF WaitForReadyNodeInTopology, FindReadyNodeInTopology, Lasting, Leaving, vsphere, machines
<1>5. CASE RunSpecs
  BY <1>5 DEF RunSpecs, vsphere, machines
<1>6. CASE NothingMade
  BY <1>6 DEF NothingMade, vsphere, machines
<1>7. CASE ScaleDown
  BY <1>7 DEF ScaleDown, Done, Without, Fault, vsphere
<1>8. CASE Drained
  BY <1>8 DEF Drained, Done, vsphere, machines
<1>9. CASE DrainGivenUp
  BY <1>9 DEF DrainGivenUp, Deleting, Without, Fault, vsphere
<1>10. CASE DeleteMachineSet
  BY <1>10 DEF DeleteMachineSet, Deleting, Done, Without, Fault, vsphere, machines
<1>11. CASE NewSession
  BY <1>11 DEF NewSession, Done, Fault, vsphere, machines
<1>12. CASE DeleteTemplate
  BY <1>12 DEF DeleteTemplate, Done, Fault, machines
<1>13. CASE DeleteVMFolder
  BY <1>13 DEF DeleteVMFolder, Done, Fault, vsphere, machines
<1>14. ASSUME NEW s \in Suites, StartSuite(s) PROVE TemplateKept
  BY <1>14 DEF StartSuite, vsphere, machines
<1>15. ASSUME NEW s \in Suites, EnsureVMFolder(s) PROVE TemplateKept
  BY <1>15 DEF EnsureVMFolder, ImportGoesOn, runner, machines
<1>16. ASSUME NEW s \in Suites, FindTemplateByName(s) PROVE TemplateKept
  BY <1>16 DEF FindTemplateByName, ImportReturns, ImportGoesOn, runner, vsphere, machines
<1>17. ASSUME NEW s \in Suites, ImportVApp(s) PROVE TemplateKept
  BY <1>17 DEF ImportVApp, ImportReturns, ImportGoesOn, runner, machines
<1>18. ASSUME NEW s \in Suites, LeaseWait(s) PROVE TemplateKept
  BY <1>18 DEF LeaseWait, ImportGoesOn, runner, vsphere, machines
<1>19. ASSUME NEW s \in Suites, UploadAndComplete(s) PROVE TemplateKept
  BY <1>19 DEF UploadAndComplete, ImportGoesOn, runner, machines
<1>20. ASSUME NEW s \in Suites, MarkAsTemplate(s) PROVE TemplateKept
  BY <1>20 DEF MarkAsTemplate, ImportReturns, machines
<1>21. ASSUME NEW s \in Suites, ImportFails(s) PROVE TemplateKept
  BY <1>21 DEF ImportFails, ImportReturns, Fault, machines
<1>22. ASSUME NEW s \in Suites, SyncMachineSet(s) PROVE TemplateKept
  BY <1>22 DEF SyncMachineSet, Deleting, Controlled, runner, vsphere
<1>23. ASSUME NEW s \in Suites, Provision(s) PROVE TemplateKept
  BY <1>23 DEF Provision, Controlled, runner, vsphere
<1>24. ASSUME NEW s \in Suites, NodeReady(s) PROVE TemplateKept
  BY <1>24 DEF NodeReady, Controlled, runner, vsphere
<1>25. ASSUME NEW s \in Suites, MachineGone(s) PROVE TemplateKept
  BY <1>25 DEF MachineGone, Controlled, runner, vsphere
<1>26. CASE MachineSetUpFails
  BY <1>26 DEF MachineSetUpFails, Fault, vsphere
<1>27. CASE BeforeAllFails
  BY <1>27 DEF BeforeAllFails, Fault, vsphere, machines
<1>28. CASE NodeTimeout
  BY <1>28 DEF NodeTimeout, Fault, vsphere, machines
<1>29. CASE CleanupExpires
  BY <1>29 DEF CleanupExpires, Without, Fault, vsphere, machines
<1>30. CASE ProcessEnds
  BY <1>30 DEF ProcessEnds, Fault, vsphere, machines
<1>31. CASE LeaseExpires
  BY <1>31 DEF LeaseExpires, runner, machines
<1>32. CASE WaitInVain
  BY <1>32 DEF WaitInVain, vsphere, machines
<1>33. CASE WaitTemplate
  BY <1>33 DEF WaitTemplate, Done, Fault, vsphere, machines
<1>34. CASE WaitFolder
  BY <1>34 DEF WaitFolder, Done, Fault, vsphere, machines
<1>35. ASSUME NEW s \in Suites, NodeGone(s) PROVE TemplateKept
  BY <1>35 DEF NodeGone, Controlled, runner, vsphere
<1>36. CASE TemplateDestroyed
  <2>1. UNCHANGED runner /\ tasks' # tasks
    BY <1>36 DEF TemplateDestroyed
  <2>2. faults = 0 => ~Needed
    BY <1>36 DEF TemplateDestroyed, NoFault
  <2> QED
    BY <2>1, <2>2 DEF runner
<1>37. CASE FolderDestroyed
  <2>1. UNCHANGED runner /\ tasks' # tasks
    BY <1>37 DEF FolderDestroyed
  <2>2. faults = 0 => ~Needed
    BY <1>37 DEF FolderDestroyed, NoFault
  <2> QED
    BY <2>1, <2>2 DEF runner
<1> QED
  BY <1>1, <1>2, <1>3, <1>4, <1>5, <1>6, <1>7, <1>8, <1>9, <1>10, <1>11, <1>12, <1>13, <1>14, <1>15, <1>16, <1>17, <1>18, <1>19, <1>20, <1>21, <1>22, <1>23, <1>24, <1>25, <1>26, <1>27, <1>28, <1>29, <1>30, <1>31,
     <1>32, <1>33, <1>34, <1>35, <1>36, <1>37
     DEF Next, Runner, AfterAll, Import, Cluster, VSphere

\* No step deletes a Machine or a lasting Node under the specs.
LEMMA NodeStep == IInv /\ Next => OwnMachine' /\ SpecsHaveNode'
<1> SUFFICES ASSUME TypeOK, ImportInv, OwnMachine, NoFault, SpecsHaveNode, Next
             PROVE  OwnMachine' /\ SpecsHaveNode'
  BY DEF IInv
<1> USE SuiteAssumption, BoundAssumption
    DEF TypeOK, ImportInv, OwnMachine, NoFault, Resting, Found, Provisioning, NoMachine, SpecsHaveNode, Lasting
<1>1. CASE FindNode
  BY <1>1 DEF FindNode, FindReadyNodeInTopology, Lasting, Leaving, vsphere, machines
<1>2. CASE MachineSetUp
  BY <1>2 DEF MachineSetUp, vsphere
<1>3. CASE WaitForMachineSetMachines
  BY <1>3 DEF WaitForMachineSetMachines, vsphere, machines
<1>4. CASE WaitForReadyNodeInTopology
  BY <1>4 DEF WaitForReadyNodeInTopology, FindReadyNodeInTopology, Lasting, Leaving, vsphere, machines
<1>5. CASE RunSpecs
  BY <1>5 DEF RunSpecs, vsphere, machines
<1>6. CASE NothingMade
  BY <1>6 DEF NothingMade, vsphere, machines
<1>7. CASE ScaleDown
  BY <1>7 DEF ScaleDown, Done, Without, Fault, vsphere
<1>8. CASE Drained
  BY <1>8 DEF Drained, Done, vsphere, machines
<1>9. CASE DrainGivenUp
  BY <1>9 DEF DrainGivenUp, Deleting, Without, Fault, vsphere
<1>10. CASE DeleteMachineSet
  BY <1>10 DEF DeleteMachineSet, Deleting, Done, Without, Fault, vsphere, machines
<1>11. CASE NewSession
  BY <1>11 DEF NewSession, Done, Fault, vsphere, machines
<1>12. CASE DeleteTemplate
  BY <1>12 DEF DeleteTemplate, Done, Fault, machines
<1>13. CASE DeleteVMFolder
  BY <1>13 DEF DeleteVMFolder, Done, Fault, vsphere, machines
<1>14. ASSUME NEW s \in Suites, StartSuite(s) PROVE OwnMachine' /\ SpecsHaveNode'
  BY <1>14 DEF StartSuite, vsphere, machines
<1>15. ASSUME NEW s \in Suites, EnsureVMFolder(s) PROVE OwnMachine' /\ SpecsHaveNode'
  BY <1>15 DEF EnsureVMFolder, ImportGoesOn, runner, machines
<1>16. ASSUME NEW s \in Suites, FindTemplateByName(s) PROVE OwnMachine' /\ SpecsHaveNode'
  BY <1>16 DEF FindTemplateByName, ImportReturns, ImportGoesOn, runner, vsphere, machines
<1>17. ASSUME NEW s \in Suites, ImportVApp(s) PROVE OwnMachine' /\ SpecsHaveNode'
  BY <1>17 DEF ImportVApp, ImportReturns, ImportGoesOn, runner, machines
<1>18. ASSUME NEW s \in Suites, LeaseWait(s) PROVE OwnMachine' /\ SpecsHaveNode'
  BY <1>18 DEF LeaseWait, ImportGoesOn, runner, vsphere, machines
<1>19. ASSUME NEW s \in Suites, UploadAndComplete(s) PROVE OwnMachine' /\ SpecsHaveNode'
  BY <1>19 DEF UploadAndComplete, ImportGoesOn, runner, machines
<1>20. ASSUME NEW s \in Suites, MarkAsTemplate(s) PROVE OwnMachine' /\ SpecsHaveNode'
  BY <1>20 DEF MarkAsTemplate, ImportReturns, machines
<1>21. ASSUME NEW s \in Suites, ImportFails(s) PROVE OwnMachine' /\ SpecsHaveNode'
  BY <1>21 DEF ImportFails, ImportReturns, Fault, machines
<1>22. ASSUME NEW s \in Suites, SyncMachineSet(s) PROVE OwnMachine' /\ SpecsHaveNode'
  BY <1>22 DEF SyncMachineSet, Deleting, Controlled, runner, vsphere
<1>23. ASSUME NEW s \in Suites, Provision(s) PROVE OwnMachine' /\ SpecsHaveNode'
  BY <1>23 DEF Provision, Controlled, runner, vsphere
<1>24. ASSUME NEW s \in Suites, NodeReady(s) PROVE OwnMachine' /\ SpecsHaveNode'
  BY <1>24 DEF NodeReady, Controlled, runner, vsphere
<1>25. ASSUME NEW s \in Suites, MachineGone(s) PROVE OwnMachine' /\ SpecsHaveNode'
  BY <1>25 DEF MachineGone, Controlled, runner, vsphere
<1>26. CASE MachineSetUpFails
  BY <1>26 DEF MachineSetUpFails, Fault, vsphere
<1>27. CASE BeforeAllFails
  BY <1>27 DEF BeforeAllFails, Fault, vsphere, machines
<1>28. CASE NodeTimeout
  BY <1>28 DEF NodeTimeout, Fault, vsphere, machines
<1>29. CASE CleanupExpires
  BY <1>29 DEF CleanupExpires, Without, Fault, vsphere, machines
<1>30. CASE ProcessEnds
  BY <1>30 DEF ProcessEnds, Fault, vsphere, machines
<1>31. CASE LeaseExpires
  BY <1>31 DEF LeaseExpires, runner, machines
<1>32. CASE WaitInVain
  BY <1>32 DEF WaitInVain, vsphere, machines
<1>33. CASE WaitTemplate
  BY <1>33 DEF WaitTemplate, Done, Fault, vsphere, machines
<1>34. CASE WaitFolder
  BY <1>34 DEF WaitFolder, Done, Fault, vsphere, machines
<1>35. ASSUME NEW s \in Suites, NodeGone(s) PROVE OwnMachine' /\ SpecsHaveNode'
  BY <1>35 DEF NodeGone, Controlled, runner, vsphere
<1>36. CASE TemplateDestroyed
  BY <1>36 DEF TemplateDestroyed, Fault, runner, machines
<1>37. CASE FolderDestroyed
  <2>1. UNCHANGED <<runner, machines>>
    BY <1>37 DEF FolderDestroyed
  <2>2. faults' = faults \/ faults' = faults + 1
    BY <1>37 DEF FolderDestroyed, Fault
  <2>3. faults > 0 => faults' > 0
    BY <2>2
  <2> QED
    BY <2>1, <2>3 DEF runner, machines
<1> QED
  BY <1>1, <1>2, <1>3, <1>4, <1>5, <1>6, <1>7, <1>8, <1>9, <1>10, <1>11, <1>12, <1>13, <1>14, <1>15, <1>16, <1>17, <1>18, <1>19, <1>20, <1>21, <1>22, <1>23, <1>24, <1>25, <1>26, <1>27, <1>28, <1>29, <1>30, <1>31,
     <1>32, <1>33, <1>34, <1>35, <1>36, <1>37
     DEF Next, Runner, AfterAll, Import, Cluster, VSphere

\* Without a fault every step finds what the one before has left.
LEMMA NoFaultStep == IInv /\ Next => NoFault'
<1> SUFFICES ASSUME TypeOK, ImportInv, OwnMachine, NoFault, Next PROVE NoFault'
  BY DEF IInv
<1> USE SuiteAssumption, BoundAssumption DEF TypeOK, ImportInv, Leased, OwnMachine, NoFault, Resting, Found, Provisioning, NoMachine, Absent
<1>1. CASE FindNode
  BY <1>1 DEF FindNode, FindReadyNodeInTopology, Lasting, Leaving, vsphere, machines
<1>2. CASE MachineSetUp
  BY <1>2 DEF MachineSetUp, vsphere
<1>3. CASE WaitForMachineSetMachines
  BY <1>3 DEF WaitForMachineSetMachines, vsphere, machines
<1>4. CASE WaitForReadyNodeInTopology
  BY <1>4 DEF WaitForReadyNodeInTopology, FindReadyNodeInTopology, Lasting, Leaving, vsphere, machines
<1>5. CASE RunSpecs
  BY <1>5 DEF RunSpecs, vsphere, machines
<1>6. CASE NothingMade
  BY <1>6 DEF NothingMade, vsphere, machines
<1>7. CASE ScaleDown
  <2>1. SUFFICES ASSUME faults' = 0 PROVE NoFault'
    OBVIOUS
  <2>2. faults = 0 /\ pc = "after" /\ replicas[cur] = 1
    BY <1>7, <2>1 DEF ScaleDown, Fault
  <2>3. ~Fault
    BY <2>1 DEF Fault
  <2>4. /\ pc' = "drain"
        /\ UNCHANGED <<cur, made, lost, imp, folder, vm, tasks, live, dying, ghost, faults>>
    BY <1>7, <2>3 DEF ScaleDown, Done, vsphere
  <2>5. replicas' = [replicas EXCEPT ![cur] = 0]
    <3>1. replicas' = [replicas EXCEPT ![cur] = IF replicas[cur] = Absent THEN Absent ELSE 0]
      BY <1>7, <2>3 DEF ScaleDown
    <3> QED
      BY <3>1, <2>2
  <2> QED
    BY <2>2, <2>4, <2>5
<1>8. CASE Drained
  BY <1>8 DEF Drained, Done, vsphere, machines
<1>9. CASE DrainGivenUp
  BY <1>9 DEF DrainGivenUp, Deleting, Without, Fault, vsphere
<1>10. CASE DeleteMachineSet
  <2>1. SUFFICES ASSUME faults' = 0 PROVE NoFault'
    OBVIOUS
  <2>2. faults = 0
    BY <1>10, <2>1 DEF DeleteMachineSet, Fault
  <2>3. ~Fault
    BY <2>1 DEF Fault
  <2>4. /\ replicas' = [replicas EXCEPT ![cur] = Absent] /\ pc' = "session" /\ pc = "delset"
        /\ live' = live /\ dying' = dying
        /\ UNCHANGED <<cur, made, lost, imp, folder, vm, tasks, ghost, faults>>
    BY <1>10, <2>2, <2>3 DEF DeleteMachineSet, Deleting, Done, vsphere
  <2> QED
    BY <2>2, <2>4
<1>11. CASE NewSession
  <2>1. SUFFICES ASSUME faults' = 0 PROVE NoFault'
    OBVIOUS
  <2>2. faults = 0
    BY <1>11, <2>1 DEF NewSession, Fault
  <2>3. ~Fault
    BY <2>1 DEF Fault
  <2>4. /\ pc = "session" /\ pc' = "deltemplate"
        /\ UNCHANGED <<cur, made, lost, imp, folder, vm, tasks, replicas, live, dying, ghost>>
    BY <1>11, <2>3 DEF NewSession, Done, vsphere, machines
  <2> QED
    BY <2>2, <2>4
<1>12. CASE DeleteTemplate
  <2>1. SUFFICES ASSUME faults' = 0 PROVE NoFault'
    OBVIOUS
  <2>2. ~Fault
    BY <2>1 DEF Fault
  <2>3. faults = 0 /\ pc = "deltemplate" /\ vm = "template"
    BY <1>12, <2>1, <2>2 DEF DeleteTemplate
  <2>4. /\ pc' = "waittemplate" /\ tasks' = tasks \union {"template"}
        /\ UNCHANGED <<cur, made, lost, imp, folder, vm, replicas, live, dying, ghost>>
    BY <1>12, <2>2, <2>3 DEF DeleteTemplate, Done, machines
  <2> QED
    BY <2>3, <2>4
<1>13. CASE DeleteVMFolder
  <2>1. SUFFICES ASSUME faults' = 0 PROVE NoFault'
    OBVIOUS
  <2>2. ~Fault
    BY <2>1 DEF Fault
  <2>3. faults = 0 /\ pc = "delfolder" /\ folder /\ vm = "none"
    BY <1>13, <2>1, <2>2 DEF DeleteVMFolder
  <2>4. /\ pc' = "waitfolder" /\ tasks' = tasks \union {"folder"}
        /\ UNCHANGED <<cur, made, lost, imp, folder, vm, replicas, live, dying, ghost>>
    BY <1>13, <2>2, <2>3 DEF DeleteVMFolder, Done, machines
  <2> QED
    BY <2>3, <2>4
<1>14. ASSUME NEW s \in Suites, StartSuite(s) PROVE NoFault'
  BY <1>14 DEF StartSuite, vsphere, machines
<1>15. ASSUME NEW s \in Suites, EnsureVMFolder(s) PROVE NoFault'
  BY <1>15 DEF EnsureVMFolder, ImportGoesOn, runner, machines
<1>16. ASSUME NEW s \in Suites, FindTemplateByName(s) PROVE NoFault'
  <2>1. CASE faults # 0
    BY <1>16, <2>1 DEF FindTemplateByName
  <2>2. CASE faults = 0
    <3>1. s = cur /\ pc = "import"
      BY <1>16, <2>2 DEF FindTemplateByName
    <3>2. /\ imp' = [imp EXCEPT ![cur] = "vapp"] /\ folder /\ vm = "none"
          /\ UNCHANGED <<pc, cur, made, lost, folder, vm, tasks, replicas, live, dying, ghost, faults>>
      BY <1>16, <2>2, <3>1 DEF FindTemplateByName, ImportGoesOn, runner, vsphere, machines
    <3> QED
      BY <2>2, <3>1, <3>2
  <2> QED
    BY <2>1, <2>2
<1>17. ASSUME NEW s \in Suites, ImportVApp(s) PROVE NoFault'
  <2>1. CASE faults # 0
    BY <1>17, <2>1 DEF ImportVApp
  <2>2. CASE faults = 0
    <3>1. s = cur /\ pc = "import"
      BY <1>17, <2>2 DEF ImportVApp
    <3>2. /\ imp' = [imp EXCEPT ![cur] = "lease"] /\ folder' /\ vm' = "importing"
          /\ UNCHANGED <<pc, cur, made, lost, tasks, replicas, live, dying, ghost, faults>>
      BY <1>17, <2>2, <3>1 DEF ImportVApp, ImportGoesOn, runner, machines
    <3> QED
      BY <2>2, <3>1, <3>2
  <2> QED
    BY <2>1, <2>2
<1>18. ASSUME NEW s \in Suites, LeaseWait(s) PROVE NoFault'
  BY <1>18 DEF LeaseWait, ImportGoesOn, runner, vsphere, machines
<1>19. ASSUME NEW s \in Suites, UploadAndComplete(s) PROVE NoFault'
  BY <1>19 DEF UploadAndComplete, ImportGoesOn, runner, machines
<1>20. ASSUME NEW s \in Suites, MarkAsTemplate(s) PROVE NoFault'
  <2>1. CASE faults # 0
    BY <1>20, <2>1 DEF MarkAsTemplate
  <2>2. CASE faults = 0
    <3>1. s = cur /\ pc = "import"
      BY <1>20, <2>2 DEF MarkAsTemplate
    <3>2. /\ imp' = [imp EXCEPT ![cur] = "no"] /\ vm' = "template" /\ pc' = "getset"
          /\ UNCHANGED <<cur, made, lost, folder, tasks, replicas, live, dying, ghost, faults>>
      BY <1>20, <2>2, <3>1 DEF MarkAsTemplate, ImportReturns, machines
    <3> QED
      BY <2>2, <3>1, <3>2
  <2> QED
    BY <2>1, <2>2
<1>21. ASSUME NEW s \in Suites, ImportFails(s) PROVE NoFault'
  BY <1>21 DEF ImportFails, ImportReturns, Fault, machines
<1>22. ASSUME NEW s \in Suites, SyncMachineSet(s) PROVE NoFault'
  BY <1>22 DEF SyncMachineSet, Deleting, Controlled, runner, vsphere
<1>23. ASSUME NEW s \in Suites, Provision(s) PROVE NoFault'
  BY <1>23 DEF Provision, Controlled, runner, vsphere
<1>24. ASSUME NEW s \in Suites, NodeReady(s) PROVE NoFault'
  BY <1>24 DEF NodeReady, Controlled, runner, vsphere
<1>25. ASSUME NEW s \in Suites, MachineGone(s) PROVE NoFault'
  BY <1>25 DEF MachineGone, Controlled, runner, vsphere
<1>26. CASE MachineSetUpFails
  BY <1>26 DEF MachineSetUpFails, Fault, vsphere
<1>27. CASE BeforeAllFails
  BY <1>27 DEF BeforeAllFails, Fault, vsphere, machines
<1>28. CASE NodeTimeout
  BY <1>28 DEF NodeTimeout, Fault, vsphere, machines
<1>29. CASE CleanupExpires
  BY <1>29 DEF CleanupExpires, Without, Fault, vsphere, machines
<1>30. CASE ProcessEnds
  BY <1>30 DEF ProcessEnds, Fault, vsphere, machines
<1>31. CASE LeaseExpires
  BY <1>31 DEF LeaseExpires, runner, machines
<1>32. CASE WaitInVain
  BY <1>32 DEF WaitInVain, vsphere, machines
<1>33. CASE WaitTemplate
  BY <1>33 DEF WaitTemplate, Done, Fault, vsphere, machines
<1>34. CASE WaitFolder
  BY <1>34 DEF WaitFolder, Done, Fault, vsphere, machines
<1>35. ASSUME NEW s \in Suites, NodeGone(s) PROVE NoFault'
  BY <1>35 DEF NodeGone, Controlled, runner, vsphere
<1>36. CASE TemplateDestroyed
  BY <1>36 DEF TemplateDestroyed, Fault, runner, machines
<1>37. CASE FolderDestroyed
  <2>1. SUFFICES ASSUME faults' = 0 PROVE NoFault'
    OBVIOUS
  <2>2. ~Fault
    BY <2>1 DEF Fault
  <2>3. faults = 0 /\ pc = "waitfolder" /\ vm = "none" /\ \A s \in Suites : NoMachine(s)
    BY <1>37, <2>1, <2>2 DEF FolderDestroyed
  <2>4. folder' = FALSE /\ vm' = "none" /\ tasks' = {}
    BY <1>37, <2>2, <2>3 DEF FolderDestroyed
  <2>5. UNCHANGED <<pc, cur, made, lost, imp, replicas, live, dying, ghost>>
    BY <1>37 DEF FolderDestroyed, runner, machines
  <2> QED
    BY <2>3, <2>4, <2>5
<1> QED
  BY <1>1, <1>2, <1>3, <1>4, <1>5, <1>6, <1>7, <1>8, <1>9, <1>10, <1>11, <1>12, <1>13, <1>14, <1>15, <1>16, <1>17, <1>18, <1>19, <1>20, <1>21, <1>22, <1>23, <1>24, <1>25, <1>26, <1>27, <1>28, <1>29, <1>30, <1>31,
     <1>32, <1>33, <1>34, <1>35, <1>36, <1>37
     DEF Next, Runner, AfterAll, Import, Cluster, VSphere

\* Once the MachineSet is scaled down and drained no step makes a Machine for it.
LEMMA DrainStep == IInv /\ Next => DrainInv'
<1> SUFFICES ASSUME TypeOK, ImportInv, DrainInv, Next PROVE DrainInv'
  BY DEF IInv
<1> USE SuiteAssumption, BoundAssumption DEF TypeOK, ImportInv, NoMachine, Emptied, DrainInv, Absent
<1>1. CASE FindNode
  BY <1>1 DEF FindNode, FindReadyNodeInTopology, Lasting, Leaving, vsphere, machines
<1>2. CASE MachineSetUp
  BY <1>2 DEF MachineSetUp, vsphere
<1>3. CASE WaitForMachineSetMachines
  BY <1>3 DEF WaitForMachineSetMachines, vsphere, machines
<1>4. CASE WaitForReadyNodeInTopology
  BY <1>4 DEF WaitForReadyNodeInTopology, FindReadyNodeInTopology, Lasting, Leaving, vsphere, machines
<1>5. CASE RunSpecs
  BY <1>5 DEF RunSpecs, vsphere, machines
<1>6. CASE NothingMade
  BY <1>6 DEF NothingMade, vsphere, machines
<1>7. CASE ScaleDown
  <2>1. pc' = "drain" /\ cur' = cur
    BY <1>7 DEF ScaleDown, Done, Without
  <2>2. CASE Without("scale", "drain")
    BY <2>1, <2>2 DEF Without
  <2>3. CASE replicas' = [replicas EXCEPT ![cur] = IF replicas[cur] = Absent THEN Absent ELSE 0]
    BY <2>1, <2>3
  <2> QED
    BY <1>7, <2>2, <2>3 DEF ScaleDown
<1>8. CASE Drained
  BY <1>8 DEF Drained, Done, vsphere, machines
<1>9. CASE DrainGivenUp
  BY <1>9 DEF DrainGivenUp, Deleting, Without, Fault, vsphere
<1>10. CASE DeleteMachineSet
  BY <1>10 DEF DeleteMachineSet, Deleting, Done, Without, Fault, vsphere, machines
<1>11. CASE NewSession
  BY <1>11 DEF NewSession, Done, Fault, vsphere, machines
<1>12. CASE DeleteTemplate
  BY <1>12 DEF DeleteTemplate, Done, Fault, machines
<1>13. CASE DeleteVMFolder
  BY <1>13 DEF DeleteVMFolder, Done, Fault, vsphere, machines
<1>14. ASSUME NEW s \in Suites, StartSuite(s) PROVE DrainInv'
  BY <1>14 DEF StartSuite, vsphere, machines
<1>15. ASSUME NEW s \in Suites, EnsureVMFolder(s) PROVE DrainInv'
  BY <1>15 DEF EnsureVMFolder, ImportGoesOn, runner, machines
<1>16. ASSUME NEW s \in Suites, FindTemplateByName(s) PROVE DrainInv'
  BY <1>16 DEF FindTemplateByName, ImportReturns, ImportGoesOn, runner, vsphere, machines
<1>17. ASSUME NEW s \in Suites, ImportVApp(s) PROVE DrainInv'
  BY <1>17 DEF ImportVApp, ImportReturns, ImportGoesOn, runner, machines
<1>18. ASSUME NEW s \in Suites, LeaseWait(s) PROVE DrainInv'
  BY <1>18 DEF LeaseWait, ImportGoesOn, runner, vsphere, machines
<1>19. ASSUME NEW s \in Suites, UploadAndComplete(s) PROVE DrainInv'
  BY <1>19 DEF UploadAndComplete, ImportGoesOn, runner, machines
<1>20. ASSUME NEW s \in Suites, MarkAsTemplate(s) PROVE DrainInv'
  BY <1>20 DEF MarkAsTemplate, ImportReturns, machines
<1>21. ASSUME NEW s \in Suites, ImportFails(s) PROVE DrainInv'
  BY <1>21 DEF ImportFails, ImportReturns, Fault, machines
<1>22. ASSUME NEW s \in Suites, SyncMachineSet(s) PROVE DrainInv'
  BY <1>22 DEF SyncMachineSet, Deleting, Controlled, runner, vsphere
<1>23. ASSUME NEW s \in Suites, Provision(s) PROVE DrainInv'
  BY <1>23 DEF Provision, Controlled, runner, vsphere
<1>24. ASSUME NEW s \in Suites, NodeReady(s) PROVE DrainInv'
  BY <1>24 DEF NodeReady, Controlled, runner, vsphere
<1>25. ASSUME NEW s \in Suites, MachineGone(s) PROVE DrainInv'
  BY <1>25 DEF MachineGone, Controlled, runner, vsphere
<1>26. CASE MachineSetUpFails
  BY <1>26 DEF MachineSetUpFails, Fault, vsphere
<1>27. CASE BeforeAllFails
  BY <1>27 DEF BeforeAllFails, Fault, vsphere, machines
<1>28. CASE NodeTimeout
  BY <1>28 DEF NodeTimeout, Fault, vsphere, machines
<1>29. CASE CleanupExpires
  BY <1>29 DEF CleanupExpires, Without, Fault, vsphere, machines
<1>30. CASE ProcessEnds
  BY <1>30 DEF ProcessEnds, Fault, vsphere, machines
<1>31. CASE LeaseExpires
  BY <1>31 DEF LeaseExpires, runner, machines
<1>32. CASE WaitInVain
  BY <1>32 DEF WaitInVain, vsphere, machines
<1>33. CASE WaitTemplate
  BY <1>33 DEF WaitTemplate, Done, Fault, vsphere, machines
<1>34. CASE WaitFolder
  BY <1>34 DEF WaitFolder, Done, Fault, vsphere, machines
<1>35. ASSUME NEW s \in Suites, NodeGone(s) PROVE DrainInv'
  BY <1>35 DEF NodeGone, Controlled, runner, vsphere
<1>36. CASE TemplateDestroyed
  BY <1>36 DEF TemplateDestroyed, Fault, runner, machines
<1>37. CASE FolderDestroyed
  BY <1>37 DEF FolderDestroyed, Fault, runner, machines
<1> QED
  BY <1>1, <1>2, <1>3, <1>4, <1>5, <1>6, <1>7, <1>8, <1>9, <1>10, <1>11, <1>12, <1>13, <1>14, <1>15, <1>16, <1>17, <1>18, <1>19, <1>20, <1>21, <1>22, <1>23, <1>24, <1>25, <1>26, <1>27, <1>28, <1>29, <1>30, <1>31,
     <1>32, <1>33, <1>34, <1>35, <1>36, <1>37
     DEF Next, Runner, AfterAll, Import, Cluster, VSphere

\* What each step of FDNodeSuites finds and leaves, of which the properties below are parts.
THEOREM InductiveInvariant == Spec => []IInv
<1>1. Init => IInv
  <2> SUFFICES ASSUME Init PROVE IInv
    OBVIOUS
  <2>1. TypeOK
    <3>1. /\ imp \in [Suites -> {"no", "folder", "find", "vapp", "lease", "upload", "mark"}]
          /\ replicas \in [Suites -> {Absent, 0, 1}]
          /\ live \in [Suites -> {"none", "new", "running", "ready"}]
          /\ dying \in [Suites -> {"none", "vm", "node"}]
          /\ ghost \in [Suites -> BOOLEAN]
      BY DEF Init
    <3>2. runs \in 0..MaxRuns /\ faults \in 0..MaxFaults
      BY BoundAssumption DEF Init
    <3>3. made \in BOOLEAN /\ folder \in BOOLEAN /\ lost \subseteq {"scale", "drain", "delete", "rest"}
          /\ tasks \subseteq {"template", "folder"}
      BY DEF Init
    <3> QED
      BY <3>1, <3>2, <3>3 DEF Init, TypeOK, Step
  <2>2. ImportInv /\ OwnMachine /\ SpecsHaveNode
    BY DEF Init, ImportInv, Leased, OwnMachine, SpecsHaveNode
  <2>3. NoFault
    BY DEF Init, NoFault, Resting, Found, Provisioning, NoMachine
  <2>4. DrainInv
    BY DEF Init, DrainInv, Emptied
  <2> QED
    BY <2>1, <2>2, <2>3, <2>4 DEF IInv
<1>2. IInv /\ [Next]_vars => IInv'
  <2>1. CASE Next
    BY <2>1, TypeStep, ImportStep, NodeStep, NoFaultStep, DrainStep DEF IInv
  <2>2. CASE UNCHANGED vars
    BY <2>2 DEF vars, runner, vsphere, machines, IInv, TypeOK, Step, ImportInv, Leased, OwnMachine, NoFault, Resting,
                Found, Provisioning, NoMachine, SpecsHaveNode, Lasting, DrainInv, Emptied
  <2> QED
    BY <2>1, <2>2
<1> QED
  BY <1>1, <1>2, PTL DEF Spec

\* A run in which nothing failed leaves nothing behind.
THEOREM NothingLeftHolds == Spec => []NothingLeft
<1>1. IInv => NothingLeft
  BY DEF IInv, TypeOK, NoFault, Resting, NothingLeft
<1> QED
  BY <1>1, InductiveInvariant, PTL

\* A Node that stays and the suite's own Machine are there while the specs run; a Node
\* that goes away is taken only by a suite that has made nothing, or after a fault.
THEOREM SpecsHaveNodeHolds == Spec => []SpecsHaveNode
<1>1. IInv => SpecsHaveNode
  BY DEF IInv
<1> QED
  BY <1>1, InductiveInvariant, PTL

\* Only a left-over destroy task takes the template or the folder from a suite that
\* needs them.
THEOREM TemplateWhileNeededHolds == Spec => TemplateWhileNeeded
<1>1. IInv /\ [Next]_vars =>
        [Needed' => \/ Cloneable'
                    \/ Needed /\ ~Cloneable
                    \/ Needed /\ tasks' # tasks /\ faults > 0]_vars
  BY TemplateStep DEF TemplateKept
<1> QED
  BY <1>1, InductiveInvariant, PTL DEF Spec, TemplateWhileNeeded

\* Only a destroy task that ends destroys the template or the folder.
LEMMA WhoDestroys == IInv /\ Next /\ Destroys => tasks # {}
<1> SUFFICES ASSUME TypeOK, ImportInv, Next, Destroys PROVE tasks # {}
  BY DEF IInv
<1> USE DEF Destroys, TypeOK
<1>1. CASE Runner
  <2>1. CASE FindNode BY <2>1 DEF FindNode, vsphere
  <2>2. CASE MachineSetUp BY <2>2 DEF MachineSetUp, vsphere
  <2>3. CASE WaitForMachineSetMachines BY <2>3 DEF WaitForMachineSetMachines, vsphere
  <2>4. CASE WaitForReadyNodeInTopology BY <2>4 DEF WaitForReadyNodeInTopology, vsphere
  <2>5. CASE RunSpecs BY <2>5 DEF RunSpecs, vsphere
  <2>6. CASE NothingMade BY <2>6 DEF NothingMade, vsphere
  <2>7. CASE ScaleDown BY <2>7 DEF ScaleDown, vsphere
  <2>8. CASE Drained BY <2>8 DEF Drained, vsphere
  <2>9. CASE DrainGivenUp BY <2>9 DEF DrainGivenUp, vsphere
  <2>10. CASE DeleteMachineSet BY <2>10 DEF DeleteMachineSet, vsphere
  <2>11. CASE NewSession BY <2>11 DEF NewSession, vsphere
  <2>12. CASE DeleteTemplate BY <2>12 DEF DeleteTemplate
  <2>13. CASE DeleteVMFolder BY <2>13 DEF DeleteVMFolder
  <2>14. CASE WaitInVain BY <2>14 DEF WaitInVain, vsphere
  <2>15. CASE WaitTemplate BY <2>15 DEF WaitTemplate, vsphere
  <2>16. CASE WaitFolder BY <2>16 DEF WaitFolder, vsphere
  <2> QED
    BY <1>1, <2>1, <2>2, <2>3, <2>4, <2>5, <2>6, <2>7, <2>8, <2>9, <2>10, <2>11, <2>12, <2>13, <2>14, <2>15, <2>16 DEF Runner, AfterAll
<1>2. ASSUME NEW s \in Suites, StartSuite(s) \/ Cluster(s) PROVE FALSE
  BY <1>2 DEF StartSuite, Cluster, SyncMachineSet, Provision, NodeReady, MachineGone, NodeGone, Controlled, vsphere
<1>3. ASSUME NEW s \in Suites, Import(s) PROVE FALSE
  <2>1. CASE EnsureVMFolder(s) BY <2>1 DEF EnsureVMFolder
  <2>2. CASE FindTemplateByName(s) BY <2>2 DEF FindTemplateByName, vsphere
  <2>3. CASE ImportVApp(s) BY <2>3 DEF ImportVApp
  <2>4. CASE LeaseWait(s) BY <2>4 DEF LeaseWait, vsphere
  <2>5. CASE UploadAndComplete(s) BY <2>5 DEF UploadAndComplete
  <2>6. CASE MarkAsTemplate(s) BY <2>6 DEF MarkAsTemplate
  <2> QED
    BY <1>3, <2>1, <2>2, <2>3, <2>4, <2>5, <2>6 DEF Import
<1>4. ASSUME NEW s \in Suites, ImportFails(s) PROVE FALSE
  <2>1. folder => folder'
    BY <1>4 DEF ImportFails
  <2>2. vm = "template" => vm' = "template"
    BY <1>4 DEF ImportFails, ImportInv, Leased
  <2> QED
    BY <2>1, <2>2
<1>5. CASE MachineSetUpFails BY <1>5 DEF MachineSetUpFails, vsphere
<1>6. CASE BeforeAllFails BY <1>6 DEF BeforeAllFails, vsphere
<1>7. CASE NodeTimeout BY <1>7 DEF NodeTimeout, vsphere
<1>8. CASE CleanupExpires BY <1>8 DEF CleanupExpires, vsphere
<1>9. CASE ProcessEnds BY <1>9 DEF ProcessEnds, vsphere
<1>10. CASE LeaseExpires BY <1>10 DEF LeaseExpires
<1>11. CASE TemplateDestroyed BY <1>11 DEF TemplateDestroyed
<1>12. CASE FolderDestroyed BY <1>12 DEF FolderDestroyed
<1> QED
  BY <1>1, <1>2, <1>3, <1>4, <1>5, <1>6, <1>7, <1>8, <1>9, <1>10, <1>11, <1>12 DEF Next, VSphere

\* A task of AfterAll takes the template or the folder from under a Machine of the suite
\* only if scaling down or the drain was given up, and any task does so, or is one that
\* nobody waits for, only after a fault.
THEOREM NotUnderMachinesHolds == Spec => NotUnderMachines
<1>1. IInv /\ [Next]_vars =>
        [Destroys => /\ pc \in Emptied => NoMachine(cur) \/ lost \intersect {"scale", "drain"} # {}
                     /\ faults = 0 => pc \in {"waittemplate", "waitfolder"} /\ \A s \in Suites : NoMachine(s)]_vars
  <2> SUFFICES ASSUME IInv, Next, Destroys
               PROVE  /\ pc \in Emptied => NoMachine(cur) \/ lost \intersect {"scale", "drain"} # {}
                      /\ faults = 0 => pc \in {"waittemplate", "waitfolder"} /\ \A s \in Suites : NoMachine(s)
    OBVIOUS
  <2>1. tasks # {}
    BY WhoDestroys
  <2>2. ASSUME pc \in Emptied PROVE NoMachine(cur) \/ lost \intersect {"scale", "drain"} # {}
    <3>1. NoMachine(cur) \/ "scale" \in lost \/ "drain" \in lost
      BY <2>2 DEF IInv, DrainInv
    <3> QED
      BY <3>1
  <2>3. ASSUME faults = 0
        PROVE  pc \in {"waittemplate", "waitfolder"} /\ \A s \in Suites : NoMachine(s)
    BY <2>1, <2>3 DEF IInv, TypeOK, NoFault, Resting
  <2> QED
    BY <2>2, <2>3
<1> QED
  BY <1>1, InductiveInvariant, PTL DEF Spec, NotUnderMachines
=============================================================================
