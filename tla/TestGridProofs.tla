--------------------------- MODULE TestGridProofs ---------------------------
(***************************************************************************)
(* Proofs about TestGrid, for any number of runs and of faults.            *)
(***************************************************************************)
EXTENDS TestGrid, FiniteSetTheorems, TLAPS

Outcome    == {"missing", "pass", "fail", "error"}
ReportType == [cluster : Nat, result : Outcome, readable : BOOLEAN]
Directory  == [File -> ReportType]

\* The reports are of clusters that were made, and only what was left there before the
\* grid is of make test-mutating.
FilesInv ==
    /\ reports \in Directory /\ results \in [1..Runs -> Directory]
    /\ \A f \in File : reports[f].cluster <= made /\ \A r \in 1..Runs : results[r][f].cluster <= made
    /\ leftover \in BOOLEAN
    /\ ~leftover => reports["mutating"] = NoReport /\ \A r \in 1..Runs : results[r]["mutating"] = NoReport

\* Before its reports are collected a run has none.
BeforeCollect == Phases \union {"create", "apply", "verify", "restore", "collect"}

RunInv ==
    /\ step \notin {"next", "done"} => i \in 1..Runs
    /\ step \in BeforeCollect => Present(results[i]) = {}

LabInv ==
    /\ ReadyForTests
    /\ step = "verify" => lab = "multi" /\ restoreNeeded
    /\ step = "restore" => restoreNeeded

\* make test-e2e that has seen no failure has a report of every phase it is past.
Passed(dir, S) == \A p \in S : dir[p].result = "pass" /\ dir[p].readable

PassInv ==
    /\ step \in {"apply", "verify", "phase3"} /\ ~rc => Passed(reports, {"phase1"})
    /\ step = "phase4" /\ ~rc => Passed(reports, {"phase1", "phase3"})
    /\ step = "phase5" /\ ~rc => Passed(reports, {"phase1", "phase3", "phase4"})
    /\ step \in {"restore", "collect"} /\ ~rc => Passed(reports, Phases)
    /\ step = "status" /\ ~rc => Passed(results[i], Phases)
    /\ \A r \in 1..Runs : status[r] = "PASS" => Passed(results[r], Phases)

\* Between two runs the cluster the install directory still knows counts as lost.
Lost == orphans \union IF step \in {"next", "done"} THEN {cluster} \ {0} ELSE {}

OrphanInv == IsFiniteSet(orphans) /\ Cardinality(Lost) <= faults

GridInv == TypeOK /\ FilesInv /\ RunInv /\ LabInv /\ PassInv /\ OrphanInv

-----------------------------------------------------------------------------
\* The report files as a set.
LEMMA FileNames == File = {"mutating", "phase1", "phase3", "phase4", "phase5"}
BY DEF File, Files, ToSet

\* Reports, and what stands for none, in their domains.
LEMMA ReportTypes ==
    /\ NoReport \in ReportType /\ NoReport.cluster = 0 /\ NoReport.result = "missing" /\ ~NoReport.readable
    /\ Nothing \in Directory
    /\ \A c \in Nat, result \in Outcome :
          /\ Report(c, result) \in ReportType /\ Report(c, result).cluster = c
          /\ Report(c, result).result = result /\ Report(c, result).readable
    /\ \A f \in File : Bad[f] \in {"fail", "error"}
BY DEF NoReport, ReportType, Outcome, Nothing, Directory, Report, Bad

\* A directory without reports.
LEMMA PresentIs ==
    ASSUME NEW dir
    PROVE  Present(dir) = {} <=> \A f \in File : dir[f] = NoReport
BY DEF Present

\* What an interrupted copy holds of a file is the report, maybe in part, or nothing.
LEMMA CopiedFile ==
    ASSUME reports \in Directory, NEW n, NEW whole \in BOOLEAN
    PROVE  /\ Copied(n, whole) \in Directory
           /\ \A f \in File : /\ Copied(n, whole)[f].cluster \in {0, reports[f].cluster}
                              /\ reports[f] = NoReport => Copied(n, whole)[f] = NoReport
<1>1. ASSUME NEW f \in File
      PROVE  /\ Copied(n, whole)[f] \in ReportType
             /\ Copied(n, whole)[f].cluster \in {0, reports[f].cluster}
             /\ reports[f] = NoReport => Copied(n, whole)[f] = NoReport
    <2> DEFINE k == CHOOSE j \in DOMAIN Files : Files[j] = f
    <2>1. Copied(n, whole)[f] = IF k > n \/ f \notin Present(reports) THEN NoReport
                                ELSE [reports[f] EXCEPT !.readable = whole \/ k < n]
        BY <1>1, Zenon DEF Copied
    <2>2. reports[f] \in ReportType /\ (whole \/ k < n) \in BOOLEAN
        BY <1>1 DEF Directory
    <2> HIDE DEF k
    <2>3. /\ [reports[f] EXCEPT !.readable = whole \/ k < n] \in ReportType
          /\ [reports[f] EXCEPT !.readable = whole \/ k < n].cluster = reports[f].cluster
        BY <2>2 DEF ReportType
    <2>4. reports[f] = NoReport => f \notin Present(reports)
        BY DEF Present
    <2> QED
        BY <2>1, <2>3, <2>4, ReportTypes
<1>2. Copied(n, whole) = [f \in File |-> Copied(n, whole)[f]]
    BY Zenon DEF Copied
<1> QED
    BY <1>1, <1>2 DEF Directory

-----------------------------------------------------------------------------
(***************************************************************************)
(* The initial states                                                      *)
(***************************************************************************)
LEMMA InitInv == Init => TypeOK /\ FilesInv /\ RunInv /\ LabInv /\ PassInv /\ OrphanInv
<1> SUFFICES ASSUME Init PROVE TypeOK /\ FilesInv /\ RunInv /\ LabInv /\ PassInv /\ OrphanInv
    OBVIOUS
<1>0. Runs \in Nat /\ MaxFaults \in Nat
    BY RunsAssumption
<1>1. /\ reports \in Directory /\ \A f \in File : reports[f].cluster = 0
      /\ ~leftover => reports["mutating"] = NoReport
    <2>1. Bad["mutating"] \in Outcome /\ "mutating" \in File
        BY FileNames, ReportTypes DEF Outcome
    <2>2. Nothing \in Directory /\ \A f \in File : Nothing[f] = NoReport /\ Nothing[f].cluster = 0
        BY ReportTypes DEF Nothing
    <2>3. Report(0, Bad["mutating"]) \in ReportType /\ Report(0, Bad["mutating"]).cluster = 0
        BY <2>1, ReportTypes
    <2>4. CASE leftover
        <3>1. reports = [Nothing EXCEPT !["mutating"] = Report(0, Bad["mutating"])]
            BY <2>4 DEF Init
        <3> HIDE DEF Nothing
        <3> QED
            BY <2>1, <2>2, <2>3, <2>4, <3>1 DEF Directory
    <2>5. CASE ~leftover
        BY <2>1, <2>2, <2>5 DEF Init
    <2> QED
        BY <2>4, <2>5
<1>2. /\ results \in [1..Runs -> Directory]
      /\ \A r \in 1..Runs : results[r] = Nothing /\ status[r] = "none"
      /\ \A r \in 1..Runs : \A f \in File : results[r][f] = NoReport
    BY ReportTypes DEF Init, Nothing
<1>3. FilesInv
    BY <1>1, <1>2, ReportTypes, FileNames DEF FilesInv, Init
<1>4. TypeOK
    <2>1. status \in [1..Runs -> {"none", "PASS", "FAIL", "INSTALL_FAILED"}]
        BY DEF Init
    <2>2. \A r \in 1..Runs : \A f \in Present(results[r]) : results[r][f].cluster \in 0..made
        BY <1>2 DEF Present
    <2>3. i \in 1..(Runs + 1) /\ made \in Nat /\ faults \in 0..MaxFaults
        BY <1>0 DEF Init
    <2>4. {cluster, backup} \union orphans \subseteq 0..made /\ cluster \notin orphans /\ 0 \notin orphans
        BY DEF Init
    <2> QED
        BY <2>1, <2>2, <2>3, <2>4 DEF Init, TypeOK
<1>5. RunInv /\ LabInv
    BY FileNames DEF Init, RunInv, LabInv, ReadyForTests, BeforeCollect, Phases
<1>6. PassInv
    BY <1>2 DEF Init, PassInv
<1>7. OrphanInv
    <2>1. orphans = {} /\ Lost = {} /\ faults = 0
        BY DEF Init, Lost
    <2> QED
        BY <2>1, FS_EmptySet DEF OrphanInv
<1> QED
    BY <1>3, <1>4, <1>5, <1>6, <1>7

-----------------------------------------------------------------------------
(***************************************************************************)
(* Where the script is, and that what a run has collected stays            *)
(***************************************************************************)
LEMMA NextRunInv == TypeOK /\ FilesInv /\ RunInv /\ [Next]_vars => RunInv'
<1> SUFFICES ASSUME TypeOK, FilesInv, RunInv, [Next]_vars PROVE RunInv'
    OBVIOUS
<1>0. Runs \in Nat /\ i \in 1..(Runs + 1)
    BY RunsAssumption DEF TypeOK
<1> USE DEF RunInv, BeforeCollect, Phases, Go, NextRun, site, files, Calm
<1>1. ASSUME SkipRun \/ StartRun \/ CreateCluster PROVE RunInv'
    BY <1>0, <1>1 DEF SkipRun, StartRun, CreateCluster
<1>2. ASSUME NEW p \in Phases, NEW n \in Phases \union {"apply", "restore"}, Phase(p, n) PROVE RunInv'
    BY <1>2 DEF Phase
<1>3. ASSUME Apply \/ ApplyRefuses \/ Verify \/ Restore PROVE RunInv'
    BY <1>3 DEF Apply, ApplyRefuses, Verify, Restore
<1>4. ASSUME Collect \/ Status PROVE RunInv'
    BY <1>4 DEF Collect, Status
<1>5. ASSUME Destroy \/ Kill \/ Aggregate PROVE RunInv'
    BY <1>5 DEF Destroy, Kill, Aggregate
<1>6. ASSUME UNCHANGED vars PROVE RunInv'
    BY <1>6 DEF vars, script
<1> QED
    BY <1>1, <1>2, <1>3, <1>4, <1>5, <1>6 DEF Next, Script

\* A step that changes the results: the copy of the reports of the run, whole or not.
LEMMA ResultsStep ==
    ASSUME FilesInv, [Next]_vars
    PROVE  \/ UNCHANGED results
           \/ /\ step = "collect"
              /\ \/ results' = [results EXCEPT ![i] = reports]
                 \/ \E n \in DOMAIN Files, whole \in BOOLEAN : results' = [results EXCEPT ![i] = Copied(n, whole)]
BY DEF Next, Script, SkipRun, StartRun, CreateCluster, Phase, Apply, ApplyRefuses, Verify, Restore, Collect,
       Status, Destroy, Aggregate, Kill, files, vars

\* A run that has reports keeps them.
LEMMA ResultsKept ==
    ASSUME FilesInv, RunInv, [Next]_vars, NEW r \in 1..Runs, Present(results[r]) # {}
    PROVE  results'[r] = results[r]
<1>1. step = "collect" => r # i
    BY DEF RunInv, BeforeCollect
<1>2. results \in [1..Runs -> Directory]
    BY DEF FilesInv
<1> QED
    BY <1>1, <1>2, ResultsStep

-----------------------------------------------------------------------------
(***************************************************************************)
(* The files                                                               *)
(***************************************************************************)
LEMMA ReportsStep ==
    ASSUME [Next]_vars
    PROVE  /\ \/ reports' \in {reports, Nothing}
              \/ \E p \in Phases : \E result \in {"pass", Bad[p]} :
                    reports' = [reports EXCEPT ![p] = Report(cluster, result)]
           /\ made' \in {made, made + 1} /\ UNCHANGED leftover
BY DEF Next, Script, SkipRun, StartRun, CreateCluster, Phase, Apply, ApplyRefuses, Verify, Restore, Collect,
       Status, Destroy, Aggregate, Kill, site, files, vars, Calm, Phases

\* Every step keeps the reports in their domains and of clusters that were made.
LEMMA NextFilesInv == TypeOK /\ FilesInv /\ RunInv /\ [Next]_vars => FilesInv'
<1> SUFFICES ASSUME TypeOK, FilesInv, RunInv, [Next]_vars PROVE FilesInv'
    OBVIOUS
<1>1. /\ made \in Nat /\ made' \in Nat /\ made <= made' /\ UNCHANGED leftover
      /\ cluster \in 0..made
    BY ReportsStep DEF TypeOK
<1>2. /\ reports \in Directory /\ results \in [1..Runs -> Directory]
      /\ \A f \in File : reports[f].cluster <= made /\ \A r \in 1..Runs : results[r][f].cluster <= made
      /\ \A f \in File : reports[f].cluster \in Nat /\ \A r \in 1..Runs : results[r][f].cluster \in Nat
    BY DEF FilesInv, Directory, ReportType
<1>3. reports' \in Directory /\ (~leftover => reports'["mutating"] = NoReport)
      /\ \A f \in File : reports'[f].cluster <= made
    <2>1. CASE reports' \in {reports, Nothing}
        <3>1. \A f \in File : Nothing[f] = NoReport /\ NoReport.cluster <= made
            BY <1>1, ReportTypes DEF Nothing
        <3> QED
            BY <1>2, <2>1, <3>1, ReportTypes, FileNames DEF FilesInv
    <2>2. ASSUME NEW p \in Phases, NEW result \in {"pass", Bad[p]},
                 reports' = [reports EXCEPT ![p] = Report(cluster, result)]
          PROVE  reports' \in Directory /\ (~leftover => reports'["mutating"] = NoReport)
                 /\ \A f \in File : reports'[f].cluster <= made
        <3>1. p \in File /\ p # "mutating" /\ result \in Outcome /\ "mutating" \in File
            BY <2>2, FileNames, ReportTypes DEF Phases, Outcome
        <3>2. Report(cluster, result) \in ReportType /\ Report(cluster, result).cluster <= made
            BY <1>1, <3>1, ReportTypes
        <3> QED
            BY <1>2, <2>2, <3>1, <3>2 DEF Directory, FilesInv
    <2> QED
        BY <2>1, <2>2, ReportsStep
\* The directory a run's results are replaced by, if they are.
<1>4. ASSUME NEW dir \in Directory, results' = [results EXCEPT ![i] = dir], i \in 1..Runs,
             \A f \in File : dir[f].cluster <= made,
             ~leftover => dir["mutating"] = NoReport
      PROVE  FilesInv'
    <2>1. results' \in [1..Runs -> Directory]
        BY <1>2, <1>4
    <2>2. \A f \in File : \A r \in 1..Runs : results'[r][f].cluster <= made
        BY <1>2, <1>4
    <2>3. ~leftover => \A r \in 1..Runs : results'[r]["mutating"] = NoReport
        BY <1>2, <1>4 DEF FilesInv
    <2>4. \A f \in File : reports'[f].cluster \in Nat /\ \A r \in 1..Runs : results'[r][f].cluster \in Nat
        BY <1>3, <2>1 DEF Directory, ReportType
    <2>5. \A f \in File : reports'[f].cluster <= made' /\ \A r \in 1..Runs : results'[r][f].cluster <= made'
        BY <1>1, <1>3, <2>2, <2>4
    <2> QED
        BY <1>1, <1>3, <2>1, <2>3, <2>5 DEF FilesInv
<1>5. ASSUME UNCHANGED results PROVE FilesInv'
    <2>1. \A f \in File : reports'[f].cluster \in Nat
        BY <1>3 DEF Directory, ReportType
    <2>2. \A f \in File : reports'[f].cluster <= made' /\ \A r \in 1..Runs : results[r][f].cluster <= made'
        BY <1>1, <1>2, <1>3, <2>1
    <2> QED
        BY <1>1, <1>2, <1>3, <1>5, <2>2 DEF FilesInv
<1>6. ASSUME step = "collect", results' = [results EXCEPT ![i] = reports] PROVE FilesInv'
    BY <1>2, <1>4, <1>6 DEF FilesInv, RunInv
<1>7. ASSUME step = "collect", NEW n, NEW whole \in BOOLEAN, results' = [results EXCEPT ![i] = Copied(n, whole)]
      PROVE  FilesInv'
    <2>1. Copied(n, whole) \in Directory
        BY <1>2, <1>7, CopiedFile
    <2>2. \A f \in File : Copied(n, whole)[f].cluster <= made
        BY <1>1, <1>2, <1>7, CopiedFile
    <2>3. ~leftover => Copied(n, whole)["mutating"] = NoReport
        BY <1>2, <1>7, CopiedFile, FileNames DEF FilesInv
    <2> QED
        BY <1>4, <1>7, <2>1, <2>2, <2>3 DEF RunInv
<1> QED
    BY <1>5, <1>6, <1>7, ResultsStep

-----------------------------------------------------------------------------
(***************************************************************************)
(* Type correctness                                                        *)
(***************************************************************************)
LEMMA NextTypeOK == TypeOK /\ FilesInv /\ RunInv /\ [Next]_vars => TypeOK'
<1> SUFFICES ASSUME TypeOK, FilesInv, RunInv, [Next]_vars PROVE TypeOK'
    OBVIOUS
<1>0. Runs \in Nat /\ MaxFaults \in Nat
    BY RunsAssumption
<1>1. /\ i \in 1..(Runs + 1) /\ faults \in 0..MaxFaults /\ made \in Nat
      /\ step \notin {"next", "done"} => i \in 1..Runs
    BY DEF TypeOK, RunInv
<1>2. i' \in 1..(Runs + 1)
    <2>1. \/ i' = i \/ i' = 1
          \/ i' = i + 1 /\ (i <= Runs \/ step = "destroy")
        BY DEF Next, Script, SkipRun, StartRun, CreateCluster, Phase, Apply, ApplyRefuses, Verify, Restore, Collect,
               Status, Destroy, Aggregate, Kill, Go, NextRun, vars, script
    <2> QED
        BY <1>0, <1>1, <2>1
<1>3. faults' \in 0..MaxFaults
    <2>1. faults' = faults \/ (faults < MaxFaults /\ faults' = faults + 1)
        BY DEF Next, Script, SkipRun, StartRun, CreateCluster, Phase, Apply, ApplyRefuses, Verify, Restore, Collect,
               Status, Destroy, Aggregate, Kill, Fault, Calm, vars
    <2> QED
        BY <1>0, <1>1, <2>1
<1>4. status' \in [1..Runs -> {"none", "PASS", "FAIL", "INSTALL_FAILED"}]
    <2>1. status' = status \/ \E s \in {"PASS", "FAIL", "INSTALL_FAILED"} : status' = [status EXCEPT ![i] = s]
        BY DEF Next, Script, SkipRun, StartRun, CreateCluster, Phase, Apply, ApplyRefuses, Verify, Restore, Collect,
               Status, Destroy, Aggregate, Kill, vars, files
    <2> QED
        BY <2>1 DEF TypeOK
<1>5. \A r \in 1..Runs : \A f \in Present(results'[r]) : results'[r][f].cluster \in 0..made'
    <2>1. FilesInv' /\ made' \in Nat
        BY <1>1, NextFilesInv, ReportsStep
    <2>2. ASSUME NEW r \in 1..Runs, NEW f \in Present(results'[r])
          PROVE  results'[r][f].cluster \in 0..made'
        <3>1. f \in File
            BY <2>2 DEF Present
        <3>2. results'[r][f].cluster \in Nat /\ results'[r][f].cluster <= made'
            BY <2>1, <2>2, <3>1 DEF FilesInv, Directory, ReportType
        <3> QED
            BY <2>1, <3>2
    <2> QED
        BY <2>2
<1>6. rc' \in BOOLEAN /\ restoreNeeded' \in BOOLEAN
    <2>1. rc' \in {rc, TRUE, FALSE} \/ \E result \in {"pass", "fail", "error"} : rc' = (rc \/ result # "pass" \/ lab' # lab)
        <3>1. ASSUME NEW p \in Phases, NEW n, Phase(p, n)
              PROVE  rc' = TRUE \/ \E result \in {"pass", "fail", "error"} : rc' = (rc \/ result # "pass" \/ lab' # lab)
            BY <3>1, ReportTypes, FileNames DEF Phase, Phases
        <3>2. ASSUME \/ SkipRun \/ StartRun \/ CreateCluster \/ Apply \/ ApplyRefuses \/ Verify \/ Restore
                     \/ Collect \/ Status \/ Destroy \/ Aggregate \/ Kill \/ UNCHANGED vars
              PROVE  rc' \in {rc, TRUE, FALSE}
            BY <3>2 DEF SkipRun, StartRun, CreateCluster, Apply, ApplyRefuses, Verify, Restore, Collect,
                        Status, Destroy, Aggregate, Kill, vars, script
        <3> QED
            BY <3>1, <3>2 DEF Next, Script, Phases
    <2>2. rc' \in BOOLEAN
        BY <2>1, Zenon DEF TypeOK
    <2>3. restoreNeeded' \in {restoreNeeded, TRUE, FALSE}
        BY DEF Next, Script, SkipRun, StartRun, CreateCluster, Phase, Apply, ApplyRefuses, Verify, Restore, Collect,
               Status, Destroy, Aggregate, Kill, vars, script
    <2> QED
        BY <2>2, <2>3 DEF TypeOK
<1>7. /\ made' \in Nat /\ {cluster', backup'} \union orphans' \subseteq 0..made'
      /\ cluster' \notin orphans' /\ 0 \notin orphans'
    <2>0. {cluster, backup} \union orphans \subseteq 0..made /\ cluster \notin orphans /\ 0 \notin orphans
        BY DEF TypeOK
    <2>1. CASE CreateCluster
        <3>1. made' = made + 1 /\ cluster' = made + 1 /\ UNCHANGED <<backup, orphans>>
            BY <2>1 DEF CreateCluster
        <3> QED
            BY <1>1, <2>0, <3>1
    <2>2. CASE StartRun
        <3>1. UNCHANGED <<made, backup>> /\ cluster' = 0 /\ orphans' = orphans \union ({cluster} \ {0})
            BY <2>2 DEF StartRun
        <3> QED
            BY <1>1, <2>0, <3>1
    <2>3. ASSUME ~CreateCluster, ~StartRun
          PROVE  UNCHANGED <<made, orphans>> /\ cluster' \in {cluster, 0} /\ backup' \in {backup, cluster}
        BY <2>3 DEF Next, Script, SkipRun, Phase, Apply, ApplyRefuses, Verify, Restore, Collect,
               Status, Destroy, Aggregate, Kill, vars, site
    <2> QED
        BY <1>1, <2>0, <2>1, <2>2, <2>3
<1>8. lab' \in {"none", "single", "multi", "partial", "foreign"}
    BY DEF TypeOK, Next, Script, SkipRun, StartRun, CreateCluster, Phase, LabAfter, Apply, ApplyRefuses, Verify, Restore, Collect,
           Status, Destroy, Aggregate, Kill, vars, site
<1>9. step' \in Phases \union {"next", "create", "apply", "verify", "restore", "collect", "status", "destroy", "done"}
    BY DEF TypeOK, Next, Script, SkipRun, StartRun, CreateCluster, Phase, Apply, ApplyRefuses, Verify, Restore, Collect,
           Status, Destroy, Aggregate, Kill, vars, script, Phases, Go, NextRun
<1> QED
    BY <1>2, <1>3, <1>4, <1>5, <1>6, <1>7, <1>8, <1>9 DEF TypeOK

-----------------------------------------------------------------------------
(***************************************************************************)
(* The configuration of the cluster while the tests run                    *)
(***************************************************************************)
LEMMA NextLabInv == TypeOK /\ LabInv /\ [Next]_vars => LabInv'
<1> SUFFICES ASSUME TypeOK, LabInv, [Next]_vars PROVE LabInv'
    OBVIOUS
<1> USE DEF LabInv, ReadyForTests, Go, NextRun, site, Calm
<1>1. ASSUME SkipRun \/ StartRun \/ CreateCluster PROVE LabInv'
    BY <1>1 DEF SkipRun, StartRun, CreateCluster
<1>2. ASSUME Phase("phase1", "apply") PROVE LabInv'
    BY <1>2 DEF Phase, LabAfter
<1>3. ASSUME Phase("phase3", "phase4") \/ Phase("phase4", "phase5") \/ Phase("phase5", "restore") PROVE LabInv'
    BY <1>3 DEF Phase, LabAfter
<1>4. ASSUME Apply \/ ApplyRefuses \/ Verify PROVE LabInv'
    BY <1>4 DEF Apply, ApplyRefuses, Verify
<1>5. ASSUME Restore PROVE LabInv'
    BY <1>5 DEF Restore
<1>6. ASSUME Collect \/ Status \/ Destroy \/ Aggregate \/ Kill PROVE LabInv'
    BY <1>6 DEF Collect, Status, Destroy, Aggregate, Kill
<1>7. ASSUME UNCHANGED vars PROVE LabInv'
    BY <1>7 DEF vars, script
<1> QED
    BY <1>1, <1>2, <1>3, <1>4, <1>5, <1>6, <1>7 DEF Next, Script

-----------------------------------------------------------------------------
(***************************************************************************)
(* The reports of a run that passes                                        *)
(***************************************************************************)
LEMMA NextPassInv == TypeOK /\ FilesInv /\ RunInv /\ PassInv /\ [Next]_vars => PassInv'
<1> SUFFICES ASSUME TypeOK, FilesInv, RunInv, PassInv, [Next]_vars PROVE PassInv'
    OBVIOUS
<1>0. /\ reports \in Directory /\ results \in [1..Runs -> Directory]
      /\ status \in [1..Runs -> {"none", "PASS", "FAIL", "INSTALL_FAILED"}]
      /\ Phases \subseteq File /\ cluster \in Nat
    BY FileNames DEF FilesInv, TypeOK, Phases
\* A run that has passed stays so: it has reports.
<1>1. ASSUME NEW r \in 1..Runs, status[r] = "PASS" PROVE Passed(results'[r], Phases) /\ Present(results[r]) # {}
    <2>1. Passed(results[r], Phases)
        BY <1>1 DEF PassInv
    <2>2. results[r]["phase1"].result = "pass" /\ "phase1" \in File
        BY <2>1, FileNames DEF Passed, Phases
    <2>3. Present(results[r]) # {}
        BY <2>2, ReportTypes, PresentIs
    <2> QED
        BY <2>1, <2>3, ResultsKept
<1>2. ASSUME UNCHANGED status PROVE \A r \in 1..Runs : status'[r] = "PASS" => Passed(results'[r], Phases)
    BY <1>1, <1>2
\* A phase that passes has its report, and leaves the others'.
<1>3. ASSUME NEW p \in Phases, NEW n, Phase(p, n), ~rc'
      PROVE  ~rc /\ reports'[p].result = "pass" /\ reports'[p].readable /\ step' = n
             /\ \A q \in Phases \ {p} : reports'[q] = reports[q]
    <2>1. PICK result \in {"pass", Bad[p]} : /\ reports' = [reports EXCEPT ![p] = Report(cluster, result)]
                                             /\ rc' = (rc \/ result # "pass" \/ lab' # lab)
        BY <1>3 DEF Phase
    <2>2. result = "pass" /\ ~rc
        BY <1>3, <2>1
    <2>3. step' = n
        BY <1>3 DEF Phase, Go
    <2>4. reports'[p] = Report(cluster, "pass") /\ \A q \in Phases \ {p} : reports'[q] = reports[q]
        BY <1>0, <2>1, <2>2 DEF Directory
    <2>5. Report(cluster, "pass").result = "pass" /\ Report(cluster, "pass").readable
        BY <1>0, ReportTypes DEF Outcome
    <2> QED
        BY <2>2, <2>3, <2>4, <2>5
<1>4. ASSUME NEW p \in Phases, NEW n, Phase(p, n)
      PROVE  UNCHANGED <<status, results>> /\ step = p /\ step' \in {n, "collect"} /\ rc' \in BOOLEAN
    BY <1>4, NextTypeOK DEF Phase, Go, TypeOK
<1>5. ASSUME Phase("phase1", "apply") PROVE PassInv'
    BY <1>2, <1>3, <1>4, <1>5 DEF PassInv, Passed, Phases
<1>6. ASSUME Phase("phase3", "phase4") PROVE PassInv'
    BY <1>2, <1>3, <1>4, <1>6 DEF PassInv, Passed, Phases
<1>7. ASSUME Phase("phase4", "phase5") PROVE PassInv'
    BY <1>2, <1>3, <1>4, <1>7 DEF PassInv, Passed, Phases
<1>8. ASSUME Phase("phase5", "restore") PROVE PassInv'
    BY <1>2, <1>3, <1>4, <1>8 DEF PassInv, Passed, Phases
<1>9. ASSUME SkipRun \/ StartRun \/ Destroy \/ Aggregate \/ Kill PROVE PassInv'
    BY <1>2, <1>9 DEF SkipRun, StartRun, Destroy, Aggregate, Kill, PassInv, Go, NextRun, files
<1>10. ASSUME CreateCluster PROVE PassInv'
    <2>1. \A r \in 1..Runs : status'[r] = "PASS" => status[r] = "PASS"
        BY <1>0, <1>10 DEF CreateCluster
    <2> QED
        BY <1>1, <1>10, <2>1 DEF CreateCluster, PassInv, Go
<1>11. ASSUME Apply \/ ApplyRefuses \/ Verify \/ Restore PROVE PassInv'
    BY <1>2, <1>11 DEF Apply, ApplyRefuses, Verify, Restore, PassInv, Passed, Go, files
<1>12. ASSUME Collect PROVE PassInv'
    <2>1. step = "collect" /\ step' = "status" /\ UNCHANGED <<rc, i, status>> /\ i \in 1..Runs
          /\ results' = [results EXCEPT ![i] = reports]
        BY <1>12 DEF Collect, Go, RunInv
    <2>2. results'[i'] = reports
        BY <1>0, <2>1
    <2> QED
        BY <1>2, <2>1, <2>2 DEF PassInv
<1>13. ASSUME Status PROVE PassInv'
    <2>1. step = "status" /\ step' = "destroy" /\ UNCHANGED <<rc, i, results>> /\ i \in 1..Runs
          /\ status' = [status EXCEPT ![i] = IF rc THEN "FAIL" ELSE "PASS"]
        BY <1>13 DEF Status, Go, RunInv
    <2>2. ~rc => Passed(results[i], Phases)
        BY <2>1 DEF PassInv
    <2>3. \A r \in 1..Runs : status'[r] = "PASS" => Passed(results[r], Phases)
        BY <1>0, <2>1, <2>2 DEF PassInv
    <2> QED
        BY <2>1, <2>3 DEF PassInv
<1>14. ASSUME UNCHANGED vars PROVE PassInv'
    BY <1>14 DEF vars, script, files, PassInv, Passed
<1> QED
    BY <1>5, <1>6, <1>7, <1>8, <1>9, <1>10, <1>11, <1>12, <1>13, <1>14 DEF Next, Script

-----------------------------------------------------------------------------
(***************************************************************************)
(* Clusters nobody knows                                                   *)
(***************************************************************************)
LEMMA FewerLost ==
    ASSUME NEW S, IsFiniteSet(S), NEW T \in SUBSET S, NEW n \in Nat, Cardinality(S) <= n
    PROVE  IsFiniteSet(T) /\ Cardinality(T) <= n
<1>1. Cardinality(S) \in Nat /\ IsFiniteSet(T) /\ Cardinality(T) <= Cardinality(S)
    BY FS_Subset, FS_CardinalityType
<1>2. Cardinality(T) \in Nat
    BY <1>1, FS_CardinalityType
<1> QED
    BY <1>1, <1>2

\* One more cluster is at most one more lost.
LEMMA OneMoreLost ==
    ASSUME NEW S, IsFiniteSet(S), NEW x, NEW n \in Nat, Cardinality(S) <= n
    PROVE  IsFiniteSet(S \union {x}) /\ Cardinality(S \union {x}) <= n + 1
<1>1. Cardinality(S) \in Nat
    BY FS_CardinalityType
<1>2. IsFiniteSet(S \union {x}) /\ Cardinality(S \union {x}) \in {Cardinality(S), Cardinality(S) + 1}
    BY FS_AddElement
<1> QED
    BY <1>1, <1>2

\* Every step that loses a cluster is a fault.
LEMMA NextOrphanInv == TypeOK /\ OrphanInv /\ [Next]_vars => OrphanInv'
<1> SUFFICES ASSUME TypeOK, OrphanInv, [Next]_vars PROVE OrphanInv'
    OBVIOUS
<1>0. faults \in Nat /\ IsFiniteSet(Lost) /\ IsFiniteSet(orphans) /\ Cardinality(Lost) <= faults
    <2>1. faults \in Nat
        BY RunsAssumption DEF TypeOK
    <2>2. IsFiniteSet(orphans \union {cluster})
        BY FS_AddElement DEF OrphanInv
    <2>3. Lost \subseteq orphans \union {cluster}
        BY DEF Lost
    <2> QED
        BY <2>1, <2>2, <2>3, FS_Subset DEF OrphanInv
\* Steps that lose no more than was lost.
<1>1. ASSUME Lost' \subseteq Lost, orphans' \subseteq Lost, UNCHANGED faults PROVE OrphanInv'
    BY <1>0, <1>1, FewerLost DEF OrphanInv
\* Steps that lose the cluster and count a fault.
<1>2. ASSUME Lost' \subseteq orphans \union {cluster}, UNCHANGED orphans, faults' = faults + 1 PROVE OrphanInv'
    <2>1. orphans \subseteq Lost
        BY DEF Lost
    <2>2. Cardinality(orphans) <= faults
        BY <1>0, <2>1, FewerLost
    <2>3. IsFiniteSet(orphans \union {cluster}) /\ Cardinality(orphans \union {cluster}) <= faults + 1
        BY <1>0, <2>2, OneMoreLost
    <2>4. Cardinality(Lost') <= faults + 1
        BY <1>0, <1>2, <2>3, FewerLost
    <2> QED
        BY <1>0, <1>2, <2>4 DEF OrphanInv
<1>3. ASSUME SkipRun \/ Aggregate PROVE OrphanInv'
    BY <1>1, <1>3 DEF SkipRun, Aggregate, Lost, Go, NextRun, site, Calm
<1>4. ASSUME StartRun PROVE OrphanInv'
    BY <1>1, <1>4 DEF StartRun, Lost, Go, Calm
<1>5. ASSUME CreateCluster PROVE OrphanInv'
    BY <1>1, <1>5 DEF CreateCluster, Lost, Go, Calm
<1>6. ASSUME NEW p \in Phases, NEW n \in Phases \union {"apply", "restore"}, Phase(p, n) PROVE OrphanInv'
    <2>1. UNCHANGED <<orphans, cluster>> /\ step' \in BeforeCollect /\ (faults' = faults \/ faults' = faults + 1)
        BY <1>6 DEF Phase, site, Go, BeforeCollect, Phases, Fault
    <2>2. Lost' = orphans
        BY <2>1 DEF Lost, BeforeCollect, Phases
    <2>3. orphans \subseteq Lost
        BY DEF Lost
    <2> QED
        BY <1>1, <1>2, <2>1, <2>2, <2>3
<1>7. ASSUME Apply \/ ApplyRefuses \/ Verify \/ Restore \/ Collect \/ Status PROVE OrphanInv'
    BY <1>1, <1>7 DEF Apply, ApplyRefuses, Verify, Restore, Collect, Status, Lost, Go, site, Calm
<1>8. ASSUME Destroy PROVE OrphanInv'
    <2>1. step = "destroy" /\ UNCHANGED orphans
          /\ ((cluster' = 0 /\ faults' = faults) \/ (cluster' = cluster /\ faults' = faults + 1))
        BY <1>8 DEF Destroy, Fault
    <2>2. orphans \subseteq Lost /\ Lost' \subseteq orphans \union ({cluster'} \ {0})
        BY <2>1 DEF Lost
    <2> QED
        BY <1>1, <1>2, <2>1, <2>2
<1>9. ASSUME Kill PROVE OrphanInv'
    BY <1>2, <1>9 DEF Kill, Fault, Lost
<1>10. ASSUME UNCHANGED vars PROVE OrphanInv'
    BY <1>10 DEF vars, script, site, OrphanInv, Lost
<1> QED
    BY <1>3, <1>4, <1>5, <1>6, <1>7, <1>8, <1>9, <1>10 DEF Next, Script, Phases

-----------------------------------------------------------------------------
(***************************************************************************)
(* The grid                                                                *)
(***************************************************************************)
LEMMA Ranks ==
    /\ Rank("missing") = 1 /\ Rank("skip") = 2 /\ Rank("pass") = 3
    /\ Rank("fail") = 4 /\ Rank("error") = 5
BY DEF Rank, Order

Kind == {"missing", "skip", "pass", "fail", "error"}

\* Worse takes the one of two results that ranks higher, and never a missing one over another.
LEMMA RankOrder ==
    /\ \A a, b \in Kind : Worse(a, b) \in {a, b} /\ Rank(Worse(a, b)) >= Rank(a) /\ Rank(Worse(a, b)) >= Rank(b)
    /\ \A a \in Kind : Rank(a) \in Nat /\ Worse(a, "missing") = a
BY Ranks DEF Worse, Kind

\* What a file says of a test, "missing" if it cannot be read.
Says(f, t, r) == IF results[r][f].readable THEN ClassifyResult(f, t, results[r][f]) ELSE "missing"

\* Going through the files in their order gives the worst result of all of them.
LEMMA CellIsWorst ==
    ASSUME FilesInv, NEW t, NEW r \in 1..Runs
    PROVE  Cell(t, r) = Worst(t, r) /\ Cell(t, r) \in Kind
<1>1. \A f \in File : results[r][f].result \in Outcome /\ results[r][f].readable \in BOOLEAN
    BY DEF FilesInv, Directory, ReportType
<1>2. \A f \in File : Says(f, t, r) \in Kind
    BY <1>1 DEF Says, ClassifyResult, Outcome, Kind
<1> DEFINE c1 == Worse("missing", Says("mutating", t, r))
           c2 == Worse(c1, Says("phase1", t, r))
           c3 == Worse(c2, Says("phase3", t, r))
           c4 == Worse(c3, Says("phase4", t, r))
           c5 == Worse(c4, Says("phase5", t, r))
<1>3. /\ c1 \in Kind /\ c2 \in Kind /\ c3 \in Kind /\ c4 \in Kind /\ c5 \in Kind
      /\ c5 \in {"missing"} \union {Says(f, t, r) : f \in File}
      /\ \A f \in File : Rank(c5) >= Rank(Says(f, t, r))
    <2>1. c1 \in Kind /\ c1 \in {"missing", Says("mutating", t, r)} /\ Rank(c1) >= Rank(Says("mutating", t, r))
        BY <1>2, RankOrder, FileNames DEF Kind
    <2> HIDE DEF c1
    <2>2. c2 \in Kind /\ c2 \in {c1, Says("phase1", t, r)} /\ Rank(c2) >= Rank(Says("phase1", t, r)) /\ Rank(c2) >= Rank(c1)
        BY <1>2, <2>1, RankOrder, FileNames
    <2> HIDE DEF c2
    <2>3. c3 \in Kind /\ c3 \in {c2, Says("phase3", t, r)} /\ Rank(c3) >= Rank(Says("phase3", t, r)) /\ Rank(c3) >= Rank(c2)
        BY <1>2, <2>2, RankOrder, FileNames
    <2> HIDE DEF c3
    <2>4. c4 \in Kind /\ c4 \in {c3, Says("phase4", t, r)} /\ Rank(c4) >= Rank(Says("phase4", t, r)) /\ Rank(c4) >= Rank(c3)
        BY <1>2, <2>3, RankOrder, FileNames
    <2> HIDE DEF c4
    <2>5. c5 \in Kind /\ c5 \in {c4, Says("phase5", t, r)} /\ Rank(c5) >= Rank(Says("phase5", t, r)) /\ Rank(c5) >= Rank(c4)
        BY <1>2, <2>4, RankOrder, FileNames
    <2> HIDE DEF c5
    <2>6. \A f \in File : Rank(Says(f, t, r)) \in Nat
        BY <1>2, RankOrder
    <2>7. Rank(c1) \in Nat /\ Rank(c2) \in Nat /\ Rank(c3) \in Nat /\ Rank(c4) \in Nat /\ Rank(c5) \in Nat
        BY <2>1, <2>2, <2>3, <2>4, <2>5, RankOrder
    <2>8. \A f \in File : Rank(c5) >= Rank(Says(f, t, r))
        BY <2>1, <2>2, <2>3, <2>4, <2>5, <2>6, <2>7, FileNames
    <2>9. c5 \in {"missing"} \union {Says(f, t, r) : f \in File}
        BY <2>1, <2>2, <2>3, <2>4, <2>5, FileNames
    <2> QED
        BY <2>1, <2>2, <2>3, <2>4, <2>5, <2>8, <2>9
<1>4. Cell(t, r) = c5
    <2> DEFINE Read(cell, f) == IF results[r][f].readable
                                THEN Worse(cell, ClassifyResult(f, t, results[r][f])) ELSE cell
    <2>1. Cell(t, r) = Read(Read(Read(Read(Read("missing", "mutating"), "phase1"), "phase3"), "phase4"), "phase5")
        BY DEF Cell
    <2>2. \A cell \in Kind, f \in File : Read(cell, f) = Worse(cell, Says(f, t, r))
        BY RankOrder DEF Says
    <2> HIDE DEF Read
    <2>3. Read("missing", "mutating") = c1
        BY <2>2, FileNames DEF Kind
    <2>4. Read(c1, "phase1") = c2
        BY <1>3, <2>2, FileNames
    <2>5. Read(c2, "phase3") = c3
        BY <1>3, <2>2, FileNames
    <2>6. Read(c3, "phase4") = c4
        BY <1>3, <2>2, FileNames
    <2>7. Read(c4, "phase5") = c5
        BY <1>3, <2>2, FileNames
    <2> HIDE DEF c1, c2, c3, c4, c5
    <2> QED
        BY <2>1, <2>3, <2>4, <2>5, <2>6, <2>7
<1> DEFINE seen == {ClassifyResult(f, t, results[r][f]) : f \in {g \in File : results[r][g].readable}}
<1> HIDE DEF c1, c2, c3, c4, c5
<1>5. \A f \in File : Says(f, t, r) \in seen \union {"missing"}
    BY DEF Says
<1>6. \A x \in seen : \E f \in File : x = Says(f, t, r)
    BY DEF Says
<1>7. Worst(t, r) = IF "error" \in seen THEN "error" ELSE IF "fail" \in seen THEN "fail"
                    ELSE IF "pass" \in seen THEN "pass" ELSE IF "skip" \in seen THEN "skip" ELSE "missing"
    BY DEF Worst
<1> HIDE DEF seen
<1>8. \A x \in seen : Rank(c5) >= Rank(x)
    BY <1>3, <1>6
<1>9. c5 \in seen \union {"missing"}
    BY <1>3, <1>5
<1>10. c5 = Worst(t, r)
    BY <1>3, <1>7, <1>8, <1>9, Ranks DEF Kind
<1> QED
    BY <1>3, <1>4, <1>10

GridTests == {t \in Test : \E r \in 1..Runs, f \in File : results[r][f].readable}
RunsWith(t, kinds) == {r \in 1..Runs : Worst(t, r) \in kinds}

\* The parts of the grid, each in terms of the cells.
LEMMA GridParts ==
    /\ BuildGrid.cell = [t \in GridTests |-> [r \in 1..Runs |-> Cell(t, r)]]
    /\ BuildGrid.rate = [t \in GridTests |-> PassRate([r \in 1..Runs |-> Cell(t, r)])]
    /\ BuildGrid.total = [r \in 1..Runs |-> [k \in ToSet(Order) |-> Cardinality({t \in GridTests : Cell(t, r) = k})]]
<1> DEFINE cell == [t \in GridTests |-> [r \in 1..Runs |-> Cell(t, r)]]
<1>1. BuildGrid = [cell  |-> cell,
                   rate  |-> [t \in GridTests |-> PassRate(cell[t])],
                   total |-> [r \in 1..Runs |->
                                [k \in ToSet(Order) |-> Cardinality({t \in GridTests : cell[t][r] = k})]]]
    BY Zenon DEF BuildGrid, GridTests
<1>2. \A t \in GridTests : cell[t] = [r \in 1..Runs |-> Cell(t, r)]
    OBVIOUS
<1>3. [t \in GridTests |-> PassRate(cell[t])] = [t \in GridTests |-> PassRate([r \in 1..Runs |-> Cell(t, r)])]
    BY <1>2, Zenon
<1>4. ASSUME NEW r \in 1..Runs, NEW k PROVE {t \in GridTests : cell[t][r] = k} = {t \in GridTests : Cell(t, r) = k}
    OBVIOUS
<1>5. [r \in 1..Runs |-> [k \in ToSet(Order) |-> Cardinality({t \in GridTests : cell[t][r] = k})]]
        = [r \in 1..Runs |-> [k \in ToSet(Order) |-> Cardinality({t \in GridTests : Cell(t, r) = k})]]
    BY <1>4
<1> HIDE DEF cell
<1>6. /\ BuildGrid.cell = cell
      /\ BuildGrid.rate = [t \in GridTests |-> PassRate(cell[t])]
      /\ BuildGrid.total = [r \in 1..Runs |->
                                [k \in ToSet(Order) |-> Cardinality({t \in GridTests : cell[t][r] = k})]]
    BY <1>1
<1> QED
    BY <1>3, <1>5, <1>6 DEF cell

\* A run with the reports of all phases, passed, and no other has only passed tests.
LEMMA PassedIsGreen ==
    ASSUME FilesInv, ~leftover, NEW r \in 1..Runs, Passed(results[r], Phases), NEW t \in Test
    PROVE  t \in GridTests /\ Cell(t, r) = "pass"
<1>1. /\ \A f \in File : results[r][f].readable => f \in Phases /\ results[r][f].result = "pass"
      /\ results[r]["phase1"].readable /\ results[r]["phase4"].readable
      /\ results[r]["phase1"].result = "pass" /\ results[r]["phase4"].result = "pass"
    BY FileNames, ReportTypes DEF FilesInv, Passed, Phases
<1>2. t \in GridTests
    BY <1>1, FileNames DEF GridTests
<1> DEFINE seen == {ClassifyResult(f, t, results[r][f]) : f \in {g \in File : results[r][g].readable}}
<1>3. \A x \in seen : x \in {"pass", "skip"}
    BY <1>1 DEF ClassifyResult
<1>4. "pass" \in seen
    <2>1. Selected["phase1"] = "readonly" /\ Selected["phase4"] = "volumes"
        BY FileNames DEF Selected
    <2>2. CASE t = "readonly"
        BY <1>1, <2>1, <2>2, FileNames DEF ClassifyResult
    <2>3. CASE t = "volumes"
        BY <1>1, <2>1, <2>3, FileNames DEF ClassifyResult
    <2> QED
        BY <2>2, <2>3 DEF Test
<1>5. Worst(t, r) = IF "error" \in seen THEN "error" ELSE IF "fail" \in seen THEN "fail"
                    ELSE IF "pass" \in seen THEN "pass" ELSE IF "skip" \in seen THEN "skip" ELSE "missing"
    BY DEF Worst
<1> HIDE DEF seen
<1>6. Worst(t, r) = "pass"
    BY <1>3, <1>4, <1>5
<1> QED
    BY <1>2, <1>6, CellIsWorst

\* A run whose phases have all passed has only passed tests in the grid.
LEMMA PassInvIsGreen == FilesInv /\ PassInv => PassIsGreen
<1> SUFFICES ASSUME FilesInv, PassInv, ~leftover, NEW r \in 1..Runs, status[r] = "PASS"
             PROVE  /\ DOMAIN BuildGrid.cell = Test
                    /\ \A t \in Test : BuildGrid.cell[t][r] \notin {"missing", "fail", "error"}
    BY DEF PassIsGreen
<1>1. \A t \in Test : t \in GridTests /\ Cell(t, r) = "pass"
    BY PassedIsGreen DEF PassInv
<1>2. GridTests = Test
    BY <1>1 DEF GridTests
<1>3. BuildGrid.cell = [t \in Test |-> [q \in 1..Runs |-> Cell(t, q)]]
    BY <1>2, GridParts
<1> QED
    BY <1>1, <1>3

\* Two finite sets, one in the other, have as many elements just when they are equal.
LEMMA SameCount ==
    ASSUME NEW S, IsFiniteSet(S), NEW T \in SUBSET S
    PROVE  Cardinality(T) = Cardinality(S) <=> T = S
BY FS_Subset

\* Cells, rates and totals are those of the definition.
LEMMA GridRight == FilesInv => GridIsRight
<1> SUFFICES ASSUME FilesInv PROVE GridIsRight
    OBVIOUS
<1>0. IsFiniteSet(1..Runs) /\ IsFiniteSet(Test) /\ IsFiniteSet(GridTests)
    <2>1. IsFiniteSet(1..Runs)
        BY FS_Interval, RunsAssumption
    <2>2. IsFiniteSet({"readonly"}) /\ IsFiniteSet({"readonly"} \union {"volumes"})
        BY FS_Singleton, FS_AddElement
    <2>3. Test = {"readonly"} \union {"volumes"} /\ GridTests \subseteq Test
        BY DEF Test, GridTests
    <2> QED
        BY <2>1, <2>2, <2>3, FS_Subset
<1>1. ASSUME NEW t \in GridTests
      PROVE  /\ \A r \in 1..Runs : BuildGrid.cell[t][r] = Worst(t, r)
             /\ BuildGrid.rate[t][1] = Cardinality(RunsWith(t, {"pass"}))
             /\ BuildGrid.rate[t][1] = BuildGrid.rate[t][2] <=> RunsWith(t, {"fail", "error"}) = {}
    <2> DEFINE cell == [r \in 1..Runs |-> Cell(t, r)]
    <2>1. BuildGrid.cell[t] = cell /\ BuildGrid.rate[t] = PassRate(cell)
        BY <1>1, GridParts
    <2>2. \A r \in 1..Runs : cell[r] = Worst(t, r)
        BY CellIsWorst
    <2>3. {r \in 1..Runs : cell[r] = "pass"} = RunsWith(t, {"pass"})
        BY <2>2 DEF RunsWith
    <2>4. {r \in 1..Runs : cell[r] \in Ran} = RunsWith(t, Ran)
        BY <2>2 DEF RunsWith
    <2> HIDE DEF cell
    <2>5. BuildGrid.rate[t][1] = Cardinality(RunsWith(t, {"pass"})) /\ BuildGrid.rate[t][2] = Cardinality(RunsWith(t, Ran))
        BY <2>1, <2>3, <2>4 DEF PassRate
    <2>6. RunsWith(t, {"pass"}) \in SUBSET RunsWith(t, Ran) /\ RunsWith(t, Ran) \subseteq 1..Runs
        BY DEF RunsWith, Ran
    <2>7. IsFiniteSet(RunsWith(t, Ran))
        BY <1>0, <2>6, FS_Subset
    <2>8. Cardinality(RunsWith(t, {"pass"})) = Cardinality(RunsWith(t, Ran)) <=> RunsWith(t, {"pass"}) = RunsWith(t, Ran)
        BY <2>6, <2>7, SameCount
    <2>9. RunsWith(t, {"pass"}) = RunsWith(t, Ran) <=> RunsWith(t, {"fail", "error"}) = {}
        BY DEF RunsWith, Ran
    <2> QED
        BY <2>1, <2>2, <2>5, <2>8, <2>9
<1>2. ASSUME NEW r \in 1..Runs
      PROVE  BuildGrid.total[r]["fail"] + BuildGrid.total[r]["error"] > 0
                <=> \E t \in Test : r \in RunsWith(t, {"fail", "error"})
    <2> DEFINE With(k) == {t \in GridTests : Cell(t, r) = k}
    <2>1. "fail" \in ToSet(Order) /\ "error" \in ToSet(Order)
        BY DEF ToSet, Order
    <2>2. BuildGrid.total[r]["fail"] = Cardinality(With("fail")) /\ BuildGrid.total[r]["error"] = Cardinality(With("error"))
        BY <1>2, <2>1, GridParts
    <2>3. IsFiniteSet(With("fail")) /\ IsFiniteSet(With("error"))
        BY <1>0, FS_Subset
    <2>4. ASSUME NEW t \in Test, r \in RunsWith(t, {"fail", "error"}) PROVE t \in With("fail") \/ t \in With("error")
        <3>1. Cell(t, r) \in {"fail", "error"}
            BY <1>2, <2>4, CellIsWorst DEF RunsWith
        <3>2. t \in GridTests
            <4>1. ASSUME t \notin GridTests PROVE FALSE
                <5>1. {g \in File : results[r][g].readable} = {}
                    BY <1>2, <4>1 DEF GridTests
                <5>2. Worst(t, r) = "missing"
                    BY <5>1 DEF Worst
                <5> QED
                    BY <2>4, <5>2 DEF RunsWith
            <4> QED
                BY <4>1
        <3> QED
            BY <3>1, <3>2
    <2>5. ASSUME NEW t, t \in With("fail") \/ t \in With("error") PROVE t \in Test /\ r \in RunsWith(t, {"fail", "error"})
        BY <1>2, <2>5, CellIsWorst DEF RunsWith, GridTests
    <2> HIDE DEF With
    <2>6. /\ Cardinality(With("fail")) \in Nat /\ Cardinality(With("error")) \in Nat
          /\ Cardinality(With("fail")) = 0 <=> With("fail") = {}
          /\ Cardinality(With("error")) = 0 <=> With("error") = {}
        BY <2>3, FS_CardinalityType, FS_EmptySet
    <2>7. Cardinality(With("fail")) + Cardinality(With("error")) > 0 <=> (With("fail") # {} \/ With("error") # {})
        BY <2>6
    <2> QED
        BY <2>2, <2>4, <2>5, <2>7
<1>3. DOMAIN BuildGrid.cell = GridTests
    BY GridParts
<1> QED
    BY <1>1, <1>2, <1>3 DEF GridIsRight, RunsWith

-----------------------------------------------------------------------------
(***************************************************************************)
(* What follows                                                            *)
(***************************************************************************)
\* In every reachable state of a grid of any number of runs, with any number of kills.
THEOREM GridInvariant == Spec => []GridInv
<1>1. Init => GridInv
    BY InitInv DEF GridInv
<1>2. GridInv /\ [Next]_vars => GridInv'
    BY NextTypeOK, NextFilesInv, NextRunInv, NextLabInv, NextPassInv, NextOrphanInv DEF GridInv
<1> QED
    BY <1>1, <1>2, PTL DEF Spec

\* Type correctness of the script's variables, the clusters and the results.
THEOREM TypeCorrect == Spec => []TypeOK
<1>1. GridInv => TypeOK
    BY DEF GridInv
<1> QED
    BY <1>1, GridInvariant, PTL

\* Makefile:92, "Restore always runs after apply": the tests for two vCenters run on a
\* cluster that has them, and make test-e2e does not succeed with the second still there.
THEOREM TestsFindTheLab == Spec => []ReadyForTests
<1>1. GridInv => ReadyForTests
    BY DEF GridInv, LabInv
<1> QED
    BY <1>1, GridInvariant, PTL

\* A grid that is killed and started again changes no run that has reports.
THEOREM CollectedStays == Spec => ResultsStay
<1>1. GridInv /\ [Next]_vars => \A r \in 1..Runs : Present(results[r]) # {} => results'[r] = results[r]
    BY ResultsKept DEF GridInv
<1> QED
    BY <1>1, GridInvariant, PTL DEF Spec, ResultsStay

\* Every cluster that nobody knows any more costs a kill or a failed destroy.
THEOREM OrphansAreCounted == Spec => []OrphansAreFaults
<1>1. GridInv => OrphansAreFaults
    <2> SUFFICES ASSUME GridInv PROVE Cardinality(orphans) <= faults
        BY DEF OrphansAreFaults
    <2>1. faults \in Nat
        BY RunsAssumption DEF GridInv, TypeOK
    <2>2. orphans \subseteq Lost /\ Lost \subseteq orphans \union {cluster}
        BY DEF Lost
    <2>3. IsFiniteSet(Lost)
        BY <2>2, FS_AddElement, FS_Subset DEF GridInv, OrphanInv
    <2> QED
        BY <2>1, <2>2, <2>3, FewerLost DEF GridInv, OrphanInv
<1> QED
    BY <1>1, GridInvariant, PTL

\* A run with status PASS has only passed tests in the grid, whatever was killed on the
\* way, if reports/ was empty before the grid.
THEOREM PassRunsAreGreen == Spec => []PassIsGreen
<1>1. GridInv => PassIsGreen
    BY PassInvIsGreen DEF GridInv
<1> QED
    BY <1>1, GridInvariant, PTL

\* aggregate-junit: the cell of a test is its worst result in whatever files can be read,
\* and the pass rates and totals count those cells.
THEOREM GridIsTheWorst == Spec => []GridIsRight
<1>1. GridInv => GridIsRight
    BY GridRight DEF GridInv
<1> QED
    BY <1>1, GridInvariant, PTL

=============================================================================
